------------------------ MODULE HostAdmission_proofs ------------------------
(***************************************************************************)
(* Types of HostAdmission and, as long as no server crashes, exclusion of   *)
(* holders and the implementation of SlotCounter, for every number of       *)
(* servers, processes and slots.                                           *)
(*                                                                         *)
(* The argument: from the creation of its file to the unlink in its release *)
(* a process occupies the slot, and the slot's name refers to the file its  *)
(* claim created.  Updates only create a file where there is none, and only *)
(* the occupant can read its own record from that file and unlink it.       *)
(*                                                                         *)
(* Then, the start gate of the same run (Gate): what is started was passed  *)
(* by the policy, and a cap is exceeded only by calls that overlapped.     *)
(***************************************************************************)
EXTENDS MCAdmission, Sequences, TLAPS, FiniteSetTheorems

\* A claim looks at slots there are, and so do an update and a release.
InRange ==
  \A p \in Proc :
    /\ claim[p].at \in {"idle", "open", "write", "check", "unlink"} => claim[p].slot \in Slot
    /\ update[p].at \in {"read", "open"} => update[p].slot \in Slot
    /\ release[p].at \in {"read", "unlink"} => release[p].slot \in Slot

TypeInv == TypeOK /\ InRange

NoReclaim == up = Manager /\ \A p \in Proc : claim[p].at # "unlink"

\* A process claims, holds and releases once, in this order.
InOrder ==
  \A p \in Proc :
    /\ held[p] # NoSlot => claim[p].at = "done" /\ release[p].at = "idle"
    /\ release[p].at # "idle" => claim[p].at = "done"

Occupies(p, s) ==
  \/ claim[p].at = "write" /\ claim[p].slot = s
  \/ held[p] = s
  \/ release[p].at \in {"read", "unlink"} /\ release[p].slot = s

OwnFile == \A p \in Proc, s \in Slot : Occupies(p, s) => dir[s] = <<p, "claim">>

IInv == TypeInv /\ NoReclaim /\ InOrder /\ OwnFile

-----------------------------------------------------------------------------
(* Types.                                                                  *)

LEMMA SlotFacts == Slot \subseteq 0 .. MaxLiveTotal /\ 0 \in Slot /\ NoSlot \notin Slot
  BY ConstantsAssumption DEF Slot, NoSlot

LEMMA NextSlotTypes ==
  ASSUME TypeInv, NEW p \in Proc, claim[p].slot \in Slot, NextSlot(p)
  PROVE  /\ claim' \in [Proc -> ClaimState]
         /\ claim'[p].at \in {"open", "rejected"}
         /\ claim'[p].at = "open" => claim'[p].slot \in Slot
         /\ \A q \in Proc : q # p => claim'[q] = claim[q]
  BY ConstantsAssumption DEF TypeInv, TypeOK, NextSlot, Slot, ClaimState, ClaimPoint

LEMMA ClaimAtTypes ==
  ASSUME TypeInv, NEW p \in Proc,
         NEW at \in ClaimPoint,
         ClaimAt(p, at)
  PROVE  /\ claim' \in [Proc -> ClaimState]
         /\ claim'[p].at = at /\ claim'[p].slot = claim[p].slot
         /\ \A q \in Proc : q # p => claim'[q] = claim[q]
<1>1. claim \in [Proc -> ClaimState] /\ claim[p] \in ClaimState
  BY DEF TypeInv, TypeOK
<1>2. claim' = [claim EXCEPT ![p] = [claim[p] EXCEPT !.at = at]]
  BY DEF ClaimAt
<1>3. [claim[p] EXCEPT !.at = at] \in ClaimState
  BY <1>1 DEF ClaimState
<1>4. [claim[p] EXCEPT !.at = at].at = at /\ [claim[p] EXCEPT !.at = at].slot = claim[p].slot
  BY <1>1 DEF ClaimState
<1> HIDE DEF ClaimState
<1> QED
  BY <1>1, <1>2, <1>3, <1>4

LEMMA TypesKept == TypeInv /\ [Next]_vars => TypeInv'
<1> SUFFICES ASSUME TypeInv, [Next]_vars PROVE TypeInv'
  OBVIOUS
<1> USE SlotFacts
<1>1. ASSUME NEW p \in Proc, BeginClaim(p) PROVE TypeInv'
  <2>1. ClaimAt(p, "open") /\ claim[p].slot \in Slot /\ "open" \in ClaimPoint
    BY <1>1 DEF BeginClaim, TypeInv, InRange, ClaimPoint
  <2> QED
    BY <1>1, <2>1, ClaimAtTypes DEF BeginClaim, fileVars, TypeInv, TypeOK, InRange
<1>2. ASSUME NEW p \in Proc, ClaimCreate(p) PROVE TypeInv'
  <2>1. claim[p].slot \in Slot /\ UNCHANGED <<content, up, child, held, update, release>>
    BY <1>2 DEF ClaimCreate, TypeInv, InRange
  <2>2. ClaimAt(p, "write") \/ ClaimAt(p, "check") \/ NextSlot(p)
    BY <1>2 DEF ClaimCreate
  <2>3. dir' \in [Slot -> File \cup {NoFile}]
    <3>1. dir \in [Slot -> File \cup {NoFile}] /\ <<p, "claim">> \in File
      BY DEF TypeInv, TypeOK, File
    <3> QED
      BY <1>2, <3>1 DEF ClaimCreate
  <2> QED
    BY <2>1, <2>2, <2>3, ClaimAtTypes, NextSlotTypes DEF TypeInv, TypeOK, InRange, ClaimPoint
<1>3. ASSUME NEW p \in Proc, ClaimWrite(p) PROVE TypeInv'
  <2>1. claim[p].slot \in Slot /\ ClaimAt(p, "done") /\ UNCHANGED <<dir, up, child, update, release>>
    BY <1>3 DEF ClaimWrite, TypeInv, InRange
  <2>2. content' \in [File -> SUBSET Record]
    BY <1>3 DEF ClaimWrite, TypeInv, TypeOK, File, Record
  <2>3. held' \in [Proc -> Slot \cup {NoSlot}]
    BY <1>3, <2>1 DEF ClaimWrite, TypeInv, TypeOK
  <2> QED
    BY <2>1, <2>2, <2>3, ClaimAtTypes DEF TypeInv, TypeOK, InRange, ClaimPoint
<1>4. ASSUME NEW p \in Proc, ClaimWriteFails(p) PROVE TypeInv'
  BY <1>4, ClaimAtTypes DEF ClaimWriteFails, fileVars, TypeInv, TypeOK, InRange, ClaimPoint
<1>5. ASSUME NEW p \in Proc, ReclaimCheck(p) PROVE TypeInv'
  <2>1. claim[p].slot \in Slot /\ UNCHANGED <<fileVars, up, child, held, update, release>>
    BY <1>5 DEF ReclaimCheck, TypeInv, InRange
  <2>2. ClaimAt(p, "unlink") \/ NextSlot(p)
    BY <1>5 DEF ReclaimCheck
  <2> QED
    BY <2>1, <2>2, ClaimAtTypes, NextSlotTypes DEF fileVars, TypeInv, TypeOK, InRange, ClaimPoint
<1>6. ASSUME NEW p \in Proc, ReclaimUnlink(p) PROVE TypeInv'
  <2>1. claim[p].slot \in Slot /\ UNCHANGED <<content, up, child, held, update, release>>
    BY <1>6 DEF ReclaimUnlink, TypeInv, InRange
  <2>2. dir' \in [Slot -> File \cup {NoFile}]
    BY <1>6 DEF ReclaimUnlink, TypeInv, TypeOK
  <2>3. CASE NextSlot(p)
    BY <2>1, <2>2, <2>3, NextSlotTypes DEF TypeInv, TypeOK, InRange
  <2>4. CASE claim' = [claim EXCEPT ![p].at = "open", ![p].attempt = 1]
    <3>1. claim \in [Proc -> ClaimState] /\ claim[p] \in ClaimState
      BY DEF TypeInv, TypeOK
    <3> DEFINE r == [claim[p] EXCEPT !.at = "open", !.attempt = 1]
    <3>2. claim' = [claim EXCEPT ![p] = r]
      BY <2>4
    <3>3. r \in ClaimState /\ r.slot = claim[p].slot
      <4>1. 1 \in 0 .. 1 /\ "open" \in ClaimPoint
        BY DEF ClaimPoint
      <4> QED
        BY <3>1, <4>1 DEF ClaimState
    <3> HIDE DEF r
    <3>4. /\ claim' \in [Proc -> ClaimState]
          /\ \A q \in Proc : claim'[q].slot = claim[q].slot /\ (q # p => claim'[q] = claim[q])
      BY <3>1, <3>2, <3>3
    <3> QED
      BY <2>1, <2>2, <3>4 DEF TypeInv, TypeOK, InRange
  <2> QED
    BY <1>6, <2>3, <2>4 DEF ReclaimUnlink
<1>7. ASSUME NEW p \in Proc, Spawn(p) \/ ChildExits(p) PROVE TypeInv'
  BY <1>7 DEF Spawn, ChildExits, fileVars, TypeInv, TypeOK, InRange
<1>8. ASSUME NEW p \in Proc, Update(p) PROVE TypeInv'
  <2> DEFINE f == IF dir[update[p].slot] = NoFile THEN <<p, "update">> ELSE dir[update[p].slot]
  <2>1. UNCHANGED <<up, child, held, claim, release>>
    BY <1>8 DEF Update, BeginUpdate, UpdateRead, UpdateOpen, UpdateWrite, UpdateFails, fileVars
  <2>2. update \in [Proc -> UpdateState] /\ update[p] \in UpdateState /\ held[p] \in Slot \cup {NoSlot}
    BY DEF TypeInv, TypeOK
  <2> DEFINE Kept == /\ update' \in [Proc -> UpdateState]
                     /\ update'[p].at \in {"read", "open"} => update'[p].slot \in Slot
                     /\ \A q \in Proc : q # p => update'[q] = update[q]
  <2>3. CASE BeginUpdate(p)
    <3> DEFINE r == [update[p] EXCEPT !.at = "read", !.slot = held[p]]
    <3>1. update' = [update EXCEPT ![p] = r] /\ UNCHANGED fileVars /\ held[p] \in Slot
      BY <2>2, <2>3 DEF BeginUpdate
    <3>2. r \in UpdateState /\ r.slot \in Slot
      BY <2>2, <3>1 DEF UpdateState, UpdatePoint
    <3> HIDE DEF r
    <3>3. Kept
      BY <2>2, <3>1, <3>2
    <3> QED
      BY <2>1, <3>1, <3>3 DEF fileVars, TypeInv, TypeOK, InRange
  <2>4. CASE UpdateRead(p) \/ UpdateFails(p)
    <3>1. PICK at \in {"open", "done", "failed"} :
            /\ update' = [update EXCEPT ![p] = [update[p] EXCEPT !.at = at]]
            /\ at = "open" => update[p].slot \in Slot
      BY <2>4 DEF UpdateRead, UpdateFails, TypeInv, InRange
    <3>2. /\ [update[p] EXCEPT !.at = at] \in UpdateState
          /\ [update[p] EXCEPT !.at = at].at = at
          /\ [update[p] EXCEPT !.at = at].slot = update[p].slot
      BY <2>2 DEF UpdateState, UpdatePoint
    <3>3. Kept /\ UNCHANGED fileVars
      BY <2>2, <2>4, <3>1, <3>2 DEF UpdateRead, UpdateFails
    <3> QED
      BY <2>1, <3>3 DEF fileVars, TypeInv, TypeOK, InRange
  <2>5. CASE UpdateOpen(p)
    <3> DEFINE r == [update[p] EXCEPT !.at = "write", !.file = f]
    <3>1. /\ dir' = [dir EXCEPT ![update[p].slot] = f]
          /\ content' = [content EXCEPT ![f] = {}]
          /\ update' = [update EXCEPT ![p] = r]
          /\ update[p].slot \in Slot
      BY <2>5 DEF UpdateOpen, TypeInv, InRange
    <3>2. f \in File
      <4>1. <<p, "update">> \in File
        BY DEF File
      <4> QED
        BY <3>1, <4>1 DEF TypeInv, TypeOK
    <3> HIDE DEF f
    <3>3. r \in UpdateState /\ r.at = "write"
      BY <2>2, <3>2 DEF UpdateState, UpdatePoint
    <3> HIDE DEF r
    <3>4. Kept
      BY <2>2, <3>1, <3>3
    <3>5. dir' \in [Slot -> File \cup {NoFile}]
      BY <3>1, <3>2 DEF TypeInv, TypeOK
    <3>6. content' \in [File -> SUBSET Record]
      BY <3>1, <3>2 DEF TypeInv, TypeOK
    <3> QED
      BY <2>1, <3>4, <3>5, <3>6 DEF TypeInv, TypeOK, InRange
  <2>6. CASE UpdateWrite(p)
    <3>1. /\ update' = [update EXCEPT ![p] = [update[p] EXCEPT !.at = "done"]]
          /\ [update[p] EXCEPT !.at = "done"] \in UpdateState
          /\ [update[p] EXCEPT !.at = "done"].at = "done"
      BY <2>2, <2>6 DEF UpdateWrite, UpdateState, UpdatePoint
    <3>2. Kept
      BY <2>2, <3>1
    <3>3. [process |-> p, childPid |-> TRUE] \in Record
      BY DEF Record
    <3>4. content' \in [File -> SUBSET Record] /\ dir' = dir
      BY <2>6, <3>3 DEF UpdateWrite, TypeInv, TypeOK
    <3> QED
      BY <2>1, <3>2, <3>4 DEF TypeInv, TypeOK, InRange
  <2> QED
    BY <1>8, <2>3, <2>4, <2>5, <2>6 DEF Update
<1>9. ASSUME NEW p \in Proc, Release(p) PROVE TypeInv'
  <2>1. UNCHANGED <<content, up, child, claim, update>>
    BY <1>9 DEF Release, BeginRelease, ReleaseRead, ReleaseUnlink, fileVars
  <2>2. dir' \in [Slot -> File \cup {NoFile}] /\ held' \in [Proc -> Slot \cup {NoSlot}]
    BY <1>9 DEF Release, BeginRelease, ReleaseRead, ReleaseUnlink, fileVars, TypeInv, TypeOK
  <2>3. release \in [Proc -> ReleaseState] /\ release[p] \in ReleaseState /\ held[p] \in Slot \cup {NoSlot}
    BY DEF TypeInv, TypeOK
  <2> DEFINE Kept == /\ release' \in [Proc -> ReleaseState]
                     /\ release'[p].at \in {"read", "unlink"} => release'[p].slot \in Slot
                     /\ \A q \in Proc : q # p => release'[q] = release[q]
  <2>4. CASE BeginRelease(p)
    <3>1. held[p] \in Slot
      BY <2>3, <2>4 DEF BeginRelease
    <3>2. [at |-> "read", slot |-> held[p]] \in ReleaseState
      BY <3>1 DEF ReleaseState, ReleasePoint
    <3>3. Kept
      BY <2>3, <2>4, <3>1, <3>2 DEF BeginRelease
    <3> QED
      BY <2>1, <2>2, <3>3 DEF TypeInv, TypeOK, InRange
  <2>5. CASE ReleaseRead(p) \/ ReleaseUnlink(p)
    <3>1. PICK at \in {"unlink", "done"} : release' = [release EXCEPT ![p] = [release[p] EXCEPT !.at = at]]
      BY <2>5 DEF ReleaseRead, ReleaseUnlink
    <3>2. [release[p] EXCEPT !.at = at] \in ReleaseState
      BY <2>3 DEF ReleaseState, ReleasePoint
    <3>3. [release[p] EXCEPT !.at = at].slot = release[p].slot /\ release[p].slot \in Slot
      BY <2>3, <2>5 DEF ReleaseState, ReleaseRead, ReleaseUnlink, TypeInv, InRange
    <3>4. Kept
      BY <2>3, <3>1, <3>2, <3>3
    <3> QED
      BY <2>1, <2>2, <3>4 DEF TypeInv, TypeOK, InRange
  <2> QED
    BY <1>9, <2>4, <2>5 DEF Release
<1>10. ASSUME NEW m \in Manager, Crash(m) PROVE TypeInv'
  BY <1>10 DEF Crash, fileVars, TypeInv, TypeOK, InRange
<1>11. CASE UNCHANGED vars
  BY <1>11 DEF vars, TypeInv, TypeOK, InRange
<1> QED
  BY <1>1, <1>2, <1>3, <1>4, <1>5, <1>6, <1>7, <1>8, <1>9, <1>10, <1>11
     DEF Next, Claim

LEMMA InitTypes == Init => TypeInv
  BY SlotFacts, ConstantsAssumption DEF Init, TypeInv, TypeOK, InRange, File, ClaimState, ClaimPoint, UpdateState,
        UpdatePoint, ReleaseState, ReleasePoint

\* Every variable keeps its type, whatever crashes.
THEOREM TypeCorrect == Spec => []TypeOK
<1>1. TypeInv => TypeOK
  BY DEF TypeInv
<1> QED
  BY <1>1, InitTypes, TypesKept, PTL DEF Spec

-----------------------------------------------------------------------------
(* Without crashes: one holder per slot.                                   *)

LEMMA AFileIsAFile == \A q \in Proc : <<q, "claim">> # NoFile
  BY DEF NoFile

LEMMA NobodyIsStale ==
  ASSUME IInv, NEW s \in Slot
  PROVE  \A r \in RecordsIn(s) : ~Stale(r)
<1> SUFFICES ASSUME NEW r \in RecordsIn(s) PROVE ~Stale(r)
  OBVIOUS
<1>1. r \in Record
  BY DEF IInv, TypeInv, TypeOK, RecordsIn
<1>2. ManagerOf[r.process] \in Manager
  BY <1>1, ConstantsAssumption DEF Record
<1> QED
  BY <1>2 DEF IInv, NoReclaim, Stale

LEMMA ExclusionKept ==
  ASSUME Crashing = {}, IInv, [Next]_vars
  PROVE  NoReclaim' /\ InOrder' /\ OwnFile'
<1> USE SlotFacts, AFileIsAFile
<1>1. ASSUME NEW p \in Proc, BeginClaim(p) PROVE NoReclaim' /\ InOrder' /\ OwnFile'
  <2>1. ClaimAt(p, "open") /\ claim[p].at = "idle" /\ "open" \in ClaimPoint
        /\ UNCHANGED <<dir, up, held, release>>
    BY <1>1 DEF BeginClaim, fileVars, ClaimPoint
  <2>2. claim'[p].at = "open" /\ \A q \in Proc : q # p => claim'[q] = claim[q]
    BY <2>1, ClaimAtTypes DEF IInv
  <2>3. held[p] = NoSlot /\ release[p].at = "idle"
    BY <2>1 DEF IInv, InOrder
  <2> QED
    BY <2>1, <2>2, <2>3 DEF IInv, NoReclaim, InOrder, OwnFile, Occupies
<1>2. ASSUME NEW p \in Proc, ClaimCreate(p) PROVE NoReclaim' /\ InOrder' /\ OwnFile'
  <2>1. claim[p].at = "open" /\ claim[p].slot \in Slot /\ UNCHANGED <<up, held, release>>
    BY <1>2 DEF ClaimCreate, IInv, TypeInv, InRange
  <2>2. held[p] = NoSlot /\ release[p].at = "idle"
    BY <2>1 DEF IInv, InOrder
  <2>3. CASE dir[claim[p].slot] = NoFile
    <3>1. /\ dir' = [dir EXCEPT ![claim[p].slot] = <<p, "claim">>]
          /\ ClaimAt(p, "write") /\ "write" \in ClaimPoint
      BY <1>2, <2>3 DEF ClaimCreate, ClaimPoint
    <3>2. /\ claim'[p].at = "write" /\ claim'[p].slot = claim[p].slot
          /\ \A q \in Proc : q # p => claim'[q] = claim[q]
      BY <3>1, ClaimAtTypes DEF IInv
    <3>3. NoReclaim' /\ InOrder'
      BY <2>1, <2>2, <3>2 DEF IInv, NoReclaim, InOrder
    <3>4. ASSUME NEW q \in Proc, NEW s \in Slot, Occupies(q, s)' PROVE dir'[s] = <<q, "claim">>
      <4>1. CASE q = p
        BY <2>1, <2>2, <3>1, <3>2, <3>4, <4>1 DEF Occupies, IInv, TypeInv, TypeOK
      <4>2. CASE q # p
        <5>1. Occupies(q, s)
          BY <2>1, <3>2, <3>4, <4>2 DEF Occupies
        <5>2. dir[s] = <<q, "claim">>
          BY <5>1 DEF IInv, OwnFile
        <5> QED
          BY <2>3, <3>1, <5>2 DEF IInv, TypeInv, TypeOK
      <4> QED
        BY <4>1, <4>2
    <3> QED
      BY <3>3, <3>4 DEF OwnFile
  <2>4. CASE dir[claim[p].slot] # NoFile
    <3>1. dir' = dir /\ (ClaimAt(p, "check") \/ NextSlot(p)) /\ "check" \in ClaimPoint
      BY <1>2, <2>4 DEF ClaimCreate, ClaimPoint
    <3>2. /\ claim'[p].at \in {"check", "open", "rejected"}
          /\ \A q \in Proc : q # p => claim'[q] = claim[q]
      BY <2>1, <3>1, ClaimAtTypes, NextSlotTypes DEF IInv
    <3> QED
      BY <2>1, <2>2, <3>1, <3>2 DEF IInv, NoReclaim, InOrder, OwnFile, Occupies
  <2> QED
    BY <2>3, <2>4
<1>3. ASSUME NEW p \in Proc, ClaimWrite(p) PROVE NoReclaim' /\ InOrder' /\ OwnFile'
  <2>1. /\ claim[p].at = "write" /\ claim[p].slot \in Slot
        /\ ClaimAt(p, "done") /\ "done" \in ClaimPoint
        /\ held' = [held EXCEPT ![p] = claim[p].slot]
        /\ UNCHANGED <<dir, up, release>>
    BY <1>3 DEF ClaimWrite, ClaimPoint, IInv, TypeInv, InRange, OwnFile, Occupies
  <2>2. claim'[p].at = "done" /\ \A q \in Proc : q # p => claim'[q] = claim[q]
    BY <2>1, ClaimAtTypes DEF IInv
  <2>3. held'[p] = claim[p].slot /\ \A q \in Proc : q # p => held'[q] = held[q]
    BY <2>1 DEF IInv, TypeInv, TypeOK
  <2>4. release[p].at = "idle" /\ dir[claim[p].slot] = <<p, "claim">>
    BY <2>1 DEF IInv, InOrder, OwnFile, Occupies
  <2> QED
    BY <2>1, <2>2, <2>3, <2>4 DEF IInv, NoReclaim, InOrder, OwnFile, Occupies
<1>4. ASSUME NEW p \in Proc, ClaimWriteFails(p) PROVE NoReclaim' /\ InOrder' /\ OwnFile'
  <2>1. /\ claim[p].at = "write" /\ ClaimAt(p, "failed") /\ "failed" \in ClaimPoint
        /\ UNCHANGED <<dir, up, held, release>>
    BY <1>4 DEF ClaimWriteFails, fileVars, ClaimPoint
  <2> QED
    BY <2>1, ClaimAtTypes DEF IInv, NoReclaim, InOrder, OwnFile, Occupies
<1>5. ASSUME NEW p \in Proc, ReclaimCheck(p) PROVE NoReclaim' /\ InOrder' /\ OwnFile'
  <2>1. claim[p].at = "check" /\ claim[p].slot \in Slot /\ UNCHANGED <<dir, up, held, release>>
    BY <1>5 DEF ReclaimCheck, fileVars, IInv, TypeInv, InRange
  <2>2. NextSlot(p)
    BY <1>5, <2>1, NobodyIsStale DEF ReclaimCheck
  <2> QED
    BY <2>1, <2>2, NextSlotTypes DEF IInv, NoReclaim, InOrder, OwnFile, Occupies
<1>6. ASSUME NEW p \in Proc, ReclaimUnlink(p) PROVE FALSE
  BY <1>6 DEF ReclaimUnlink, IInv, NoReclaim
<1>7. ASSUME NEW p \in Proc, Spawn(p) \/ ChildExits(p) PROVE NoReclaim' /\ InOrder' /\ OwnFile'
  BY <1>7 DEF Spawn, ChildExits, fileVars, IInv, NoReclaim, InOrder, OwnFile, Occupies
<1>8. ASSUME NEW p \in Proc, Update(p) PROVE NoReclaim' /\ InOrder' /\ OwnFile'
  <2>1. UNCHANGED <<up, held, claim, release>>
    BY <1>8 DEF Update, BeginUpdate, UpdateRead, UpdateOpen, UpdateWrite, UpdateFails, fileVars
  <2>2. \A s \in Slot : dir[s] # NoFile => dir'[s] = dir[s]
    BY <1>8 DEF Update, BeginUpdate, UpdateRead, UpdateOpen, UpdateWrite, UpdateFails, fileVars,
                IInv, TypeInv, TypeOK
  <2>3. NoReclaim' /\ InOrder'
    BY <2>1 DEF IInv, NoReclaim, InOrder
  <2>4. OwnFile'
    BY <2>1, <2>2 DEF IInv, OwnFile, Occupies
  <2> QED
    BY <2>3, <2>4
<1>9. ASSUME NEW p \in Proc, BeginRelease(p) PROVE NoReclaim' /\ InOrder' /\ OwnFile'
  <2>1. /\ held[p] \in Slot
        /\ held' = [held EXCEPT ![p] = NoSlot]
        /\ release' = [release EXCEPT ![p] = [at |-> "read", slot |-> held[p]]]
        /\ UNCHANGED <<dir, up, claim>>
    BY <1>9 DEF BeginRelease, fileVars, IInv, TypeInv, TypeOK
  <2>2. /\ held'[p] = NoSlot /\ release'[p].at = "read" /\ release'[p].slot = held[p]
        /\ \A q \in Proc : q # p => held'[q] = held[q] /\ release'[q] = release[q]
    BY <2>1 DEF IInv, TypeInv, TypeOK
  <2>3. claim[p].at = "done"
    BY <2>1 DEF IInv, InOrder
  <2> QED
    BY <2>1, <2>2, <2>3 DEF IInv, NoReclaim, InOrder, OwnFile, Occupies
<1>10. ASSUME NEW p \in Proc, ReleaseRead(p) PROVE NoReclaim' /\ InOrder' /\ OwnFile'
  <2>1. /\ release[p].at = "read" /\ release'[p].at \in {"unlink", "done"}
        /\ release'[p].slot = release[p].slot
        /\ \A q \in Proc : q # p => release'[q] = release[q]
        /\ UNCHANGED <<dir, up, claim, held>>
    BY <1>10 DEF ReleaseRead, fileVars, IInv, TypeInv, TypeOK, ReleaseState
  <2>2. claim[p].at = "done" /\ held[p] = NoSlot
    BY <2>1 DEF IInv, InOrder
  <2> QED
    BY <2>1, <2>2 DEF IInv, NoReclaim, InOrder, OwnFile, Occupies
<1>11. ASSUME NEW p \in Proc, ReleaseUnlink(p) PROVE NoReclaim' /\ InOrder' /\ OwnFile'
  <2>1. /\ release[p].at = "unlink" /\ release'[p].at = "done"
        /\ \A q \in Proc : q # p => release'[q] = release[q]
        /\ dir' = [dir EXCEPT ![release[p].slot] = NoFile]
        /\ UNCHANGED <<up, claim, held>>
    BY <1>11 DEF ReleaseUnlink, IInv, TypeInv, TypeOK, ReleaseState
  <2>2. claim[p].at = "done" /\ held[p] = NoSlot
    BY <2>1 DEF IInv, InOrder
  <2>3. release[p].slot \in Slot /\ dir[release[p].slot] = <<p, "claim">>
    BY <2>1 DEF IInv, TypeInv, InRange, OwnFile, Occupies
  <2>4. NoReclaim' /\ InOrder'
    BY <2>1, <2>2 DEF IInv, NoReclaim, InOrder
  <2>5. ASSUME NEW q \in Proc, NEW s \in Slot, Occupies(q, s)' PROVE dir'[s] = <<q, "claim">>
    <3>1. q # p /\ Occupies(q, s)
      BY <2>1, <2>2, <2>5 DEF Occupies
    <3>2. dir[s] = <<q, "claim">>
      BY <3>1 DEF IInv, OwnFile
    <3>3. s # release[p].slot
      BY <2>3, <3>1, <3>2
    <3> QED
      BY <2>1, <3>2, <3>3 DEF IInv, TypeInv, TypeOK
  <2> QED
    BY <2>4, <2>5 DEF OwnFile
<1>12. ASSUME NEW m \in Manager, Crash(m) PROVE FALSE
  BY <1>12 DEF Crash
<1>13. CASE UNCHANGED vars
  BY <1>13 DEF vars, IInv, NoReclaim, InOrder, OwnFile, Occupies
<1> QED
  BY <1>1, <1>2, <1>3, <1>4, <1>5, <1>6, <1>7, <1>8, <1>9, <1>10, <1>11, <1>12, <1>13
     DEF Next, Claim, Release

LEMMA InitInv == Init => IInv
<1>1. Init => NoReclaim /\ InOrder /\ OwnFile
  BY SlotFacts DEF Init, NoReclaim, InOrder, OwnFile, Occupies
<1> QED
  BY <1>1, InitTypes DEF IInv

\* The invariant of the runs in which no server crashes.
THEOREM Invariance == ASSUME Crashing = {} PROVE Spec => []IInv
<1>1. IInv /\ [Next]_vars => IInv'
  BY TypesKept, ExclusionKept DEF IInv
<1> QED
  BY <1>1, InitInv, PTL DEF Spec

\* As long as no server crashes, no two processes hold the same slot file.
THEOREM Exclusion == ASSUME Crashing = {} PROVE Spec => []OneHolderPerSlot
<1>1. IInv => OneHolderPerSlot
  <2> SUFFICES ASSUME IInv, NEW p \in Holders, NEW q \in Holders, held[p] = held[q] PROVE p = q
    BY DEF OneHolderPerSlot
  <2>1. p \in Proc /\ q \in Proc /\ held[p] \in Slot
    BY DEF Holders, IInv, TypeInv, TypeOK
  <2>2. dir[held[p]] = <<p, "claim">> /\ dir[held[p]] = <<q, "claim">>
    BY <2>1 DEF IInv, OwnFile, Occupies
  <2> QED
    BY <2>2
<1> QED
  BY <1>1, Invariance, PTL

-----------------------------------------------------------------------------
(* Without crashes: the files implement the counter.                       *)

HoldersNow == {p \in Proc : held[p] # NoSlot}

\* The holders of slots and a claim that has created its file have slots of
\* their own, so there is room for the claim.
LEMMA RoomForTheClaim ==
  ASSUME IInv, NEW p \in Proc, claim[p].at = "write"
  PROVE  Cardinality(HoldersNow) < MaxLiveTotal
<1> DEFINE s == claim[p].slot
           T == Slot \ {s}
           f == [q \in HoldersNow |-> held[q]]
<1>1. s \in Slot /\ dir[s] = <<p, "claim">> /\ held[p] = NoSlot
  BY SlotFacts DEF IInv, TypeInv, InRange, OwnFile, Occupies, InOrder
<1>2. \A q \in HoldersNow : held[q] \in Slot /\ dir[held[q]] = <<q, "claim">>
  BY DEF HoldersNow, IInv, TypeInv, TypeOK, OwnFile, Occupies
<1>3. f \in [HoldersNow -> T]
  BY <1>1, <1>2 DEF HoldersNow
<1>4. f \in Injection(HoldersNow, T)
  <2>1. \A q, r \in HoldersNow : f[q] = f[r] => q = r
    BY <1>2
  <2> QED
    BY <1>3, <2>1 DEF Injection, IsInjective
<1>5. IsFiniteSet(Slot) /\ Cardinality(Slot) = MaxLiveTotal
  BY ConstantsAssumption, FS_Interval DEF Slot
<1>6. IsFiniteSet(T) /\ Cardinality(T) = Cardinality(Slot) - 1
  BY <1>1, <1>5, FS_RemoveElement
<1>7. IsFiniteSet(HoldersNow) /\ Cardinality(HoldersNow) <= Cardinality(T)
  BY <1>4, <1>6, FS_Injection
<1>8. Cardinality(HoldersNow) \in Nat
  BY <1>7, FS_CardinalityType
<1> QED
  BY <1>5, <1>6, <1>7, <1>8, ConstantsAssumption

LEMMA SameCardinality == \A S : Counter!Cardinality(S) = Cardinality(S)
  BY DEF Counter!Cardinality, Cardinality

\* As long as no server crashes, the slot files behave as a counter that is
\* tested and incremented in one step.
THEOREM ImplementsCounter == ASSUME Crashing = {} PROVE Spec => CounterSpec
<1>1. Init => Counter!Init
  BY DEF Init, Counter!Init
<1>2. ASSUME IInv, [Next]_vars PROVE [Counter!Next]_HoldersNow
  <2>1. ASSUME NEW p \in Proc, ClaimWrite(p) PROVE Counter!Admit(p)
    <3>1. claim[p].at = "write" /\ claim[p].slot \in Slot
          /\ held' = [held EXCEPT ![p] = claim[p].slot]
      BY <1>2, <2>1 DEF ClaimWrite, IInv, TypeInv, InRange
    <3>2. HoldersNow' = HoldersNow \cup {p}
      BY <1>2, <3>1, SlotFacts DEF HoldersNow, IInv, TypeInv, TypeOK
    <3>3. Cardinality(HoldersNow) < MaxLiveTotal
      BY <1>2, <3>1, RoomForTheClaim
    <3> QED
      BY <3>2, <3>3, SameCardinality DEF Counter!Admit, HoldersNow
  <2>2. ASSUME NEW p \in Proc, BeginRelease(p) PROVE Counter!GiveBack(p)
    BY <1>2, <2>2 DEF BeginRelease, Counter!GiveBack, IInv, TypeInv, TypeOK
  <2>3. CASE held' = held
    BY <2>3 DEF HoldersNow
  <2>4. \/ \E p \in Proc : ClaimWrite(p) \/ BeginRelease(p)
        \/ held' = held
    BY <1>2 DEF Next, Claim, Update, Release, BeginClaim, ClaimCreate, ClaimWriteFails, ReclaimCheck,
           ReclaimUnlink, Spawn, BeginUpdate, UpdateRead, UpdateOpen, UpdateWrite, UpdateFails,
           ChildExits, ReleaseRead, ReleaseUnlink, Crash, vars
  <2> QED
    BY <2>1, <2>2, <2>3, <2>4 DEF Counter!Next
<1> QED
  BY <1>1, <1>2, Invariance, PTL DEF Spec, CounterSpec, Counter!Spec, HoldersNow

-----------------------------------------------------------------------------
(* The gate: types.                                                        *)

CallAt == {"idle", "validating", "preflight", "looking", "rejecting", "claiming", "spooling",
           "unwinding", "waiting", "answered", "failed", "aborted"}
Verdicts == {"fit", "unfit", "threw"}
Answers == [of : Long, says : Verdicts]

GateTyped ==
  /\ call \in [Call -> CallAt]
  /\ process \in [Call -> {"none", "launching", "running", "ended"}]
  /\ posted \in Seq(Long) /\ answers \in Seq(Answers)
  /\ waiters \subseteq Long
  /\ verdict \in [Call -> {"none"} \cup Verdicts]

LEMMA TakeFirst ==
  ASSUME NEW S, NEW q \in Seq(S), q # <<>>
  PROVE  /\ Tail(q) \in Seq(S) /\ Head(q) \in S /\ Head(q) = q[1] /\ 1 \in 1 .. Len(q)
         /\ Len(Tail(q)) = Len(q) - 1
         /\ \A k \in 1 .. Len(Tail(q)) : Tail(q)[k] = q[k + 1] /\ k + 1 \in 2 .. Len(q)
OBVIOUS

LEMMA GateTypedStep == GateTyped /\ [Gate!GateNext]_(Gate!gateVars) => GateTyped'
<1> SUFFICES ASSUME GateTyped, [Gate!GateNext]_(Gate!gateVars) PROVE GateTyped'
  OBVIOUS
<1> USE GateAssumption DEF Gate!GateAssumption, GateTyped
<1>1. \A c \in Call, at \in CallAt : Gate!Goes(c, at) => call' \in [Call -> CallAt]
  BY DEF Gate!Goes
<1>2. \A c \in Call : Gate!Fails(c) => call' \in [Call -> CallAt]
  BY <1>1 DEF Gate!Fails, CallAt
<1>3. ASSUME NEW c \in Call, Gate!FoundOrLate(c) PROVE GateTyped'
  <2>1. call' \in [Call -> CallAt]
    BY <1>1, <1>2, <1>3 DEF Gate!FoundOrLate, CallAt
  <2>2. /\ process' = process
        /\ posted' \in Seq(Long) /\ answers' \in Seq(Answers) /\ waiters' \subseteq Long
        /\ verdict' \in [Call -> {"none"} \cup Verdicts]
    <3>1. CASE c \in Long /\ worker # "failed"
      <4>1. /\ posted' = posted \/ posted' = Append(posted, c)
            /\ UNCHANGED <<process, answers, verdict>> /\ waiters' = waiters \cup {c}
        BY <1>3, <3>1 DEF Gate!FoundOrLate, Gate!Effects
      <4>2. QED
        BY <3>1, <4>1
    <3>2. CASE ~(c \in Long /\ worker # "failed")
      <4>1. /\ UNCHANGED <<process, posted, answers, waiters>>
            /\ verdict' = verdict \/ \E says \in Verdicts : verdict' = [verdict EXCEPT ![c] = says]
        BY <1>3, <3>2 DEF Gate!FoundOrLate, Gate!Effects, Gate!WorkerVars, Verdicts
      <4>2. QED
        BY <4>1
    <3>3. QED
      BY <3>1, <3>2
  <2>3. QED
    BY <2>1, <2>2
<1>4. ASSUME NEW c \in Call,
             \/ Gate!Enter(c) \/ Gate!NoDirectory(c) \/ Gate!Stopped(c) \/ Gate!Archive(c) \/ Gate!SpoolsFail(c)
             \/ Gate!GiveBack(c) \/ Gate!Answer(c) \/ Gate!Abort(c) \/ Gate!Claim(c) \/ Gate!Check(c)
      PROVE  GateTyped'
  <2>1. call' \in [Call -> CallAt]
    <3>1. \E at \in CallAt : Gate!Goes(c, at)
      BY <1>4 DEF Gate!Enter, Gate!NoDirectory, Gate!Stopped, Gate!Archive, Gate!SpoolsFail, Gate!GiveBack,
                  Gate!Answer, Gate!Abort, Gate!Claim, Gate!Check, Gate!Fails, CallAt
    <3>2. QED
      BY <1>1, <3>1
  <2>2. UNCHANGED <<process, posted, answers, waiters, verdict>>
    BY <1>4 DEF Gate!Enter, Gate!NoDirectory, Gate!Stopped, Gate!Archive, Gate!SpoolsFail, Gate!GiveBack,
                Gate!Answer, Gate!Abort, Gate!Claim, Gate!Check, Gate!Effects, Gate!WorkerVars
  <2>3. QED
    BY <2>1, <2>2
<1>5. ASSUME NEW c \in Call, Gate!PreflightTimeout(c) PROVE GateTyped'
  BY <1>2, <1>5 DEF Gate!PreflightTimeout, Gate!Effects
<1>6. ASSUME NEW c \in Call, Gate!Launch(c) \/ Gate!Starts(c) \/ Gate!Ends(c) \/ Gate!SlotReleased(c)
      PROVE  GateTyped'
  <2>1. call' \in [Call -> CallAt]
    BY <1>1, <1>6 DEF Gate!Launch, Gate!Starts, Gate!Ends, Gate!SlotReleased, CallAt
  <2>2. process' \in [Call -> {"none", "launching", "running", "ended"}]
    BY <1>6 DEF Gate!Launch, Gate!Starts, Gate!Ends, Gate!SlotReleased
  <2>3. UNCHANGED <<posted, answers, waiters, verdict>>
    BY <1>6 DEF Gate!Launch, Gate!Starts, Gate!Ends, Gate!SlotReleased, Gate!WorkerVars
  <2>4. QED
    BY <2>1, <2>2, <2>3
<1>7. CASE Gate!WorkerChecks
  <2>1. Tail(posted) \in Seq(Long) /\ Head(posted) \in Long
    BY <1>7, TakeFirst DEF Gate!WorkerChecks
  <2>2. PICK says \in Verdicts :
          /\ answers' = Append(answers, [of |-> Head(posted), says |-> says])
          /\ verdict' = [verdict EXCEPT ![Head(posted)] = says]
    BY <1>7 DEF Gate!WorkerChecks, Verdicts
  <2>3. answers' \in Seq(Answers)
    BY <2>1, <2>2 DEF Answers
  <2>4. QED
    BY <1>7, <2>1, <2>2, <2>3 DEF Gate!WorkerChecks, Gate!Effects
<1>8. CASE Gate!HearAnswer
  <2>1. Tail(answers) \in Seq(Answers) /\ Head(answers) \in Answers
    BY <1>8, TakeFirst DEF Gate!HearAnswer
  <2>2. Head(answers).of \in Call
    BY <2>1 DEF Answers
  <2>3. call' \in [Call -> CallAt] /\ waiters' \subseteq Long
    BY <1>1, <1>8, <2>2 DEF Gate!HearAnswer, CallAt
  <2>4. QED
    BY <1>8, <2>1, <2>3 DEF Gate!HearAnswer, Gate!Effects
<1>9. CASE Gate!WorkerDies
  BY <1>9 DEF Gate!WorkerDies, Gate!Effects
<1>10. CASE Gate!HearDeath
  BY <1>10 DEF Gate!HearDeath, Gate!RejectsAll, Gate!Effects, CallAt
<1>11. CASE UNCHANGED Gate!gateVars
  BY <1>11 DEF Gate!gateVars
<1>12. QED
  BY <1>3, <1>4, <1>5, <1>6, <1>7, <1>8, <1>9, <1>10, <1>11 DEF Gate!GateNext, Gate!CallNext

-----------------------------------------------------------------------------
(* The gate: nothing starts unchecked.  A call has one question or answer   *)
(* under way, and while it has, it waits or has failed.                     *)

InPosted(c) == \E k \in 1 .. Len(posted) : posted[k] = c
InAnswers(c) == \E k \in 1 .. Len(answers) : answers[k].of = c

Asked ==
  /\ \A j, k \in 1 .. Len(posted) : posted[j] = posted[k] => j = k
  /\ \A j, k \in 1 .. Len(answers) : answers[j].of = answers[k].of => j = k
  /\ \A c \in Call : InPosted(c) => ~InAnswers(c)
  /\ \A c \in Call : InPosted(c) \/ InAnswers(c) => call[c] \in {"preflight", "failed"}
  /\ \A k \in 1 .. Len(answers) : answers[k].says = verdict[answers[k].of]
  /\ \A c \in waiters : call[c] = "preflight"

Passed == {"looking", "rejecting", "claiming", "spooling", "unwinding", "waiting", "answered", "aborted"}
Launched == {"waiting", "answered", "aborted"}

CheckedOf(c) ==
  /\ call[c] \in Passed => verdict[c] = "fit"
  /\ process[c] # "none" => call[c] \in Launched
Checked == \A c \in Call : CheckedOf(c)

\* The steps of a call that concern no message.
Alone(c) ==
  \/ Gate!Enter(c) \/ Gate!NoDirectory(c) \/ Gate!Stopped(c) \/ Gate!Check(c) \/ Gate!Archive(c)
  \/ Gate!Claim(c) \/ Gate!SpoolsFail(c) \/ Gate!GiveBack(c) \/ Gate!Launch(c) \/ Gate!Answer(c)
  \/ Gate!Abort(c) \/ Gate!Starts(c) \/ Gate!Ends(c) \/ Gate!SlotReleased(c)

LEMMA AloneGoes ==
  ASSUME GateTyped, NEW c \in Call, Alone(c)
  PROVE  /\ UNCHANGED <<posted, answers, waiters, verdict>>
         /\ \A d \in Call \ {c} : call'[d] = call[d] /\ process'[d] = process[d]
         /\ \/ call'[c] = call[c] /\ (process'[c] # "none" => process[c] # "none")
            \/ call[c] \in {"idle", "validating"} /\ call'[c] \in {"validating", "failed"} /\ process' = process
            \/ call[c] \in Passed \ Launched /\ call'[c] \in Passed \cup {"failed"} /\ process' = process
            \/ call[c] \in Passed /\ call'[c] \in Launched
<1> USE DEF GateTyped
<1>1. CASE Gate!Starts(c) \/ Gate!Ends(c) \/ Gate!SlotReleased(c)
  BY <1>1 DEF Gate!Starts, Gate!Ends, Gate!SlotReleased, Gate!WorkerVars, Gate!Live
<1>2. CASE Gate!Launch(c)
  BY <1>2 DEF Gate!Launch, Gate!Goes, Gate!WorkerVars, Passed, Launched
<1>3. CASE Gate!Enter(c) \/ Gate!NoDirectory(c)
  BY <1>3 DEF Gate!Enter, Gate!NoDirectory, Gate!Fails, Gate!Goes, Gate!Effects, Gate!WorkerVars
<1>4. CASE Gate!Stopped(c) \/ Gate!Archive(c) \/ Gate!SpoolsFail(c) \/ Gate!GiveBack(c)
  BY <1>4 DEF Gate!Stopped, Gate!Archive, Gate!SpoolsFail, Gate!GiveBack, Gate!Fails, Gate!Goes,
              Gate!Effects, Gate!WorkerVars, Passed, Launched
<1>5. CASE Gate!Claim(c)
  BY <1>5 DEF Gate!Claim, Gate!Fails, Gate!Goes, Gate!WorkerVars, Passed, Launched
<1>6. CASE Gate!Check(c)
  <2>1. PICK at : at \in Passed \cup {"failed"} /\ Gate!Goes(c, at)
    BY <1>6 DEF Gate!Check, Gate!Fails, Passed
  <2>2. call[c] = "looking" /\ UNCHANGED <<process, posted, answers, waiters, verdict>>
    BY <1>6 DEF Gate!Check, Gate!WorkerVars
  <2>3. QED
    BY <2>1, <2>2 DEF Gate!Goes, Passed, Launched
<1>7. CASE Gate!Answer(c) \/ Gate!Abort(c)
  BY <1>7 DEF Gate!Answer, Gate!Abort, Gate!Goes, Gate!Effects, Gate!WorkerVars, Passed, Launched
<1>8. QED
  BY <1>1, <1>2, <1>3, <1>4, <1>5, <1>6, <1>7 DEF Alone

LEMMA AskedStep == GateTyped /\ Asked /\ [Gate!GateNext]_(Gate!gateVars) => Asked'
<1> SUFFICES ASSUME GateTyped, Asked, [Gate!GateNext]_(Gate!gateVars) PROVE Asked'
  OBVIOUS
<1> USE GateAssumption DEF Gate!GateAssumption
<1>1. \A c \in waiters : c \in Call /\ call[c] = "preflight"
  BY DEF GateTyped, Asked
<1>a. \A k \in 1 .. Len(answers) : answers[k].of \in Call
  <2>1. \A k \in 1 .. Len(answers) : answers[k] \in Answers
    BY DEF GateTyped
  <2>2. QED
    BY <2>1 DEF Answers
<1>2. ASSUME UNCHANGED <<posted, answers, verdict>>,
             \A c \in Call : call[c] \in {"preflight", "failed"} => call'[c] \in {"preflight", "failed"},
             \A c \in waiters' : c \in Call /\ call'[c] = "preflight"
      PROVE  Asked'
  BY <1>2 DEF Asked, InPosted, InAnswers
<1>3. ASSUME NEW c \in Call, Alone(c) PROVE Asked'
  BY <1>1, <1>2, <1>3, AloneGoes DEF Passed
<1>4. ASSUME NEW c \in Call, Gate!FoundOrLate(c) PROVE Asked'
  <2>1. call[c] = "validating" /\ ~InPosted(c) /\ ~InAnswers(c) /\ c \notin waiters
    BY <1>1, <1>4 DEF Gate!FoundOrLate, Asked
  <2>2. CASE c \in Long /\ worker # "failed"
    <3>1. /\ call' = [call EXCEPT ![c] = "preflight"] /\ waiters' = waiters \cup {c}
          /\ posted' = posted \/ posted' = Append(posted, c)
          /\ UNCHANGED <<answers, verdict>>
      BY <1>4, <2>2 DEF Gate!FoundOrLate, Gate!Goes
    <3>2. /\ posted \in Seq(Long)
          /\ \A d \in Call \ {c} : call'[d] = call[d]
          /\ call'[c] = "preflight"
      BY <3>1 DEF GateTyped
    <3>3. CASE posted' = posted
      BY <1>1, <1>2, <2>1, <3>1, <3>2, <3>3
    <3>4. CASE posted' = Append(posted, c)
      <4>1. /\ Len(posted') = Len(posted) + 1 /\ posted'[Len(posted) + 1] = c /\ Len(posted) \in Nat
            /\ \A k \in 1 .. Len(posted) : posted'[k] = posted[k]
        BY <3>2, <3>4
      <4>2. \A k \in 1 .. Len(posted) : posted[k] # c
        BY <2>1 DEF InPosted
      <4>3. \A j, k \in 1 .. Len(posted') : posted'[j] = posted'[k] => j = k
        <5>1. \A k \in 1 .. Len(posted') : k = Len(posted) + 1 \/ (k \in 1 .. Len(posted) /\ posted'[k] = posted[k])
          BY <4>1
        <5>2. QED
          BY <4>1, <4>2, <5>1 DEF Asked
      <4>4. \A d \in Call : InPosted(d)' <=> InPosted(d) \/ d = c
        BY <4>1 DEF InPosted
      <4>5. \A d \in Call : InAnswers(d)' <=> InAnswers(d)
        BY <3>1 DEF InAnswers
      <4>6. \A d \in waiters' : call'[d] = "preflight"
        BY <1>1, <3>1, <3>2
      <4>7. QED
        BY <2>1, <3>1, <3>2, <4>3, <4>4, <4>5, <4>6 DEF Asked
    <3>5. QED
      BY <3>1, <3>3, <3>4
  <2>3. CASE ~(c \in Long /\ worker # "failed")
    <3>1. /\ UNCHANGED <<posted, answers, waiters>>
          /\ \A d \in Call \ {c} : call'[d] = call[d] /\ verdict'[d] = verdict[d]
      BY <1>4, <2>3 DEF Gate!FoundOrLate, Gate!Fails, Gate!Goes, Gate!WorkerVars, GateTyped
    <3>2. \A k \in 1 .. Len(answers) : answers[k].of \in Call \ {c}
      BY <1>a, <2>1 DEF InAnswers
    <3>3. QED
      BY <2>1, <3>1, <3>2 DEF Asked, InPosted, InAnswers, GateTyped
  <2>4. QED
    BY <2>2, <2>3
<1>5. ASSUME NEW c \in Call, Gate!PreflightTimeout(c) PROVE Asked'
  BY <1>1, <1>2, <1>5 DEF Gate!PreflightTimeout, Gate!IsLate, Gate!Fails, Gate!Goes, GateTyped
<1>6. CASE Gate!WorkerChecks
  <2>1. PICK c, says :
          /\ c = Head(posted)
          /\ answers' = Append(answers, [of |-> c, says |-> says])
          /\ verdict' = [verdict EXCEPT ![c] = says]
          /\ says \in Verdicts
    BY <1>6 DEF Gate!WorkerChecks, Verdicts
  <2>2. /\ c \in Long /\ c = posted[1] /\ 1 \in 1 .. Len(posted) /\ posted' = Tail(posted)
        /\ Len(posted') = Len(posted) - 1 /\ Len(posted) \in Nat
        /\ \A k \in 1 .. Len(posted') : posted'[k] = posted[k + 1] /\ k + 1 \in 2 .. Len(posted)
        /\ UNCHANGED <<call, waiters>>
    BY <1>6, <2>1, TakeFirst DEF Gate!WorkerChecks, GateTyped
  <2>3. InPosted(c) /\ ~InAnswers(c) /\ c \in Call
    BY <2>2 DEF InPosted, Asked
  <2>4. ~InPosted(c)' /\ \A d \in Call : InPosted(d)' => InPosted(d)
    BY <2>2 DEF InPosted, Asked
  <2>5. /\ Len(answers') = Len(answers) + 1 /\ Len(answers) \in Nat
        /\ answers'[Len(answers) + 1] = [of |-> c, says |-> says]
        /\ \A k \in 1 .. Len(answers) : answers'[k] = answers[k] /\ answers[k].of \in Call
    <3>1. answers \in Seq(Answers) /\ [of |-> c, says |-> says] \in Answers
      BY <2>1, <2>2 DEF GateTyped, Answers
    <3>2. QED
      BY <1>a, <2>1, <3>1
  <2>6. \A k \in 1 .. Len(answers) : answers[k].of # c
    BY <2>3 DEF InAnswers
  <2>7. \A k \in 1 .. Len(answers') : k = Len(answers) + 1 \/ (k \in 1 .. Len(answers) /\ answers'[k] = answers[k])
    BY <2>5
  <2>8. \A j, k \in 1 .. Len(answers') : answers'[j].of = answers'[k].of => j = k
    BY <2>5, <2>6, <2>7 DEF Asked
  <2>9. \A d \in Call : InAnswers(d)' <=> InAnswers(d) \/ d = c
    BY <2>5, <2>7 DEF InAnswers
  <2>10. \A k \in 1 .. Len(answers') : answers'[k].says = verdict'[answers'[k].of]
    <3>1. verdict'[c] = says /\ \A d \in Call \ {c} : verdict'[d] = verdict[d]
      BY <2>1, <2>3 DEF GateTyped
    <3>2. QED
      BY <2>5, <2>6, <2>7, <3>1 DEF Asked
  <2>11. \A j, k \in 1 .. Len(posted') : posted'[j] = posted'[k] => j = k
    BY <2>2 DEF Asked
  <2>12. QED
    BY <2>2, <2>3, <2>4, <2>8, <2>9, <2>10, <2>11 DEF Asked
<1>7. CASE Gate!HearAnswer
  <2>1. PICK a : a = Head(answers)
    OBVIOUS
  <2>2. /\ a \in Answers /\ a = answers[1] /\ 1 \in 1 .. Len(answers) /\ answers' = Tail(answers)
        /\ Len(answers') = Len(answers) - 1 /\ Len(answers) \in Nat
        /\ \A k \in 1 .. Len(answers') : answers'[k] = answers[k + 1] /\ k + 1 \in 2 .. Len(answers)
        /\ UNCHANGED <<posted, verdict>>
    BY <1>7, <2>1, TakeFirst DEF Gate!HearAnswer, GateTyped
  <2>3. a.of \in Call /\ InAnswers(a.of) /\ ~InPosted(a.of)
    BY <2>2 DEF InAnswers, Asked, Answers
  <2>4. ~InAnswers(a.of)' /\ \A d \in Call : InAnswers(d)' => InAnswers(d)
    BY <2>2 DEF InAnswers, Asked
  <2>5. /\ \A d \in Call \ {a.of} : call'[d] = call[d]
        /\ \A d \in waiters' : d \in waiters /\ call'[d] = call[d]
    BY <1>1, <1>7, <2>1 DEF Gate!HearAnswer, Gate!Goes, GateTyped
  <2>6. \A d \in Call : InPosted(d)' <=> InPosted(d)
    BY <2>2 DEF InPosted
  <2>7. \A j, k \in 1 .. Len(answers') : answers'[j].of = answers'[k].of => j = k
    BY <2>2 DEF Asked
  <2>8. \A k \in 1 .. Len(answers') : answers'[k].says = verdict'[answers'[k].of]
    BY <2>2 DEF Asked
  <2>9. QED
    BY <2>2, <2>3, <2>4, <2>5, <2>6, <2>7, <2>8 DEF Asked
<1>8. CASE Gate!WorkerDies
  BY <1>8 DEF Gate!WorkerDies, Gate!Effects, Asked, InPosted, InAnswers
<1>9. CASE Gate!HearDeath
  BY <1>2, <1>9 DEF Gate!HearDeath, Gate!RejectsAll, Gate!Effects, GateTyped
<1>10. CASE UNCHANGED Gate!gateVars
  BY <1>1, <1>2, <1>10 DEF Gate!gateVars
<1>11. QED
  BY <1>3, <1>4, <1>5, <1>6, <1>7, <1>8, <1>9, <1>10 DEF Gate!GateNext, Gate!CallNext, Alone

LEMMA CheckedStep == GateTyped /\ Asked /\ Checked /\ [Gate!GateNext]_(Gate!gateVars) => Checked'
<1> SUFFICES ASSUME GateTyped, Asked, Checked, [Gate!GateNext]_(Gate!gateVars), NEW d \in Call PROVE CheckedOf(d)'
  BY DEF Checked
<1> USE GateAssumption DEF Gate!GateAssumption
<1>1. CheckedOf(d) /\ (d \in waiters => call[d] = "preflight")
  BY DEF Checked, Asked
<1>2. ASSUME process' = process, verdict'[d] = verdict[d], call'[d] \in {call[d], "failed"},
             process[d] # "none" => call'[d] = call[d]
      PROVE  CheckedOf(d)'
  BY <1>1, <1>2 DEF CheckedOf, Passed, Launched
<1>3. ASSUME NEW c \in Call, Alone(c) PROVE CheckedOf(d)'
  <2>1. CASE d # c
    BY <1>1, <1>3, <2>1, AloneGoes DEF CheckedOf
  <2>2. CASE d = c
    BY <1>1, <1>3, <2>2, AloneGoes DEF CheckedOf, Passed, Launched
  <2>3. QED
    BY <2>1, <2>2
<1>4. ASSUME NEW c \in Call, Gate!FoundOrLate(c) PROVE CheckedOf(d)'
  <2>1. CASE d # c
    <3>1. call'[d] = call[d] /\ verdict'[d] = verdict[d] /\ process' = process
      BY <1>4, <2>1 DEF Gate!FoundOrLate, Gate!Fails, Gate!Goes, Gate!WorkerVars, Gate!Effects, GateTyped
    <3>2. QED
      BY <1>2, <3>1
  <2>2. CASE d = c
    <3>1. /\ call[c] = "validating" /\ process' = process
          /\ \/ call'[c] \in {"failed", "preflight"}
             \/ call'[c] = "looking" /\ verdict'[c] = "fit"
      BY <1>4 DEF Gate!FoundOrLate, Gate!Fails, Gate!Goes, Gate!Effects, GateTyped
    <3>2. QED
      BY <1>1, <2>2, <3>1 DEF CheckedOf, Passed, Launched
  <2>3. QED
    BY <2>1, <2>2
<1>5. ASSUME NEW c \in Call, Gate!PreflightTimeout(c) PROVE CheckedOf(d)'
  <2>1. /\ process' = process /\ verdict' = verdict /\ call'[d] \in {call[d], "failed"}
        /\ call'[d] # call[d] => call[d] = "preflight"
    BY <1>1, <1>5 DEF Gate!PreflightTimeout, Gate!IsLate, Gate!Fails, Gate!Goes, Gate!Effects, GateTyped
  <2>2. QED
    BY <1>1, <1>2, <2>1 DEF CheckedOf, Launched
<1>6. CASE Gate!WorkerChecks
  <2>1. Head(posted) \in Call /\ InPosted(Head(posted))
    BY <1>6, TakeFirst DEF Gate!WorkerChecks, GateTyped, InPosted
  <2>2. UNCHANGED <<call, process>> /\ (d # Head(posted) => verdict'[d] = verdict[d])
    BY <1>6, <2>1 DEF Gate!WorkerChecks, Gate!Effects, GateTyped
  <2>3. CASE d = Head(posted)
    <3>1. call[d] \in {"preflight", "failed"}
      BY <2>1, <2>3 DEF Asked
    <3>2. QED
      BY <1>1, <2>2, <3>1 DEF CheckedOf, Passed
  <2>4. CASE d # Head(posted)
    BY <1>2, <2>2, <2>4
  <2>5. QED
    BY <2>3, <2>4
<1>7. CASE Gate!HearAnswer
  <2>1. /\ Head(answers) \in Answers /\ Head(answers) = answers[1] /\ 1 \in 1 .. Len(answers)
    BY <1>7, TakeFirst DEF Gate!HearAnswer, GateTyped
  <2>2. Head(answers).says = verdict[Head(answers).of]
    BY <2>1 DEF Asked
  <2>3. UNCHANGED <<process, verdict>>
    BY <1>7 DEF Gate!HearAnswer, Gate!Effects
  <2>4. \/ call'[d] = call[d]
        \/ d \in waiters /\ call'[d] = "failed"
        \/ d \in waiters /\ d = Head(answers).of /\ Head(answers).says = "fit"
    BY <1>7 DEF Gate!HearAnswer, Gate!Goes, GateTyped
  <2>5. QED
    BY <1>1, <2>2, <2>3, <2>4 DEF CheckedOf, Passed, Launched
<1>8. CASE Gate!WorkerDies \/ UNCHANGED Gate!gateVars
  BY <1>2, <1>8 DEF Gate!WorkerDies, Gate!Effects, Gate!gateVars
<1>9. CASE Gate!HearDeath
  <2>1. /\ process' = process /\ verdict' = verdict /\ call'[d] \in {call[d], "failed"}
        /\ call'[d] # call[d] => call[d] = "preflight"
    BY <1>1, <1>9 DEF Gate!HearDeath, Gate!RejectsAll, Gate!Effects, GateTyped
  <2>2. QED
    BY <1>1, <1>2, <2>1 DEF CheckedOf, Launched
<1>10. QED
  BY <1>3, <1>4, <1>5, <1>6, <1>7, <1>8, <1>9 DEF Gate!GateNext, Gate!CallNext, Alone

-----------------------------------------------------------------------------
(* The gate: what is pending, between its checks and its end.  Of any       *)
(* pending calls of a caller no more than the cap did not overlap.          *)

Pending(c) == c \in Gate!Gap \/ Gate!Live(c)
Mutual(c, d) == CallerOf[c] = CallerOf[d] /\ IdentityOf[c] = IdentityOf[d]
PendingOf(c) == {q \in Call : Pending(q) /\ CallerOf[q] = CallerOf[c]}
Separate(S) == \A p, q \in S : p # q => {p, q} \notin overlapped

Overlaps ==
  /\ \A c, d \in Gate!Gap : c # d => {c, d} \in overlapped
  /\ \A c, d \in Call : Pending(c) /\ Pending(d) /\ c # d /\ Mutual(c, d) => {c, d} \in overlapped
  /\ \A c \in Call : \A S \in SUBSET PendingOf(c) : Separate(S) => Cardinality(S) <= MaxLivePerCaller

\* Every step but a check that lets its call pass only ends what is pending.
LEMMA PendingShrinks ==
  ASSUME GateTyped, Checked, [Gate!GateNext]_(Gate!gateVars)
  PROVE  \/ /\ overlapped' = overlapped
            /\ \A c \in Call : Pending(c)' => Pending(c)
            /\ Gate!Gap' \subseteq Gate!Gap
         \/ \E c \in Call :
              /\ call[c] = "looking" /\ Gate!Goes(c, "claiming") /\ process' = process
              /\ Gate!Twins(c) = {} /\ Gate!Cardinality(Gate!LiveOfCaller(c)) < MaxLivePerCaller
              /\ overlapped' = overlapped \cup {{c, q} : q \in Gate!Gap}
<1> USE GateAssumption DEF Gate!GateAssumption, GateTyped
<1>1. ASSUME UNCHANGED <<overlapped, process>>,
             \A c \in Call : call'[c] \in {"claiming", "spooling"} => call[c] \in {"claiming", "spooling"}
      PROVE  /\ overlapped' = overlapped
             /\ \A c \in Call : Pending(c)' => Pending(c)
             /\ Gate!Gap' \subseteq Gate!Gap
  BY <1>1 DEF Pending, Gate!Gap, Gate!Live
<1>2. ASSUME NEW c \in Call, Gate!Starts(c) \/ Gate!Ends(c) \/ Gate!SlotReleased(c)
      PROVE  /\ overlapped' = overlapped
             /\ \A d \in Call : Pending(d)' => Pending(d)
             /\ Gate!Gap' \subseteq Gate!Gap
  BY <1>2 DEF Gate!Starts, Gate!Ends, Gate!SlotReleased, Pending, Gate!Gap, Gate!Live
<1>3. ASSUME NEW c \in Call, Gate!Launch(c)
      PROVE  /\ overlapped' = overlapped
             /\ \A d \in Call : Pending(d)' => Pending(d)
             /\ Gate!Gap' \subseteq Gate!Gap
  <2>1. /\ call[c] = "spooling" /\ call'[c] \in {"answered", "waiting"} /\ overlapped' = overlapped
        /\ \A d \in Call \ {c} : call'[d] = call[d] /\ process'[d] = process[d]
    BY <1>3 DEF Gate!Launch, Gate!Goes
  <2>2. QED
    BY <2>1 DEF Pending, Gate!Gap, Gate!Live
<1>4. ASSUME NEW c \in Call,
             \/ Gate!Enter(c) \/ Gate!FoundOrLate(c) \/ Gate!NoDirectory(c) \/ Gate!PreflightTimeout(c)
             \/ Gate!Stopped(c) \/ Gate!Archive(c) \/ Gate!Claim(c) \/ Gate!SpoolsFail(c) \/ Gate!GiveBack(c)
             \/ Gate!Answer(c) \/ Gate!Abort(c)
      PROVE  /\ UNCHANGED <<overlapped, process>>
             /\ \A d \in Call : call'[d] \in {"claiming", "spooling"} => call[d] \in {"claiming", "spooling"}
  <2>1. UNCHANGED <<overlapped, process>>
    BY <1>4 DEF Gate!Enter, Gate!FoundOrLate, Gate!NoDirectory, Gate!PreflightTimeout, Gate!Stopped,
                Gate!Archive, Gate!Claim, Gate!SpoolsFail, Gate!GiveBack, Gate!Answer, Gate!Abort, Gate!Effects
  <2>2. CASE Gate!Claim(c)
    BY <2>2 DEF Gate!Claim, Gate!Fails, Gate!Goes
  <2>3. CASE ~Gate!Claim(c)
    <3>1. \E at \in CallAt \ {"claiming", "spooling"} : Gate!Goes(c, at)
      <4>1. CASE Gate!FoundOrLate(c)
        <5>1. \/ Gate!Goes(c, "failed") \/ Gate!Goes(c, "preflight") \/ Gate!Goes(c, "looking")
          BY <4>1 DEF Gate!FoundOrLate, Gate!Fails
        <5>2. QED
          BY <5>1 DEF CallAt
      <4>2. CASE ~Gate!FoundOrLate(c)
        <5>1. \/ Gate!Goes(c, "failed") \/ Gate!Goes(c, "validating") \/ Gate!Goes(c, "unwinding")
              \/ Gate!Goes(c, "answered") \/ Gate!Goes(c, "aborted")
          BY <1>4, <2>3, <4>2 DEF Gate!Enter, Gate!NoDirectory, Gate!PreflightTimeout, Gate!Stopped,
                Gate!Archive, Gate!SpoolsFail, Gate!GiveBack, Gate!Answer, Gate!Abort, Gate!Fails
        <5>2. QED
          BY <5>1 DEF CallAt
      <4>3. QED
        BY <4>1, <4>2
    <3>2. PICK at \in CallAt \ {"claiming", "spooling"} : call' = [call EXCEPT ![c] = at]
      BY <3>1 DEF Gate!Goes
    <3>3. ASSUME NEW d \in Call, call'[d] \in {"claiming", "spooling"} PROVE call[d] \in {"claiming", "spooling"}
      <4>1. d # c
        BY <3>2, <3>3
      <4>2. call'[d] = call[d]
        BY <3>2, <4>1
      <4>3. QED
        BY <3>3, <4>2
    <3>4. QED
      BY <2>1, <3>3
  <2>4. QED
    BY <2>1, <2>2, <2>3
<1>5. ASSUME NEW c \in Call, Gate!Check(c)
      PROVE  \/ /\ UNCHANGED <<overlapped, process>>
                /\ \A d \in Call : call'[d] \in {"claiming", "spooling"} => call[d] \in {"claiming", "spooling"}
             \/ /\ call[c] = "looking" /\ Gate!Goes(c, "claiming") /\ process' = process
                /\ Gate!Twins(c) = {} /\ Gate!Cardinality(Gate!LiveOfCaller(c)) < MaxLivePerCaller
                /\ overlapped' = overlapped \cup {{c, q} : q \in Gate!Gap}
  <2>1. \/ /\ UNCHANGED <<overlapped, process>>
           /\ \E at \in {"answered", "waiting", "rejecting", "failed"} : Gate!Goes(c, at)
        \/ /\ call[c] = "looking" /\ Gate!Goes(c, "claiming") /\ process' = process
           /\ Gate!Twins(c) = {} /\ Gate!Cardinality(Gate!LiveOfCaller(c)) < MaxLivePerCaller
           /\ overlapped' = overlapped \cup {{c, q} : q \in Gate!Gap}
    BY <1>5 DEF Gate!Check, Gate!Fails
  <2>2. QED
    BY <2>1 DEF Gate!Goes
<1>6. CASE Gate!WorkerChecks \/ Gate!HearAnswer \/ Gate!WorkerDies \/ Gate!HearDeath \/ UNCHANGED Gate!gateVars
  <2>1. UNCHANGED <<overlapped, process>>
    BY <1>6 DEF Gate!WorkerChecks, Gate!HearAnswer, Gate!WorkerDies, Gate!HearDeath, Gate!gateVars, Gate!Effects
  <2>2. \A c \in Call : call'[c] \in {call[c], "looking", "failed"}
    BY <1>6 DEF Gate!WorkerChecks, Gate!HearAnswer, Gate!WorkerDies, Gate!HearDeath, Gate!RejectsAll,
                Gate!gateVars, Gate!Goes
  <2>3. QED
    BY <1>1, <2>1, <2>2
<1>7. QED
  BY <1>1, <1>2, <1>3, <1>4, <1>5, <1>6 DEF Gate!GateNext, Gate!CallNext

LEMMA GateCardinality == \A S : Gate!Cardinality(S) = Cardinality(S)
  BY DEF Gate!Cardinality, Cardinality

LEMMA GateFinite == \A S : Gate!IsFiniteSet(S) <=> IsFiniteSet(S)
  BY DEF Gate!IsFiniteSet, IsFiniteSet

LEMMA OverlapsStep ==
  GateTyped /\ Checked /\ Overlaps /\ [Gate!GateNext]_(Gate!gateVars) => Overlaps'
<1> SUFFICES ASSUME GateTyped, Checked, Overlaps, [Gate!GateNext]_(Gate!gateVars) PROVE Overlaps'
  OBVIOUS
<1>1. CASE /\ overlapped' = overlapped
           /\ \A c \in Call : Pending(c)' => Pending(c)
           /\ Gate!Gap' \subseteq Gate!Gap
  <2>1. \A c \in Call : PendingOf(c)' \subseteq PendingOf(c)
    BY <1>1 DEF PendingOf
  <2>2. \A S : Separate(S)' => Separate(S)
    BY <1>1 DEF Separate
  <2>3. QED
    BY <1>1, <2>1, <2>2 DEF Overlaps
<1>2. ASSUME NEW c \in Call,
             call[c] = "looking", Gate!Goes(c, "claiming"), process' = process,
             Gate!Twins(c) = {}, Gate!Cardinality(Gate!LiveOfCaller(c)) < MaxLivePerCaller,
             overlapped' = overlapped \cup {{c, q} : q \in Gate!Gap}
      PROVE  Overlaps'
  <2>1. Gate!Gap' = Gate!Gap \cup {c} /\ c \notin Gate!Gap /\ \A d \in Call : Gate!Live(d)' <=> Gate!Live(d)
    BY <1>2 DEF GateTyped, Gate!Goes, Gate!Gap, Gate!Live
  <2>2. ~Gate!Live(c)
    BY <1>2 DEF Checked, CheckedOf, Launched, Gate!Live
  <2>3. \A d \in Gate!Gap : {c, d} \in overlapped' /\ {d, c} \in overlapped'
    <3>1. \A d : {c, d} = {d, c}
      OBVIOUS
    <3>2. QED
      BY <1>2, <3>1
  <2>4. \A d, e \in Gate!Gap' : d # e => {d, e} \in overlapped'
    BY <1>2, <2>1, <2>3 DEF Overlaps
  <2>5. \A d \in Call : Pending(d)' <=> Pending(d) \/ d = c
    BY <2>1 DEF Pending
  <2>6. \A d \in Call : Gate!Live(d) => ~Mutual(c, d) /\ ~Mutual(d, c)
    BY <1>2 DEF Gate!Twins, Gate!LiveOfCaller, Mutual
  <2>7. \A d, e \in Call : Pending(d)' /\ Pending(e)' /\ d # e /\ Mutual(d, e) => {d, e} \in overlapped'
    BY <1>2, <2>3, <2>5, <2>6 DEF Overlaps, Pending
  <2>8. ASSUME NEW d \in Call, NEW S \in SUBSET PendingOf(d)', Separate(S)'
        PROVE  Cardinality(S) <= MaxLivePerCaller
    <3>1. Separate(S)
      BY <1>2, <2>8 DEF Separate
    <3>2. CASE c \notin S
      <4>1. S \in SUBSET PendingOf(d)
        BY <2>5, <2>8, <3>2 DEF PendingOf
      <4>2. QED
        BY <3>1, <4>1 DEF Overlaps
    <3>3. CASE c \in S
      <4>1. CallerOf[d] = CallerOf[c]
        BY <2>8, <3>3 DEF PendingOf
      \* The others in S are live: with those in the gap, c overlaps.
      <4>2. S \ {c} \subseteq Gate!LiveOfCaller(c)
        <5>1. SUFFICES ASSUME NEW q \in S \ {c} PROVE q \in Gate!LiveOfCaller(c)
          OBVIOUS
        <5>2. q \in Call /\ Pending(q) /\ CallerOf[q] = CallerOf[c]
          BY <2>5, <2>8, <4>1, <5>1 DEF PendingOf
        <5>3. q \notin Gate!Gap
          BY <2>3, <2>8, <3>3, <5>1 DEF Separate
        <5>4. QED
          BY <5>2, <5>3 DEF Pending, Gate!LiveOfCaller
      <4>3. IsFiniteSet(Call) /\ MaxLivePerCaller \in Nat
        BY GateAssumption, GateFinite DEF Gate!GateAssumption
      <4>4. Gate!LiveOfCaller(c) \subseteq Call /\ S \subseteq Call
        BY <2>8 DEF Gate!LiveOfCaller, PendingOf
      <4>5. IsFiniteSet(Gate!LiveOfCaller(c)) /\ IsFiniteSet(S)
        BY <4>3, <4>4, FS_Subset
      <4>6. Cardinality(S \ {c}) <= Cardinality(Gate!LiveOfCaller(c))
        BY <4>2, <4>5, FS_Subset
      <4>7. Cardinality(S \ {c}) = Cardinality(S) - 1
        BY <3>3, <4>5, FS_RemoveElement
      <4>8. Cardinality(S) \in Nat /\ Cardinality(Gate!LiveOfCaller(c)) \in Nat
        BY <4>5, FS_CardinalityType
      <4>9. Cardinality(Gate!LiveOfCaller(c)) < MaxLivePerCaller
        BY <1>2, GateCardinality
      <4>10. QED
        BY <4>3, <4>6, <4>7, <4>8, <4>9
    <3>4. QED
      BY <3>2, <3>3
  <2>9. QED
    BY <2>4, <2>7, <2>8 DEF Overlaps
<1>3. QED
  BY <1>1, <1>2, PendingShrinks

GateInv == GateTyped /\ Asked /\ Checked /\ Overlaps

LEMMA GateInvInit == Gate!GateInit => GateInv
<1> SUFFICES ASSUME Gate!GateInit PROVE GateInv
  OBVIOUS
<1> USE DEF Gate!GateInit
<1>1. GateTyped
  BY DEF GateTyped, CallAt
<1>2. Asked /\ Checked
  BY DEF Asked, InPosted, InAnswers, Checked, CheckedOf, Passed
<1>3. \A c \in Call : ~Pending(c)
  BY DEF Pending, Gate!Gap, Gate!Live
<1>4. \A c \in Call : \A S \in SUBSET PendingOf(c) : S = {}
  BY <1>3 DEF PendingOf
<1>5. Cardinality({}) = 0 /\ MaxLivePerCaller \in Nat
  BY FS_EmptySet, GateAssumption DEF Gate!GateAssumption
<1>6. Overlaps
  <2>1. Gate!Gap = {}
    BY DEF Gate!Gap
  <2>2. \A c \in Call : \A S \in SUBSET PendingOf(c) : Cardinality(S) <= MaxLivePerCaller
    <3>1. 0 <= MaxLivePerCaller
      BY <1>5
    <3>2. QED
      BY <1>4, <1>5, <3>1
  <2>3. QED
    BY <1>3, <2>1, <2>2 DEF Overlaps
<1>7. QED
  BY <1>1, <1>2, <1>6 DEF GateInv

\* No process is launched that the policy was not asked about and did not pass, although
\* questions get lost, answers come late and the worker dies; and live twins, or more
\* live processes of a caller than maxLivePerCaller, come only from calls that were
\* between their checks and their launch at once (startWithWait, preflightInWorker).
THEOREM StartsChecked == MCSpec => []StartsAreChecked
<1>1. MCInit => GateInv
  BY GateInvInit DEF MCInit
<1>2. GateInv /\ [MCNext]_<<vars, callVars, lifeVars, scene>> => GateInv'
  <2>1. [MCNext]_<<vars, callVars, lifeVars, scene>> => [Gate!GateNext]_(Gate!gateVars)
    BY DEF MCNext, callVars, Gate!gateVars
  <2>2. QED
    BY <2>1, GateTypedStep, AskedStep, CheckedStep, OverlapsStep DEF GateInv
<1>3. GateInv => StartsAreChecked
  <2>1. SUFFICES ASSUME GateInv PROVE Gate!NoUncheckedStart /\ Gate!ExcessOverlaps
    BY DEF StartsAreChecked
  <2>2. Gate!NoUncheckedStart
    BY <2>1 DEF GateInv, Checked, CheckedOf, Passed, Launched, Gate!NoUncheckedStart
  <2>3. ASSUME NEW c \in Call, NEW d \in Call, Gate!Live(c), Gate!Live(d), c # d,
               CallerOf[c] = CallerOf[d], IdentityOf[c] = IdentityOf[d]
        PROVE  {c, d} \in overlapped
    BY <2>1, <2>3 DEF GateInv, Overlaps, Pending, Mutual
  <2>4. ASSUME NEW c \in Call, NEW S \in SUBSET Gate!LiveOfCaller(c),
               Gate!Cardinality(S) > MaxLivePerCaller
        PROVE  \E p, q \in S : p # q /\ {p, q} \in overlapped
    <3>1. S \in SUBSET PendingOf(c)
      BY <2>4 DEF Gate!LiveOfCaller, PendingOf, Pending
    <3>2. ~(Cardinality(S) <= MaxLivePerCaller)
      <4>1. IsFiniteSet(S)
        BY <3>1, GateAssumption, GateFinite, FS_Subset DEF Gate!GateAssumption, PendingOf
      <4>2. Cardinality(S) \in Nat /\ MaxLivePerCaller \in Nat
        BY <4>1, FS_CardinalityType, GateAssumption DEF Gate!GateAssumption
      <4>3. QED
        BY <2>4, <4>2, GateCardinality
    <3>3. ~Separate(S)
      BY <2>1, <3>1, <3>2 DEF GateInv, Overlaps
    <3>4. QED
      BY <3>3 DEF Separate
  <2>5. QED
    BY <2>2, <2>3, <2>4 DEF Gate!ExcessOverlaps
<1>4. QED
  BY <1>1, <1>2, <1>3, PTL DEF MCSpec
=============================================================================
