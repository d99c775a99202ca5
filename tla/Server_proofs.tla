------------------------------ MODULE Server_proofs ------------------------------
(***************************************************************************)
(* Proofs about the server process, its log and its watchdog, for any      *)
(* requests, sizes of lines, limits and threshold: lines are in order and  *)
(* none is left behind, files stay bounded, and no stall is reported of    *)
(* threads that ran; and about starts without awaits, for any calls and    *)
(* servers: caps are strict, and slots and files agree.                    *)
(***************************************************************************)
EXTENDS MCServerProcess, FiniteSetTheorems, SequenceTheorems, TLAPS

(***************************************************************************)
(* StallWatchdog                                                           *)
(***************************************************************************)
Beats == \E i \in 1..Len(inbox) : inbox[i] = Watch!Beat

\* What the worker does not know can only be in its inbox; and it has no late tick
\* unless it was held up.
Known ==
    /\ Beats \/ beatAge >= gap
    /\ polled => tickAge >= gap
    /\ tickAge <= 1 \/ held >= tickAge

WatchInv ==
    /\ {beatAge, gap, tickAge, quiet, held} \subseteq Nat
    /\ inbox \in Seq({Watch!Beat, Watch!Stop})
    /\ stall \in BOOLEAN /\ ended \in BOOLEAN
    /\ quiet >= beatAge
    /\ ~ended => Known

LEMMA WatchInit == Watch!WatchBegins("no") \/ Watch!WatchBegins("done") => WatchInv
<1> SUFFICES ASSUME Watch!WatchBegins("no") \/ Watch!WatchBegins("done") PROVE WatchInv
  OBVIOUS
<1>1. /\ inbox = <<Watch!Beat>> /\ beatAge = 0 /\ gap = 0 /\ tickAge = 0 /\ quiet = 0 /\ held = 0
      /\ stall \in BOOLEAN /\ ended \in BOOLEAN
  BY DEF Watch!WatchBegins
<1>2. inbox \in Seq({Watch!Beat, Watch!Stop}) /\ Beats
  BY <1>1 DEF Beats
<1> QED  BY <1>1, <1>2 DEF WatchInv, Known

LEMMA WatchStep == WatchInv /\ [Watch!WatchNext]_watch => WatchInv'
<1> SUFFICES ASSUME WatchInv, [Watch!WatchNext]_watch PROVE WatchInv'
  OBVIOUS
<1> USE DEF WatchInv
<1>1. CASE Watch!Heartbeat
  <2>1. CASE ended
    BY <1>1, <2>1 DEF Watch!Heartbeat
  <2>2. CASE ~ended
    <3>1. inbox' = Append(inbox, Watch!Beat)
      BY <1>1, <2>2 DEF Watch!Heartbeat
    <3>2. inbox' \in Seq({Watch!Beat, Watch!Stop}) /\ Beats'
      BY <3>1 DEF Beats
    <3> QED  BY <1>1, <2>2, <3>2 DEF Watch!Heartbeat, Known
  <2> QED  BY <2>1, <2>2
<1>2. CASE Watch!Tick
  <2>1. /\ tickAge' = 0 /\ polled' = FALSE /\ ~ended
        /\ UNCHANGED <<beatAge, inbox, gap, ended, quiet, held>>
    BY <1>2 DEF Watch!Tick
  <2>2. stall' \in BOOLEAN
    BY <1>2 DEF Watch!Tick, Watch!Stalled
  <2>3. Known'
    BY <2>1 DEF Known, Beats
  <2> QED  BY <2>1, <2>2, <2>3
<1>3. CASE Watch!Message
  <2>1. inbox' = Tail(inbox) /\ inbox # <<>> /\ inbox' \in Seq({Watch!Beat, Watch!Stop})
    BY <1>3 DEF Watch!Message
  <2>2. CASE Head(inbox) = Watch!Beat
    <3>1. /\ gap' = 0 /\ quiet' = beatAge /\ held' = tickAge
          /\ UNCHANGED <<beatAge, tickAge, stall, ended>>
      BY <1>3, <2>2 DEF Watch!Message, Watch!Beaten, Watch!Beat, Watch!Stop
    <3> QED  BY <2>1, <3>1 DEF Known
  <2>3. CASE Head(inbox) = Watch!Stop
    <3>1. ended' = TRUE /\ UNCHANGED <<beatAge, gap, tickAge, stall, quiet, held>>
      BY <1>3, <2>3 DEF Watch!Message, Watch!Beat, Watch!Stop
    <3> QED  BY <2>1, <3>1
  <2> QED  BY <1>3, <2>2, <2>3 DEF Watch!Message
<1>4. CASE Watch!Close
  <2>1. inbox' = Append(inbox, Watch!Stop)
    BY <1>4 DEF Watch!Close
  <2>2. inbox' \in Seq({Watch!Beat, Watch!Stop}) /\ (Beats => Beats')
    BY <2>1 DEF Beats
  <2> QED  BY <1>4, <2>2 DEF Watch!Close, Known
<1>5. CASE Watch!WaitIsOver
  BY <1>5 DEF Watch!WaitIsOver
<1>6. CASE Watch!Hold
  BY <1>6 DEF Watch!Hold, Known, Beats
<1>7. CASE Watch!Pass
  <2>1. \A a, b \in Nat : /\ Watch!Older(a) \in Nat /\ Watch!Older(a) >= a
                          /\ a >= b => Watch!Older(a) >= Watch!Older(b)
                          /\ Watch!Longest(a, b) \in {a, b}
                          /\ Watch!Longest(a, b) >= a /\ Watch!Longest(a, b) >= b
    BY WatchAssumption DEF Watch!Older, Watch!Longest
  <2>2. Watch!Older(0) <= 1
    BY WatchAssumption DEF Watch!Older
  <2>3. /\ beatAge' = Watch!Older(beatAge) /\ gap' = Watch!Older(gap)
        /\ tickAge' = Watch!Older(tickAge)
        /\ quiet' = Watch!Longest(quiet, Watch!Older(beatAge))
        /\ held' = IF workerHeld THEN Watch!Longest(held, Watch!Older(tickAge)) ELSE held
        /\ UNCHANGED <<inbox, polled, stall, ended>>
    BY <1>7 DEF Watch!Pass
  <2>4. workerHeld \/ ended \/ tickAge = 0
    BY <1>7 DEF Watch!Pass, Watch!WorkerDue
  <2>5. {beatAge', gap', tickAge', quiet', held'} \subseteq Nat /\ quiet' >= beatAge'
    <3>1. Watch!Older(beatAge) \in Nat /\ Watch!Older(gap) \in Nat /\ Watch!Older(tickAge) \in Nat
      BY <2>1
    <3>2. /\ Watch!Longest(quiet, Watch!Older(beatAge)) \in Nat
          /\ Watch!Longest(quiet, Watch!Older(beatAge)) >= Watch!Older(beatAge)
      BY <2>1, <3>1
    <3>3. Watch!Longest(held, Watch!Older(tickAge)) \in Nat
      BY <2>1, <3>1
    <3> QED  BY <2>3, <3>1, <3>2, <3>3
  <2>6. ASSUME ~ended PROVE Known'
    <3>1. Beats' \/ beatAge' >= gap'
      BY <2>1, <2>3, <2>6 DEF Known, Beats
    <3>2. polled' => tickAge' >= gap'
      BY <2>1, <2>3, <2>6 DEF Known
    <3>3. tickAge' <= 1 \/ held' >= tickAge'
      BY <2>1, <2>2, <2>3, <2>4, <2>6
    <3> QED  BY <3>1, <3>2, <3>3 DEF Known
  <2> QED  BY <2>3, <2>5, <2>6
<1>8. CASE UNCHANGED watch
  BY <1>8 DEF watch, Known, Beats
<1> QED
  BY <1>1, <1>2, <1>3, <1>4, <1>5, <1>6, <1>7, <1>8 DEF Watch!WatchNext

\* The worker writes that a stall begins: the hold-up is there.
LEMMA AlarmIsTrue ==
  ASSUME WatchInv, Watch!Tick, stall', ~stall
  PROVE  quiet >= Threshold \/ held >= Threshold
<1>1. /\ ~ended /\ (polled \/ inbox = <<>>)
      /\ gap >= Threshold \/ tickAge - 1 >= Threshold
  BY DEF Watch!Tick, Watch!Stalled
<1>2. inbox = <<>> => ~Beats
  BY DEF Beats
<1> QED
  BY <1>1, <1>2, WatchAssumption DEF WatchInv, Known

LEMMA WatchStarts == MCInit => WatchInv
<1> SUFFICES ASSUME MCInit PROVE WatchInv
  OBVIOUS
<1> QED
  BY WatchInit DEF MCInit, Watch!WatchInit

LEMMA WatchSteps ==
  ASSUME WatchInv, [MCNext]_<<vars, watch, syncVars, runs>>
  PROVE  WatchInv' /\ [stall' /\ ~stall => quiet >= Threshold \/ held >= Threshold]_watch
<1>1. [Watch!WatchNext]_watch
  BY DEF MCNext
<1>2. WatchInv'
  BY <1>1, WatchStep
<1>3. ASSUME stall', ~stall, watch' # watch
      PROVE  quiet >= Threshold \/ held >= Threshold
  <2>1. Watch!Tick
    BY <1>1, <1>3 DEF Watch!WatchNext, Watch!Heartbeat, Watch!Message, Watch!Close,
                      Watch!WaitIsOver, Watch!Hold, Watch!Pass
  <2> QED  BY <1>3, <2>1, AlarmIsTrue
<1> QED  BY <1>2, <1>3

\* The watchdog reports a stall only if for the whole of its threshold the main thread posted
\* nothing or the worker made no tick, however late heartbeats are read (Tick).
THEOREM AlarmsHold == MCSpec => AlarmsAreTrue
<1>1. watch = <<mainHeld, workerHeld, beatAge, inbox, gap, tickAge, polled, stall, wrote,
                closing, ended, quiet, held>>
  BY DEF watch
<1>2. MCInit => WatchInv
  BY WatchStarts
<1>3. WatchInv /\ [MCNext]_<<vars, watch, syncVars, runs>> => WatchInv'
  BY WatchSteps
<1>4. WatchInv /\ [MCNext]_<<vars, watch, syncVars, runs>>
         => [stall' /\ ~stall => quiet >= Threshold \/ held >= Threshold]_(Watch!watchVars)
  BY WatchSteps DEF watch, Watch!watchVars
<1> QED
  BY <1>2, <1>3, <1>4, PTL DEF MCSpec, AlarmsAreTrue, Watch!NoFalseAlarm

(***************************************************************************)
(* Sequences of lines                                                      *)
(***************************************************************************)
LEMMA IncreasingTail ==
  ASSUME NEW S, S \subseteq Nat, NEW s \in Seq(S), s # <<>>, Increasing(s)
  PROVE  /\ Head(s) \in S /\ Tail(s) \in Seq(S)
         /\ Increasing(Tail(s))
         /\ Before(<<Head(s)>>, Tail(s))
<1>1. /\ Len(s) \in Nat \ {0} /\ Head(s) = s[1] /\ Tail(s) \in Seq(S)
      /\ Len(Tail(s)) = Len(s) - 1 /\ DOMAIN s = 1..Len(s) /\ DOMAIN Tail(s) = 1..(Len(s) - 1)
  OBVIOUS
<1>2. \A i \in 1..(Len(s) - 1) : Tail(s)[i] = s[i + 1] /\ i + 1 \in 1..Len(s)
  BY <1>1
<1>3. \A i \in 1..Len(s) : s[i] \in S
  OBVIOUS
<1>4. Increasing(Tail(s))
  BY <1>1, <1>2 DEF Increasing
<1>5. \A i \in 1..(Len(s) - 1) : s[1] < Tail(s)[i]
  BY <1>1, <1>2 DEF Increasing
<1>6. Before(<<Head(s)>>, Tail(s))
  BY <1>1, <1>5 DEF Before
<1> QED  BY <1>1, <1>3, <1>4, <1>6

LEMMA BeforeTail ==
  ASSUME NEW S, S \subseteq Nat, NEW s \in Seq(S), s # <<>>, NEW t \in Seq(S)
  PROVE  /\ Before(t, s) => Before(t, Tail(s)) /\ Before(t, <<Head(s)>>)
         /\ Before(s, t) => Before(Tail(s), t) /\ Before(<<Head(s)>>, t)
<1>1. /\ Len(s) \in Nat \ {0} /\ Head(s) = s[1] /\ Tail(s) \in Seq(S)
      /\ Len(Tail(s)) = Len(s) - 1 /\ DOMAIN s = 1..Len(s) /\ DOMAIN Tail(s) = 1..(Len(s) - 1)
  OBVIOUS
<1>2. \A i \in 1..(Len(s) - 1) : Tail(s)[i] = s[i + 1] /\ i + 1 \in 1..Len(s)
  BY <1>1
<1>3. 1 \in 1..Len(s)
  BY <1>1
<1>4. DOMAIN <<Head(s)>> = {1} /\ <<Head(s)>>[1] = s[1]
  BY <1>1
<1> QED  BY <1>1, <1>2, <1>3, <1>4 DEF Before

LEMMA Joins ==
  ASSUME NEW S, S \subseteq Nat, NEW s \in Seq(S), NEW t \in Seq(S), NEW u \in Seq(S)
  PROVE  /\ s \o t \in Seq(S)
         /\ Increasing(s) /\ Increasing(t) /\ Before(s, t) => Increasing(s \o t)
         /\ Before(u, s) /\ Before(u, t) => Before(u, s \o t)
         /\ Before(s, u) /\ Before(t, u) => Before(s \o t, u)
         /\ Range(s \o t) = Range(s) \cup Range(t)
<1>1. /\ Len(s) \in Nat /\ Len(t) \in Nat /\ s \o t \in Seq(S)
      /\ Len(s \o t) = Len(s) + Len(t)
      /\ DOMAIN s = 1..Len(s) /\ DOMAIN t = 1..Len(t)
      /\ DOMAIN (s \o t) = 1..(Len(s) + Len(t))
  OBVIOUS
<1>2. \A i \in DOMAIN (s \o t) :
         \/ i \in DOMAIN s /\ (s \o t)[i] = s[i]
         \/ i - Len(s) \in DOMAIN t /\ (s \o t)[i] = t[i - Len(s)] /\ i > Len(s)
  BY <1>1
<1>4. ASSUME Increasing(s), Increasing(t), Before(s, t) PROVE Increasing(s \o t)
  <2> SUFFICES ASSUME NEW i \in DOMAIN (s \o t), NEW j \in DOMAIN (s \o t), i < j
               PROVE  (s \o t)[i] < (s \o t)[j]
    BY DEF Increasing
  <2>1. CASE j <= Len(s)
    <3>1. i \in DOMAIN s /\ j \in DOMAIN s /\ (s \o t)[i] = s[i] /\ (s \o t)[j] = s[j]
      BY <1>1, <1>2, <2>1
    <3> QED  BY <3>1, <1>4 DEF Increasing
  <2>2. CASE i <= Len(s) /\ j > Len(s)
    <3>1. /\ i \in DOMAIN s /\ (s \o t)[i] = s[i]
          /\ j - Len(s) \in DOMAIN t /\ (s \o t)[j] = t[j - Len(s)]
      BY <1>1, <1>2, <2>2
    <3> QED  BY <3>1, <1>4 DEF Before
  <2>3. CASE i > Len(s)
    <3>1. /\ i - Len(s) \in DOMAIN t /\ (s \o t)[i] = t[i - Len(s)]
          /\ j - Len(s) \in DOMAIN t /\ (s \o t)[j] = t[j - Len(s)]
          /\ i - Len(s) < j - Len(s)
      BY <1>1, <1>2, <2>3
    <3> QED  BY <3>1, <1>4 DEF Increasing
  <2> QED  BY <1>1, <2>1, <2>2, <2>3
<1>5. Before(u, s) /\ Before(u, t) => Before(u, s \o t)
  BY <1>2 DEF Before
<1>6. Before(s, u) /\ Before(t, u) => Before(s \o t, u)
  BY <1>2 DEF Before
<1>7. Range(s \o t) = Range(s) \cup Range(t)
  BY RangeConcatenation
<1> QED  BY <1>1, <1>4, <1>5, <1>6, <1>7

LEMMA One ==
  ASSUME NEW S, NEW l \in S, NEW s \in Seq(S)
  PROVE  /\ <<l>> \in Seq(S) /\ Increasing(<<l>>) /\ Range(<<l>>) = {l} /\ Len(<<l>>) = 1
         /\ Append(s, l) = s \o <<l>>
         /\ Range(<<>>) = {} /\ Increasing(<<>>) /\ Before(<<>>, s) /\ Before(s, <<>>)
         /\ <<>> \in Seq(S)
<1>1. <<l>> \in Seq(S) /\ Len(<<l>>) = 1 /\ DOMAIN <<l>> = {1} /\ <<l>>[1] = l
  OBVIOUS
<1>2. Increasing(<<l>>) /\ Range(<<l>>) = {l}
  BY <1>1 DEF Increasing, Range
<1>3. Append(s, l) = s \o <<l>>
  BY AppendIsConcat
<1>4. /\ Range(<<>>) = {} /\ Increasing(<<>>) /\ Before(<<>>, s) /\ Before(s, <<>>)
      /\ <<>> \in Seq(S)
  BY DEF Range, Increasing, Before
<1> QED  BY <1>1, <1>2, <1>3, <1>4

(***************************************************************************)
(* The bytes of lines, whose sizes are a                                   *)
(***************************************************************************)
Area(a, s) == UNION {{l} \X (1..a[l]) : l \in Range(s)}
Weight(a, s) == Cardinality(Area(a, s))
SizesOf(n) == [1..n -> Nat \ {0}]

LEMMA WeightOf ==
  ASSUME NEW n \in Nat, NEW a \in SizesOf(n), NEW s \in Seq(1..n)
  PROVE  /\ IsFiniteSet(Area(a, s)) /\ Weight(a, s) \in Nat
         /\ Weight(a, <<>>) = 0
         /\ s # <<>> => Weight(a, s) > 0
<1> DEFINE block(l) == {l} \X (1..a[l])
<1>1. Range(s) \subseteq 1..n
  BY RangeOfSeq
<1>2. IsFiniteSet(Range(s))
  <2>1. IsFiniteSet(1..n)
    BY FS_Interval
  <2> QED  BY <1>1, <2>1, FS_Subset
<1>3. IsFiniteSet({block(l) : l \in Range(s)})
  <2> DEFINE T == {block(l) : l \in Range(s)}
             f == [l \in Range(s) |-> block(l)]
  <2> HIDE DEF block
  <2>1. f \in Surjection(Range(s), T)
    BY DEF Surjection
  <2> HIDE DEF T, f
  <2>2. IsFiniteSet(T)
    BY <1>2, <2>1, FS_Surjection
  <2> QED  BY <2>2 DEF T
<1>4. \A T \in {block(l) : l \in Range(s)} : IsFiniteSet(T)
  <2> SUFFICES ASSUME NEW l \in Range(s) PROVE IsFiniteSet(block(l))
    OBVIOUS
  <2>1. a[l] \in Nat
    BY <1>1 DEF SizesOf
  <2>2. IsFiniteSet(1..a[l])
    BY <2>1, FS_Interval
  <2>3. IsFiniteSet({l})
    BY FS_Singleton
  <2> QED  BY <2>2, <2>3, FS_Product
<1>5. IsFiniteSet(Area(a, s))
  BY <1>3, <1>4, FS_UNION DEF Area
<1>6. Weight(a, s) \in Nat
  BY <1>5, FS_CardinalityType DEF Weight
<1>7. Weight(a, <<>>) = 0
  <2>1. Area(a, <<>>) = {}
    BY DEF Area, Range
  <2> QED  BY <2>1, FS_EmptySet DEF Weight
<1>8. ASSUME s # <<>> PROVE Weight(a, s) > 0
  <2>1. 1 \in DOMAIN s /\ s[1] \in Range(s)
    BY <1>8 DEF Range
  <2>2. a[s[1]] \in Nat \ {0}
    BY <1>1, <2>1 DEF SizesOf
  <2>3. <<s[1], 1>> \in block(s[1])
    BY <2>2
  <2>4. Area(a, s) # {}
    BY <2>1, <2>3 DEF Area
  <2> QED  BY <1>5, <1>6, <2>4, FS_EmptySet DEF Weight
<1> QED  BY <1>5, <1>6, <1>7, <1>8

LEMMA WeightOfOne ==
  ASSUME NEW n \in Nat, NEW a \in SizesOf(n), NEW l \in 1..n
  PROVE  Weight(a, <<l>>) = a[l]
<1>1. Range(<<l>>) = {l}
  BY DEF Range
<1>2. Area(a, <<l>>) = {l} \X (1..a[l])
  BY <1>1 DEF Area
<1>3. a[l] \in Nat
  BY DEF SizesOf
<1>4. IsFiniteSet(1..a[l]) /\ Cardinality(1..a[l]) = a[l]
  <2>1. a[l] >= 1 /\ a[l] \in Int
    BY DEF SizesOf
  <2>2. /\ IsFiniteSet(1..a[l])
        /\ Cardinality(1..a[l]) = IF 1 > a[l] THEN 0 ELSE a[l] - 1 + 1
    BY <2>1, FS_Interval
  <2> QED  BY <2>1, <2>2
<1>5. IsFiniteSet({l}) /\ Cardinality({l}) = 1
  BY FS_Singleton
<1>6. Cardinality({l} \X (1..a[l])) = 1 * a[l]
  BY <1>4, <1>5, FS_Product
<1>7. 1 * a[l] = a[l]
  BY <1>3
<1> QED  BY <1>2, <1>6, <1>7 DEF Weight

LEMMA WeightJoins ==
  ASSUME NEW n \in Nat, NEW a \in SizesOf(n), NEW s \in Seq(1..n), NEW t \in Seq(1..n),
         Before(s, t)
  PROVE  Weight(a, s \o t) = Weight(a, s) + Weight(a, t)
<1>1. Range(s \o t) = Range(s) \cup Range(t)
  BY RangeConcatenation
<1>2. Range(s) \cap Range(t) = {}
  <2>1. \A i \in DOMAIN s, j \in DOMAIN t : s[i] # t[j]
    BY DEF Before
  <2> QED  BY <2>1 DEF Range
<1>3. Area(a, s \o t) = Area(a, s) \cup Area(a, t)
  BY <1>1 DEF Area
<1>4. Area(a, s) \cap Area(a, t) = {}
  BY <1>2 DEF Area
<1>5. IsFiniteSet(Area(a, s)) /\ IsFiniteSet(Area(a, t))
  BY WeightOf
<1>6. Cardinality(Area(a, s) \cup Area(a, t))
        = Cardinality(Area(a, s)) + Cardinality(Area(a, t)) - Cardinality({})
  BY <1>4, <1>5, FS_Union
<1>7. Cardinality({}) = 0
  BY FS_EmptySet
<1>8. Weight(a, s) \in Nat /\ Weight(a, t) \in Nat
  BY WeightOf
<1> QED  BY <1>3, <1>6, <1>7, <1>8 DEF Weight

\* A line that is accepted later changes nothing.
LEMMA WeightStays ==
  ASSUME NEW n \in Nat, NEW s \in Seq(1..n), NEW a, NEW b, \A l \in 1..n : a[l] = b[l]
  PROVE  Weight(a, s) = Weight(b, s)
<1>1. Range(s) \subseteq 1..n
  BY RangeOfSeq
<1>2. \A l \in Range(s) : {l} \X (1..a[l]) = {l} \X (1..b[l])
  BY <1>1
<1>3. Area(a, s) = Area(b, s)
  BY <1>2 DEF Area
<1> QED  BY <1>3 DEF Weight

(***************************************************************************)
(* LogWriter: the invariant                                                *)
(***************************************************************************)
Place == {"idle", "take", "open", "lines", "flush", "flushToRotate",
          "close", "rename", "reopen", "fresh"}

LineTypes ==
    /\ accepted \in Seq(Sizes)
    /\ queued \in Seq(Lines)
    /\ drain \in [at : Place, lines : Seq(Lines), chunk : Seq(Lines)]
    /\ files \in Seq(Seq(Lines))

LogTypes ==
    /\ handle \in 0..Len(files) /\ path \in 0..Len(files) /\ size \in Nat
    /\ timer \in BOOLEAN /\ scheduled \in BOOLEAN /\ closed \in BOOLEAN
    /\ closer \in {"none", "waiting", "closing", "done"}
    /\ failures \in Nat /\ moves \in Nat
    /\ scheduled <=> drain.at # "idle"

\* Lines go through the queue q, the drain l and its chunk c to the files F in their order.
InLine(F, c, l, q) ==
    /\ Increasing(q) /\ Increasing(l) /\ Increasing(c)
    /\ Before(c, l) /\ Before(c, q) /\ Before(l, q)
    /\ \A f \in DOMAIN F :
          /\ Increasing(F[f]) /\ Before(F[f], c) /\ Before(F[f], l) /\ Before(F[f], q)
    /\ \A f, g \in DOMAIN F : f < g => Before(F[f], F[g])
Orders == InLine(files, drain.chunk, drain.lines, queued)

\* What is known in the places of a drain.
Places ==
    /\ drain.at \in {"idle", "take"} => drain.lines = <<>> /\ drain.chunk = <<>>
    /\ drain.at \in {"open", "close", "rename", "reopen", "fresh"} => drain.chunk = <<>>
    /\ drain.at \in {"flush", "flushToRotate"} => drain.chunk # <<>>
    /\ drain.at \in {"flushToRotate", "close", "rename", "reopen", "fresh"} => drain.lines # <<>>
    /\ drain.at \in {"rename", "reopen"} => handle = 0
    /\ drain.at = "reopen" => path = 0
    /\ drain.at = "fresh" => size = 0

\* Only the last file is written to, and its size is known.
Named ==
    /\ handle # 0 => handle = Len(files) /\ size = Weight(accepted, files[handle])
    /\ path # 0 => path = Len(files)

\* The chunk still fits into the file, and at a flush its next line too.
Fits ==
    drain.chunk # <<>> =>
        /\ \/ size + Weight(accepted, drain.chunk) <= MaxBytes
           \/ size = 0 /\ Len(drain.chunk) = 1
        /\ drain.at = "flush" /\ drain.lines # <<>> =>
              size + Weight(accepted, drain.chunk) + accepted[Head(drain.lines)] <= MaxBytes

Bounded ==
    \A f \in DOMAIN files : Weight(accepted, files[f]) <= MaxBytes \/ Len(files[f]) = 1

LogInv == LineTypes /\ LogTypes /\ Orders /\ Places /\ Named /\ Fits /\ Bounded

\* Unless an operation failed, a line is on disk or on its way, and a log that is being
\* closed has none on the way.
Accounted ==
    /\ \A l \in Lines : l \in OnDisk \cup Range(drain.chunk) \cup Range(drain.lines) \cup Range(queued)
    /\ closer \in {"closing", "done"} => drain.at = "idle" /\ queued = <<>>
    /\ drain.at \in {"lines", "flush", "flushToRotate", "close", "fresh"} => handle # 0

\* The log is closed when nobody is connected any more, and a request that ended has its line.
Stopped ==
    /\ closed = (closer # "none")
    /\ closed => drained
    /\ drained => Connected = {} /\ ~listening
    /\ \A r \in Requests : Ended(r) => ends[r] \in Lines
    /\ exit = "clean" => drained /\ closer \in {"closing", "done"}

ServerInv ==
    /\ LogInv /\ Stopped
    /\ request \in [Requests -> {"none", "active", "answered", "gone"}]
    /\ ends \in [Requests -> Nat]
    /\ listening \in BOOLEAN /\ drained \in BOOLEAN /\ exit \in {"no", "clean", "forced"}
    /\ failures = 0 => Accounted

(***************************************************************************)
(* Lines of files F, of a chunk c, of a drain l and of a queue q           *)
(***************************************************************************)
LEMMA LineDrops ==
  ASSUME NEW S, NEW F, NEW c \in Seq(S), NEW l \in Seq(S), NEW q \in Seq(S), InLine(F, c, l, q),
         \A f \in DOMAIN F : F[f] \in Seq(S)
  PROVE  InLine(F, <<>>, <<>>, q)
<1>1. Increasing(<<>>) /\ <<>> \in Seq(S) /\ \A s \in Seq(S) : Before(<<>>, s) /\ Before(s, <<>>)
  BY DEF Increasing, Before
<1> QED  BY <1>1 DEF InLine

LEMMA LineTakes ==
  ASSUME NEW S, NEW F, NEW q \in Seq(S), InLine(F, <<>>, <<>>, q),
         \A f \in DOMAIN F : F[f] \in Seq(S)
  PROVE  InLine(F, <<>>, q, <<>>)
<1>1. Increasing(<<>>) /\ <<>> \in Seq(S) /\ \A s \in Seq(S) : Before(<<>>, s) /\ Before(s, <<>>)
  BY DEF Increasing, Before
<1> QED  BY <1>1 DEF InLine

LEMMA LineBuffers ==
  ASSUME NEW S, S \subseteq Nat, NEW F, NEW c \in Seq(S), NEW l \in Seq(S), NEW q \in Seq(S),
         InLine(F, c, l, q), l # <<>>, \A f \in DOMAIN F : F[f] \in Seq(S)
  PROVE  /\ InLine(F, Append(c, Head(l)), Tail(l), q)
         /\ Append(c, Head(l)) \in Seq(S) /\ Tail(l) \in Seq(S)
<1> DEFINE h == <<Head(l)>>
<1>1. /\ Head(l) \in S /\ Tail(l) \in Seq(S) /\ Increasing(Tail(l)) /\ Before(h, Tail(l))
  BY IncreasingTail DEF InLine
<1>2. h \in Seq(S) /\ Increasing(h) /\ Append(c, Head(l)) = c \o h /\ l = h \o Tail(l)
  <2>1. h \in Seq(S) /\ Increasing(h)
    BY <1>1 DEF Increasing
  <2>2. Append(c, Head(l)) = c \o h
    BY <1>1, AppendIsConcat
  <2>3. l = h \o Tail(l)
    BY <1>1
  <2> QED  BY <2>1, <2>2, <2>3
<1>3. \A t \in Seq(S) : /\ Before(t, l) => Before(t, Tail(l)) /\ Before(t, h)
                        /\ Before(l, t) => Before(Tail(l), t) /\ Before(h, t)
  BY BeforeTail
<1> HIDE DEF h
<1>4. Increasing(c \o h) /\ c \o h \in Seq(S)
  BY <1>2, <1>3, Joins DEF InLine
<1>5. Before(c \o h, Tail(l))
  BY <1>1, <1>2, <1>3, Joins DEF InLine
<1>6. Before(c \o h, q)
  BY <1>1, <1>2, <1>3, Joins DEF InLine
<1>7. ASSUME NEW f \in DOMAIN F PROVE Before(F[f], c \o h)
  <2>1. Before(F[f], c) /\ Before(F[f], h)
    BY <1>3 DEF InLine
  <2> QED  BY <1>2, <2>1, Joins
<1>8. InLine(F, c \o h, Tail(l), q)
  BY <1>1, <1>3, <1>4, <1>5, <1>6, <1>7 DEF InLine
<1> QED  BY <1>1, <1>2, <1>4, <1>8

LEMMA LineFlushes ==
  ASSUME NEW S, S \subseteq Nat, NEW F \in Seq(Seq(S)),
         NEW c \in Seq(S), NEW l \in Seq(S), NEW q \in Seq(S),
         InLine(F, c, l, q), F # <<>>
  PROVE  LET G == [F EXCEPT ![Len(F)] = @ \o c]
         IN /\ InLine(G, <<>>, l, q) /\ G \in Seq(Seq(S)) /\ Len(G) = Len(F)
            /\ G[Len(F)] = F[Len(F)] \o c /\ \A f \in 1..Len(F) : f # Len(F) => G[f] = F[f]
<1> DEFINE n == Len(F)
           w == F[n] \o c
           G == [F EXCEPT ![n] = w]
<1>1. n \in Nat \ {0} /\ DOMAIN F = 1..n /\ \A f \in 1..n : F[f] \in Seq(S)
  OBVIOUS
<1>2. n \in 1..n /\ w \in Seq(S)
  BY <1>1
<1> HIDE DEF n, w
<1>3. G \in Seq(Seq(S)) /\ Len(G) = n /\ DOMAIN G = 1..n
  BY <1>1, <1>2, ExceptSeq DEF n
<1>4. G[n] = w /\ \A f \in 1..n : f # n => G[f] = F[f]
  BY <1>1, <1>2
<1> HIDE DEF G
<1>5. F[n] \in Seq(S) /\ G[n] = F[n] \o c /\ F[n] \o c \in Seq(S)
  <2>1. F[n] \in Seq(S) /\ G[n] = F[n] \o c
    BY <1>1, <1>2, <1>4 DEF w
  <2> QED  BY <2>1, Joins
<1>6. /\ Increasing(F[n]) /\ Before(F[n], c) /\ Before(F[n], l) /\ Before(F[n], q)
      /\ Increasing(c) /\ Before(c, l) /\ Before(c, q) /\ Increasing(l) /\ Increasing(q)
      /\ Before(l, q)
  BY <1>1, <1>2 DEF InLine
<1>7. Increasing(<<>>) /\ \A s \in Seq(S) : Before(<<>>, s) /\ Before(s, <<>>)
  BY DEF Increasing, Before
<1>8. /\ Increasing(G[n]) /\ Before(G[n], l) /\ Before(G[n], q)
  BY <1>5, <1>6, Joins
<1>9. ASSUME NEW f \in 1..n
      PROVE  Increasing(G[f]) /\ Before(G[f], <<>>) /\ Before(G[f], l) /\ Before(G[f], q)
  <2>1. CASE f = n
    BY <1>5, <1>7, <1>8, <2>1
  <2>2. CASE f # n
    <3>1. G[f] = F[f] /\ F[f] \in Seq(S)
      BY <1>1, <1>4, <2>2
    <3>2. Increasing(F[f]) /\ Before(F[f], l) /\ Before(F[f], q)
      BY <1>1 DEF InLine
    <3> QED  BY <1>7, <3>1, <3>2
  <2> QED  BY <2>1, <2>2
<1>10. ASSUME NEW f \in 1..n, NEW g \in 1..n, f < g PROVE Before(G[f], G[g])
  <2>1. f # n
    BY <1>1, <1>10
  <2>2. G[f] = F[f] /\ F[f] \in Seq(S)
    BY <1>1, <1>4, <2>1
  <2>3. Before(F[f], F[g]) /\ Before(F[f], c)
    BY <1>1, <1>10 DEF InLine
  <2>4. CASE g = n
    <3>1. Before(F[f], F[n])
      BY <2>3, <2>4
    <3>2. Before(F[f], F[n] \o c)
      BY <1>5, <2>2, <2>3, <3>1, Joins
    <3> QED  BY <1>5, <2>2, <2>4, <3>2
  <2>5. CASE g # n
    BY <1>4, <2>2, <2>3, <2>5
  <2> QED  BY <2>4, <2>5
<1>11. InLine(G, <<>>, l, q)
  <2>1. \A f \in DOMAIN G : Increasing(G[f]) /\ Before(G[f], <<>>) /\ Before(G[f], l) /\ Before(G[f], q)
    BY <1>3, <1>9
  <2>2. \A f, g \in DOMAIN G : f < g => Before(G[f], G[g])
    BY <1>3, <1>10
  <2> QED  BY <1>6, <1>7, <2>1, <2>2 DEF InLine
<1>12. G[n] = F[n] \o c /\ \A f \in 1..n : f # n => G[f] = F[f]
  BY <1>4, <1>5
<1> QED  BY <1>3, <1>11, <1>12 DEF G, w, n

LEMMA LineQueues ==
  ASSUME NEW n \in Nat, NEW F, NEW c \in Seq(1..n), NEW l \in Seq(1..n), NEW q \in Seq(1..n),
         InLine(F, c, l, q), \A f \in DOMAIN F : F[f] \in Seq(1..n)
  PROVE  InLine(F, c, l, Append(q, n + 1))
<1> DEFINE h == <<n + 1>>
           S == 1..(n + 1)
<1>1. h \in Seq(S) /\ Increasing(h) /\ S \subseteq Nat
  BY DEF Increasing
<1>2. \A s : s \in Seq(1..n) => s \in Seq(S)
  <2>1. 1..n \subseteq S
    OBVIOUS
  <2> QED  BY <2>1, SeqMonotonic
<1>3. ASSUME NEW s \in Seq(1..n) PROVE Before(s, h)
  BY DEF Before
<1>4. Append(q, n + 1) = q \o h
  <2>1. n + 1 \in S
    OBVIOUS
  <2> QED  BY <1>2, <2>1, AppendIsConcat
<1> HIDE DEF h, S
<1>5. Increasing(q \o h) /\ Before(c, q \o h) /\ Before(l, q \o h)
  BY <1>1, <1>2, <1>3, Joins DEF InLine
<1>6. ASSUME NEW f \in DOMAIN F PROVE Before(F[f], q \o h)
  <2>1. F[f] \in Seq(1..n) /\ F[f] \in Seq(S)
    BY <1>2
  <2> QED  BY <1>1, <1>2, <1>3, <2>1, Joins DEF InLine
<1> QED  BY <1>4, <1>5, <1>6 DEF InLine

LEMMA LineOpens ==
  ASSUME NEW S, NEW F \in Seq(Seq(S)), NEW c \in Seq(S), NEW l \in Seq(S), NEW q \in Seq(S),
         InLine(F, c, l, q)
  PROVE  LET G == Append(F, <<>>)
         IN /\ InLine(G, c, l, q) /\ G \in Seq(Seq(S)) /\ Len(G) = Len(F) + 1
            /\ G[Len(F) + 1] = <<>> /\ \A f \in 1..Len(F) : G[f] = F[f]
<1> DEFINE n == Len(F)
           G == Append(F, <<>>)
<1>1. n \in Nat /\ DOMAIN F = 1..n /\ <<>> \in Seq(S)
  OBVIOUS
<1>2. G \in Seq(Seq(S)) /\ Len(G) = n + 1 /\ DOMAIN G = 1..(n + 1)
  BY <1>1
<1>3. G[n + 1] = <<>> /\ \A f \in 1..n : G[f] = F[f]
  BY <1>1
<1> HIDE DEF G
<1>4. Increasing(<<>>) /\ \A s \in Seq(S) : Before(<<>>, s) /\ Before(s, <<>>)
  BY DEF Increasing, Before
<1>5. \A f \in 1..n : F[f] \in Seq(S)
  OBVIOUS
<1>6. \A f \in 1..(n + 1) : f = n + 1 \/ f \in 1..n
  BY <1>1
<1>7. InLine(G, c, l, q)
  BY <1>1, <1>2, <1>3, <1>4, <1>5, <1>6 DEF InLine
<1> QED  BY <1>2, <1>3, <1>7 DEF G

(***************************************************************************)
(* LogWriter: its steps, by what they do to the lines                      *)
(***************************************************************************)
LogAny == (\E s \in Sizes : WriteLine(s)) \/ CloseLog \/ LogNext \/ UNCHANGED logVars

Keeps ==
    /\ UNCHANGED <<accepted, queued, files>>
    /\ drain'.lines = drain.lines /\ drain'.chunk = drain.chunk
Drops ==
    /\ UNCHANGED <<accepted, queued, files>>
    /\ drain'.lines = <<>> /\ drain'.chunk = <<>>
    /\ HandleGone \/ FileFails \/ (drain.lines = <<>> /\ drain.chunk = <<>>)
Queues ==
    /\ \E s \in Sizes : accepted' = Append(accepted, s)
    /\ queued' = Append(queued, Len(accepted) + 1)
    /\ files' = files /\ drain'.lines = drain.lines /\ drain'.chunk = drain.chunk
Takes ==
    /\ UNCHANGED <<accepted, files>>
    /\ queued' = <<>> /\ drain'.lines = queued
    /\ drain.lines = <<>> /\ drain.chunk = <<>> /\ drain'.chunk = <<>>
Passes ==
    /\ UNCHANGED <<accepted, queued, files>>
    /\ drain.lines # <<>> /\ drain'.lines = Tail(drain.lines)
    /\ drain'.chunk = Append(drain.chunk, Head(drain.lines))
Puts ==
    /\ UNCHANGED <<accepted, queued>>
    /\ handle # 0 /\ handle = Len(files) /\ files' = [files EXCEPT ![handle] = @ \o drain.chunk]
    /\ \/ drain'.lines = drain.lines /\ drain'.chunk = <<>>
       \/ /\ drain.lines # <<>> /\ drain'.lines = Tail(drain.lines)
          /\ drain'.chunk = <<Head(drain.lines)>>
Creates ==
    /\ UNCHANGED <<accepted, queued>>
    /\ files' = Append(files, <<>>)
    /\ drain'.lines = drain.lines /\ drain'.chunk = drain.chunk

Shaped == drain' = [at |-> drain'.at, lines |-> drain'.lines, chunk |-> drain'.chunk] /\ drain'.at \in Place

LEMMA Starts ==
  ASSUME LogInv, drain' = Start(queued) \/ drain' = Start(Append(queued, Len(accepted) + 1))
  PROVE  /\ Shaped /\ drain'.lines = drain.lines /\ drain'.chunk = drain.chunk
         /\ drain' = drain \/ (drain.at = "idle" /\ drain'.at = "take")
<1>1. drain' = drain \/ (~scheduled /\ drain' = [Rest EXCEPT !.at = "take"])
  BY DEF Start
<1>2. drain \in [at : Place, lines : Seq(Lines), chunk : Seq(Lines)]
  BY DEF LogInv, LineTypes
<1>3. CASE drain' = drain
  BY <1>2, <1>3 DEF Shaped
<1>4. CASE ~scheduled /\ drain' = [Rest EXCEPT !.at = "take"]
  <2>1. drain' = [at |-> "take", lines |-> <<>>, chunk |-> <<>>]
    BY <1>4 DEF Rest
  <2>2. drain.at = "idle" /\ drain.lines = <<>> /\ drain.chunk = <<>>
    BY <1>4 DEF LogInv, LogTypes, Places
  <2> QED  BY <2>1, <2>2 DEF Shaped, Place
<1> QED  BY <1>1, <1>3, <1>4

LEMMA Ends ==
  ASSUME Finish
  PROVE  /\ drain' \in {[at |-> "idle", lines |-> <<>>, chunk |-> <<>>],
                        [at |-> "take", lines |-> <<>>, chunk |-> <<>>]}
         /\ Shaped /\ drain'.lines = <<>> /\ drain'.chunk = <<>>
         /\ scheduled' \in BOOLEAN /\ timer' \in BOOLEAN
         /\ scheduled' <=> drain'.at # "idle"
         /\ drain'.at = "take" => queued # <<>> /\ closed
         /\ closer' = IF closer = "waiting" THEN "closing" ELSE closer
<1>1. \/ /\ drain' = [at |-> "idle", lines |-> <<>>, chunk |-> <<>>]
         /\ scheduled' = FALSE /\ timer' = (queued # <<>> /\ ~closed)
      \/ /\ drain' = [at |-> "take", lines |-> <<>>, chunk |-> <<>>]
         /\ scheduled' = TRUE /\ queued # <<>> /\ closed /\ timer' = FALSE
  BY DEF Finish, DrainsAgain, Rest
<1>2. closer' = IF closer = "waiting" THEN "closing" ELSE closer
  BY DEF Finish
<1>3. timer' \in BOOLEAN
  BY <1>1
<1>4. Shaped /\ drain'.lines = <<>> /\ drain'.chunk = <<>>
  BY <1>1 DEF Shaped, Place
<1>5. /\ scheduled' \in BOOLEAN
      /\ scheduled' <=> drain'.at # "idle"
      /\ drain'.at = "take" => queued # <<>> /\ closed
  <2>1. CASE /\ drain' = [at |-> "idle", lines |-> <<>>, chunk |-> <<>>]
             /\ scheduled' = FALSE
    <3>1. drain'.at = "idle"
      BY <2>1
    <3> QED  BY <2>1, <3>1
  <2>2. CASE /\ drain' = [at |-> "take", lines |-> <<>>, chunk |-> <<>>]
             /\ scheduled' = TRUE /\ queued # <<>> /\ closed
    <3>1. drain'.at = "take"
      BY <2>2
    <3> QED  BY <2>2, <3>1
  <2> QED  BY <1>1, <2>1, <2>2
<1> QED  BY <1>1, <1>2, <1>3, <1>4, <1>5

LEMMA Kinds ==
  ASSUME LogInv, LogAny
  PROVE  Shaped /\ (Keeps \/ Drops \/ Queues \/ Takes \/ Passes \/ Puts \/ Creates)
<1>1. drain \in [at : Place, lines : Seq(Lines), chunk : Seq(Lines)]
  BY DEF LogInv, LineTypes
<1>2. ASSUME NEW place \in Place, Steps(place)
      PROVE  Shaped /\ drain'.lines = drain.lines /\ drain'.chunk = drain.chunk /\ drain'.at = place
  BY <1>1, <1>2 DEF Steps, Shaped
<1>3. ASSUME Buffers
      PROVE  /\ Shaped /\ drain'.at = "lines" /\ drain'.lines = Tail(drain.lines)
             /\ drain'.chunk = Append(drain.chunk, Head(drain.lines))
  BY <1>1, <1>3 DEF Buffers, Shaped, Place
<1>4. ASSUME NEW s \in Sizes, WriteLine(s) PROVE Shaped /\ (Queues \/ Keeps)
  <2>1. CASE closed
    BY <1>1, <1>4, <2>1 DEF WriteLine, logVars, Keeps, Shaped
  <2>2. CASE ~closed
    <3>1. /\ accepted' = Append(accepted, s) /\ queued' = Append(queued, Len(accepted) + 1)
          /\ files' = files
          /\ drain' = drain \/ drain' = Start(Append(queued, Len(accepted) + 1))
      BY <1>4, <2>2 DEF WriteLine
    <3>2. Shaped /\ drain'.lines = drain.lines /\ drain'.chunk = drain.chunk
      BY <1>1, <3>1, Starts DEF Shaped
    <3> QED  BY <3>1, <3>2 DEF Queues
  <2> QED  BY <2>1, <2>2
<1>5. CASE CloseLog \/ FlushTimer
  BY <1>5, Starts DEF CloseLog, DrainsToClose, FlushTimer, Keeps
<1>6. CASE CloseHandle \/ MovedAway \/ UNCHANGED logVars
  BY <1>1, <1>6 DEF CloseHandle, MovedAway, logVars, Keeps, Shaped
<1>7. CASE Take
  <2>1. drain.lines = <<>> /\ drain.chunk = <<>>
    BY <1>7 DEF Take, At, LogInv, Places
  <2>2. CASE queued # <<>>
    <3>1. /\ drain' = [at |-> "open", lines |-> queued, chunk |-> <<>>]
          /\ queued' = <<>> /\ UNCHANGED <<accepted, files>>
      BY <1>7, <2>2 DEF Take, StaysOpen
    <3> QED  BY <2>1, <3>1 DEF Takes, Shaped, Place
  <2>3. CASE queued = <<>>
    BY <1>7, <2>1, <2>3, Ends DEF Take, StaysOpen, Drops
  <2> QED  BY <2>2, <2>3
<1>8. CASE EnsureOpen \/ Reopen
  <2>1. ASSUME NEW place \in Place, Opens(place)
        PROVE  Shaped /\ drain'.lines = drain.lines /\ drain'.chunk = drain.chunk
               /\ (files' = files \/ files' = Append(files, <<>>))
    BY <1>2, <2>1 DEF Opens
  <2> QED  BY <1>8, <2>1 DEF EnsureOpen, Reopen, StaysOpen, Place, Keeps, Creates
<1>9. ASSUME NEW old, NextLine(old) PROVE Shaped /\ (Keeps \/ Passes)
  <2>1. drain.lines # <<>> /\ UNCHANGED <<accepted, queued, files>>
    BY <1>9 DEF NextLine, StaysOpen
  <2>2. Steps("close") \/ Steps("flushToRotate") \/ Steps("flush") \/ Buffers
    BY <1>9 DEF NextLine
  <2> QED  BY <1>2, <1>3, <2>1, <2>2 DEF Place, Keeps, Passes
<1>10. CASE LastFlush
  <2>1. UNCHANGED <<accepted, queued, files>> /\ (Steps("take") \/ Steps("flush"))
    BY <1>10 DEF LastFlush, StaysOpen
  <2> QED  BY <1>2, <2>1 DEF Place, Keeps
<1>11. ASSUME NEW old, FlushChunk(old) PROVE Shaped /\ Puts
  <2>1. /\ UNCHANGED <<accepted, queued>>
        /\ handle # 0 /\ files' = [files EXCEPT ![handle] = @ \o drain.chunk]
    BY <1>11 DEF FlushChunk, StaysOpen
  <2>2. handle = Len(files)
    BY <2>1 DEF LogInv, Named
  <2>3. \E rotate \in BOOLEAN :
          drain' = [drain EXCEPT
            !.at = IF rotate THEN "close" ELSE "lines",
            !.lines = IF rotate \/ @ = <<>> THEN @ ELSE Tail(@),
            !.chunk = IF rotate \/ drain.lines = <<>> THEN <<>> ELSE <<Head(drain.lines)>>]
    BY <1>11 DEF FlushChunk
  <2>4. /\ Shaped
        /\ \/ drain'.lines = drain.lines /\ drain'.chunk = <<>>
           \/ /\ drain.lines # <<>> /\ drain'.lines = Tail(drain.lines)
              /\ drain'.chunk = <<Head(drain.lines)>>
    BY <1>1, <2>3 DEF Shaped, Place
  <2> QED  BY <2>1, <2>2, <2>4 DEF Puts
<1>12. CASE RotateClose \/ RotateRename
  <2>1. UNCHANGED <<accepted, queued, files>> /\ (Steps("rename") \/ Steps("reopen"))
    BY <1>12 DEF RotateClose, RotateRename, StaysOpen
  <2> QED  BY <1>2, <2>1 DEF Place, Keeps
<1>13. CASE FirstLine
  <2>1. drain.lines # <<>> /\ Buffers /\ UNCHANGED <<accepted, queued, files>>
    BY <1>13 DEF FirstLine, StaysOpen, At, LogInv, Places
  <2> QED  BY <1>3, <2>1 DEF Passes
<1>14. CASE HandleGone \/ FileFails
  <2>1. Finish /\ UNCHANGED <<accepted, queued, files>>
    BY <1>14 DEF HandleGone, FileFails, Give
  <2> QED  BY <1>14, <2>1, Ends DEF Drops
<1> QED
  BY <1>4, <1>5, <1>6, <1>7, <1>8, <1>9, <1>10, <1>11, <1>12, <1>13, <1>14
  DEF LogAny, LogNext, DrainSteps

LEMMA SizesTyped ==
  ASSUME LineTypes
  PROVE  Len(accepted) \in Nat /\ accepted \in SizesOf(Len(accepted)) /\ Lines \subseteq Nat
<1>1. accepted \in Seq(Nat \ {0})
  BY LogAssumption, SeqMonotonic DEF LineTypes
<1> QED  BY <1>1 DEF SizesOf, Lines

LEMMA LinesTyped ==
  ASSUME LineTypes
  PROVE  /\ queued \in Seq(Lines) /\ drain.lines \in Seq(Lines) /\ drain.chunk \in Seq(Lines)
         /\ drain.at \in Place
         /\ files \in Seq(Seq(Lines)) /\ DOMAIN files = 1..Len(files) /\ Len(files) \in Nat
         /\ \A f \in 1..Len(files) : files[f] \in Seq(Lines)
  BY DEF LineTypes

LEMMA LinesStep ==
  ASSUME LogInv, LogAny
  PROVE  LineTypes' /\ Orders'
<1>1. LineTypes /\ InLine(files, drain.chunk, drain.lines, queued)
  BY DEF LogInv, Orders
<1>2. /\ queued \in Seq(Lines) /\ drain.lines \in Seq(Lines) /\ drain.chunk \in Seq(Lines)
      /\ files \in Seq(Seq(Lines)) /\ DOMAIN files = 1..Len(files) /\ Len(files) \in Nat
      /\ \A f \in 1..Len(files) : files[f] \in Seq(Lines)
  BY <1>1, LinesTyped
<1>3. Len(accepted) \in Nat /\ Lines \subseteq Nat /\ accepted \in Seq(Sizes)
  BY <1>1, SizesTyped DEF LineTypes
<1>4. drain' = [at |-> drain'.at, lines |-> drain'.lines, chunk |-> drain'.chunk] /\ drain'.at \in Place
  BY Kinds DEF Shaped
<1>5. accepted' = accepted => Lines' = Lines
  BY DEF Lines
<1>6. <<>> \in Seq(Lines)
  OBVIOUS
<1>7. ASSUME UNCHANGED <<accepted, queued, files>>,
             drain'.lines \in Seq(Lines), drain'.chunk \in Seq(Lines)
      PROVE  LineTypes'
  BY <1>2, <1>3, <1>4, <1>5, <1>7 DEF LineTypes
<1>8. CASE Keeps
  BY <1>1, <1>2, <1>7, <1>8 DEF Keeps, Orders
<1>9. CASE Drops
  <2>1. InLine(files, <<>>, <<>>, queued)
    BY <1>1, <1>2, LineDrops
  <2> QED  BY <1>6, <1>7, <1>9, <2>1 DEF Drops, Orders
<1>10. CASE Passes
  <2>1. /\ InLine(files, Append(drain.chunk, Head(drain.lines)), Tail(drain.lines), queued)
        /\ Append(drain.chunk, Head(drain.lines)) \in Seq(Lines)
        /\ Tail(drain.lines) \in Seq(Lines)
    BY <1>1, <1>2, <1>3, <1>10, LineBuffers DEF Passes
  <2> QED  BY <1>7, <1>10, <2>1 DEF Passes, Orders
<1>11. CASE Queues
  <2>1. PICK s \in Sizes : accepted' = Append(accepted, s)
    BY <1>11 DEF Queues
  <2>2. /\ accepted' \in Seq(Sizes) /\ Len(accepted') = Len(accepted) + 1
        /\ Lines' = 1..(Len(accepted) + 1) /\ Lines = 1..Len(accepted)
    BY <1>3, <2>1 DEF Lines
  <2>3. \A q : q \in Seq(Lines) => q \in Seq(Lines')
    <3>1. Lines \subseteq Lines'
      BY <1>3, <2>2
    <3> QED  BY <3>1, SeqMonotonic
  <2>4. files \in Seq(Seq(Lines'))
    <3>1. Seq(Lines) \subseteq Seq(Lines')
      BY <2>3
    <3> QED  BY <1>2, <3>1, SeqMonotonic
  <2>5. Append(queued, Len(accepted) + 1) \in Seq(Lines')
    <3>1. Len(accepted) + 1 \in Lines' /\ queued \in Seq(Lines')
      BY <1>2, <1>3, <2>2, <2>3
    <3> QED  BY <3>1
  <2>6. LineTypes'
    BY <1>2, <1>4, <1>11, <2>2, <2>3, <2>4, <2>5 DEF Queues, LineTypes
  <2>7. InLine(files, drain.chunk, drain.lines, Append(queued, Len(accepted) + 1))
    BY <1>1, <1>2, <1>3, <2>2, LineQueues
  <2> QED  BY <1>11, <2>6, <2>7 DEF Queues, Orders
<1>12. CASE Takes
  <2>1. InLine(files, <<>>, queued, <<>>)
    BY <1>1, <1>2, <1>12, LineTakes DEF Takes
  <2>2. LineTypes'
    BY <1>2, <1>3, <1>4, <1>5, <1>6, <1>12 DEF Takes, LineTypes
  <2> QED  BY <1>12, <2>1, <2>2 DEF Takes, Orders
<1>13. CASE Puts
  <2>1. files # <<>> /\ files' = [files EXCEPT ![Len(files)] = @ \o drain.chunk]
    BY <1>2, <1>13 DEF Puts
  <2>2. /\ InLine(files', <<>>, drain.lines, queued) /\ files' \in Seq(Seq(Lines))
        /\ DOMAIN files' = 1..Len(files') /\ \A f \in DOMAIN files' : files'[f] \in Seq(Lines)
    <3>1. LET G == [files EXCEPT ![Len(files)] = @ \o drain.chunk]
          IN InLine(G, <<>>, drain.lines, queued) /\ G \in Seq(Seq(Lines))
      BY <1>1, <1>2, <1>3, <2>1, LineFlushes
    <3> QED  BY <2>1, <3>1
  <2>3. CASE drain'.lines = drain.lines /\ drain'.chunk = <<>>
    BY <1>2, <1>3, <1>4, <1>5, <1>6, <1>13, <2>2, <2>3 DEF Puts, LineTypes, Orders
  <2>4. CASE /\ drain.lines # <<>> /\ drain'.lines = Tail(drain.lines)
             /\ drain'.chunk = <<Head(drain.lines)>>
    <3>1. /\ InLine(files', Append(<<>>, Head(drain.lines)), Tail(drain.lines), queued)
          /\ Append(<<>>, Head(drain.lines)) \in Seq(Lines)
          /\ Tail(drain.lines) \in Seq(Lines)
      BY <1>2, <1>3, <1>6, <2>2, <2>4, LineBuffers
    <3>2. Append(<<>>, Head(drain.lines)) = <<Head(drain.lines)>>
      OBVIOUS
    <3> QED
      BY <1>2, <1>3, <1>4, <1>5, <1>13, <2>2, <2>4, <3>1, <3>2 DEF Puts, LineTypes, Orders
  <2> QED  BY <1>13, <2>3, <2>4 DEF Puts
<1>14. CASE Creates
  <2>1. InLine(files', drain.chunk, drain.lines, queued) /\ files' \in Seq(Seq(Lines))
    BY <1>1, <1>2, <1>14, LineOpens DEF Creates
  <2> QED  BY <1>2, <1>3, <1>4, <1>5, <1>14, <2>1 DEF Creates, LineTypes, Orders
<1> QED
  BY <1>11, <1>12, <1>13, <1>14, <1>8, <1>9, <1>10, Kinds

(***************************************************************************)
(* LogWriter: what its steps do to the counts                              *)
(***************************************************************************)
LEMMA BytesAre == \A s : Bytes(s) = Weight(accepted, s)
BY DEF Bytes, Weight, Area

LEMMA Weights ==
  ASSUME LineTypes
  PROVE  /\ \A s \in Seq(Lines) : Weight(accepted, s) \in Nat
         /\ \A s \in Seq(Lines) : s # <<>> => Weight(accepted, s) > 0
         /\ Weight(accepted, <<>>) = 0
         /\ \A l \in Lines : Weight(accepted, <<l>>) = accepted[l] /\ accepted[l] \in Nat
         /\ \A s, t \in Seq(Lines) :
               Before(s, t) => Weight(accepted, s \o t) = Weight(accepted, s) + Weight(accepted, t)
<1>1. Len(accepted) \in Nat /\ accepted \in SizesOf(Len(accepted)) /\ Lines = 1..Len(accepted)
  BY SizesTyped DEF Lines
<1>2. \A l \in Lines : accepted[l] \in Nat
  BY <1>1 DEF SizesOf
<1>3. <<>> \in Seq(Lines)
  OBVIOUS
<1>4. \A s \in Seq(Lines) : Weight(accepted, s) \in Nat /\ (s # <<>> => Weight(accepted, s) > 0)
  BY <1>1, WeightOf
<1>5. Weight(accepted, <<>>) = 0
  BY <1>1, <1>3, WeightOf
<1>6. \A l \in Lines : Weight(accepted, <<l>>) = accepted[l]
  BY <1>1, WeightOfOne
<1>7. \A s, t \in Seq(Lines) :
         Before(s, t) => Weight(accepted, s \o t) = Weight(accepted, s) + Weight(accepted, t)
  BY <1>1, WeightJoins
<1> QED  BY <1>2, <1>4, <1>5, <1>6, <1>7

LEMMA Rests ==
  ASSUME LogInv, UNCHANGED <<accepted, files>>, path' \in {0, path},
         handle' = 0 \/ (handle' = handle /\ size' = size)
  PROVE  Named' /\ Bounded' /\ handle' \in 0..Len(files') /\ path' \in 0..Len(files')
<1>1. Len(files) \in Nat
  BY LinesTyped DEF LogInv
<1> QED  BY <1>1 DEF LogInv, Named, Bounded, LogTypes

LEMMA NothingBuffered ==
  ASSUME drain'.chunk = <<>>
  PROVE  Fits'
BY DEF Fits

\* What does not concern the drain.
LEMMA Aside ==
  ASSUME LogInv, UNCHANGED <<accepted, size>>, drain' = drain \/ (drain.at = "idle" /\ drain'.at = "take"
                   /\ drain'.lines = drain.lines /\ drain'.chunk = drain.chunk),
         handle' \in {0, handle}, path' \in {0, path}
  PROVE  Fits' /\ Places'
<1>1. drain.at = "idle" => drain.lines = <<>> /\ drain.chunk = <<>>
  BY DEF LogInv, Places
<1>2. CASE drain' = drain
  BY <1>2 DEF LogInv, Fits, Places
<1>3. CASE drain.at = "idle" /\ drain'.at = "take" /\ drain'.lines = drain.lines /\ drain'.chunk = drain.chunk
  BY <1>1, <1>3 DEF Fits, Places
<1> QED  BY <1>2, <1>3

Counted == LogTypes /\ Places /\ Named /\ Fits /\ Bounded

LEMMA CountWriteLine ==
  ASSUME LogInv, NEW s \in Sizes, WriteLine(s)
  PROVE  Counted'
<1>1. CASE closed
  BY <1>1 DEF WriteLine, logVars, LogInv, Counted, LogTypes, Places, Named, Fits, Bounded
<1>2. CASE ~closed
  <2>1. /\ accepted' = Append(accepted, s)
        /\ \E full \in BOOLEAN :
              /\ timer' = (~full /\ (timer \/ Arms(queued'))) /\ scheduled' = (scheduled \/ full)
              /\ drain' = IF full THEN Start(queued') ELSE drain
        /\ queued' = Append(queued, Len(accepted) + 1)
        /\ UNCHANGED <<closed, handle, size, path, files, closer, failures, moves>>
    BY <1>2 DEF WriteLine
  <2>2. LineTypes /\ Len(accepted) \in Nat /\ accepted \in Seq(Sizes) /\ Lines = 1..Len(accepted)
    BY SizesTyped DEF LogInv, LineTypes, Lines
  <2>3. \A l \in Lines : accepted'[l] = accepted[l]
    BY <2>1, <2>2
  <2>4. \A t \in Seq(Lines) : Weight(accepted', t) = Weight(accepted, t)
    BY <2>2, <2>3, WeightStays
  <2>5. /\ drain.chunk \in Seq(Lines) /\ drain.lines \in Seq(Lines)
        /\ \A f \in DOMAIN files : files[f] \in Seq(Lines)
        /\ handle # 0 => handle \in DOMAIN files
        /\ drain.lines # <<>> => Head(drain.lines) \in Lines
        /\ queued' # <<>>
    <3>1. /\ drain.chunk \in Seq(Lines) /\ drain.lines \in Seq(Lines) /\ queued \in Seq(Lines)
          /\ DOMAIN files = 1..Len(files) /\ Len(files) \in Nat
          /\ \A f \in 1..Len(files) : files[f] \in Seq(Lines)
      BY <2>2, LinesTyped
    <3>2. handle # 0 => handle \in DOMAIN files
      BY <3>1 DEF LogInv, LogTypes
    <3>3. drain.lines # <<>> => Head(drain.lines) \in Lines
      BY <3>1
    <3>4. queued' # <<>>
      BY <2>1, <3>1
    <3> QED  BY <3>1, <3>2, <3>3, <3>4
  <2>6. Named' /\ Bounded'
    BY <2>1, <2>4, <2>5 DEF LogInv, Named, Bounded
  <2>7. \/ drain' = drain /\ scheduled' = scheduled
        \/ drain' = drain /\ scheduled /\ scheduled'
        \/ /\ drain.at = "idle" /\ drain' = [at |-> "take", lines |-> <<>>, chunk |-> <<>>]
           /\ scheduled'
    BY <2>1, <2>5 DEF Start, Rest, LogInv, LogTypes
  <2>8. Places' /\ Fits'
    <3>1. CASE drain' = drain
      BY <2>1, <2>3, <2>4, <2>5, <3>1 DEF LogInv, Places, Fits
    <3>2. CASE drain' = [at |-> "take", lines |-> <<>>, chunk |-> <<>>]
      BY <3>2 DEF Places, Fits
    <3> QED  BY <2>7, <3>1, <3>2
  <2>9. LogTypes'
    <3>1. scheduled' \in BOOLEAN /\ timer' \in BOOLEAN
      BY <2>1 DEF LogInv, LogTypes
    <3>2. scheduled' <=> drain'.at # "idle"
      <4>1. CASE drain' = [at |-> "take", lines |-> <<>>, chunk |-> <<>>] /\ scheduled'
        <5>1. drain'.at = "take"
          BY <4>1
        <5> QED  BY <4>1, <5>1
      <4>2. CASE drain' = drain
        BY <2>7, <4>1, <4>2 DEF LogInv, LogTypes
      <4> QED  BY <2>7, <4>1, <4>2
    <3> QED  BY <2>1, <3>1, <3>2 DEF LogInv, LogTypes
  <2> QED  BY <2>6, <2>8, <2>9 DEF Counted
<1> QED  BY <1>1, <1>2

LEMMA CountAside ==
  ASSUME LogInv, CloseLog \/ FlushTimer \/ CloseHandle \/ MovedAway \/ UNCHANGED logVars
  PROVE  Counted'
<1>1. CASE CloseLog \/ FlushTimer
  <2>1. /\ UNCHANGED <<accepted, queued, handle, size, path, files, failures, moves>>
        /\ scheduled' = Schedules(queued) /\ drain' = Start(queued)
        /\ timer' = FALSE /\ closed' \in BOOLEAN
        /\ closer' \in {"none", "waiting", "closing", "done"}
    BY <1>1 DEF CloseLog, DrainsToClose, FlushTimer, LogInv, LogTypes
  <2>2. /\ drain'.lines = drain.lines /\ drain'.chunk = drain.chunk
        /\ drain' = drain \/ (drain.at = "idle" /\ drain'.at = "take")
    BY <2>1, Starts
  <2>3. Fits' /\ Places' /\ Named' /\ Bounded' /\ handle' \in 0..Len(files') /\ path' \in 0..Len(files')
    BY <2>1, <2>2, Aside, Rests
  <2>4. scheduled' \in BOOLEAN
    BY <2>1 DEF Schedules
  <2>5. scheduled' <=> drain'.at # "idle"
    <3>1. CASE scheduled \/ queued = <<>>
      BY <2>1, <3>1 DEF Schedules, Start, LogInv, LogTypes
    <3>2. CASE ~scheduled /\ queued # <<>>
      <4>1. drain'.at = "take"
        BY <2>1, <3>2 DEF Start, Rest
      <4> QED  BY <2>1, <3>2, <4>1 DEF Schedules
    <3> QED  BY <3>1, <3>2
  <2> QED  BY <2>1, <2>3, <2>4, <2>5 DEF Counted, LogInv, LogTypes
<1>2. CASE CloseHandle \/ MovedAway \/ UNCHANGED logVars
  <2>1. /\ UNCHANGED <<accepted, files, size, drain, timer, scheduled, closed, failures>>
        /\ handle' \in {0, handle} /\ path' \in {0, path} /\ moves' \in Nat
        /\ closer' \in {"none", "waiting", "closing", "done"}
    BY <1>2 DEF CloseHandle, MovedAway, logVars, LogInv, LogTypes
  <2>2. Fits' /\ Places' /\ Named' /\ Bounded' /\ handle' \in 0..Len(files') /\ path' \in 0..Len(files')
    BY <2>1, Aside, Rests
  <2> QED  BY <2>1, <2>2 DEF Counted, LogInv, LogTypes
<1> QED  BY <1>1, <1>2

\* The steps of the drain, but for flushes.
LEMMA CountSteps ==
  ASSUME LogInv, UNCHANGED <<accepted, files, timer, scheduled, closed, closer, failures, moves>>,
         path' \in {0, path}, handle' = 0 \/ (handle' = handle /\ size' = size), size' \in Nat,
         drain.at # "idle", drain'.at # "idle", Places', Fits'
  PROVE  Counted'
<1>1. Named' /\ Bounded' /\ handle' \in 0..Len(files') /\ path' \in 0..Len(files')
  BY Rests
<1>2. scheduled' /\ scheduled \in BOOLEAN
  BY DEF LogInv, LogTypes
<1> QED  BY <1>1, <1>2 DEF Counted, LogInv, LogTypes

LEMMA Stepped ==
  ASSUME LogInv, NEW place \in Place, Steps(place)
  PROVE  drain'.at = place /\ drain'.lines = drain.lines /\ drain'.chunk = drain.chunk
<1>1. drain \in [at : Place, lines : Seq(Lines), chunk : Seq(Lines)]
  BY DEF LogInv, LineTypes
<1> QED  BY <1>1 DEF Steps

LEMMA Passed ==
  ASSUME LogInv, Buffers
  PROVE  /\ drain'.at = "lines" /\ drain'.lines = Tail(drain.lines)
         /\ drain'.chunk = Append(drain.chunk, Head(drain.lines))
<1>1. drain \in [at : Place, lines : Seq(Lines), chunk : Seq(Lines)]
  BY DEF LogInv, LineTypes
<1> QED  BY <1>1 DEF Buffers

\* One more line in the chunk.
LEMMA Longer ==
  ASSUME LogInv, drain.lines # <<>>
  PROVE  /\ Head(drain.lines) \in Lines /\ accepted[Head(drain.lines)] \in Nat
         /\ Weight(accepted, drain.chunk) \in Nat
         /\ drain.chunk # <<>> => Weight(accepted, drain.chunk) > 0
         /\ Weight(accepted, Append(drain.chunk, Head(drain.lines)))
               = Weight(accepted, drain.chunk) + accepted[Head(drain.lines)]
         /\ Append(drain.chunk, Head(drain.lines)) # <<>>
         /\ drain.chunk = <<>> => Len(Append(drain.chunk, Head(drain.lines))) = 1
<1>1. LineTypes /\ drain.chunk \in Seq(Lines) /\ drain.lines \in Seq(Lines) /\ Lines \subseteq Nat
  BY LinesTyped, SizesTyped DEF LogInv
<1>2. Before(drain.chunk, drain.lines)
  BY DEF LogInv, Orders, InLine
<1>3. Before(drain.chunk, <<Head(drain.lines)>>)
  BY <1>1, <1>2, BeforeTail
<1>4. Head(drain.lines) \in Lines /\ <<Head(drain.lines)>> \in Seq(Lines)
  BY <1>1
<1>5. Append(drain.chunk, Head(drain.lines)) = drain.chunk \o <<Head(drain.lines)>>
  BY <1>1, <1>4, AppendIsConcat
<1>6. Len(Append(drain.chunk, Head(drain.lines))) = Len(drain.chunk) + 1
  BY <1>1, <1>4
<1>7. drain.chunk = <<>> => Len(drain.chunk) = 0
  OBVIOUS
<1>8. Append(drain.chunk, Head(drain.lines)) # <<>>
  BY <1>1, <1>4
<1>9. /\ Weight(accepted, <<Head(drain.lines)>>) = accepted[Head(drain.lines)]
      /\ accepted[Head(drain.lines)] \in Nat
  BY <1>1, <1>4, Weights
<1>10. Weight(accepted, drain.chunk \o <<Head(drain.lines)>>)
         = Weight(accepted, drain.chunk) + Weight(accepted, <<Head(drain.lines)>>)
  BY <1>1, <1>3, <1>4, Weights
<1>11. Weight(accepted, drain.chunk) \in Nat /\ (drain.chunk # <<>> => Weight(accepted, drain.chunk) > 0)
  BY <1>1, Weights
<1>12. Weight(accepted, Append(drain.chunk, Head(drain.lines)))
         = Weight(accepted, drain.chunk) + accepted[Head(drain.lines)]
  BY <1>5, <1>9, <1>10
<1>13. drain.chunk = <<>> => Len(Append(drain.chunk, Head(drain.lines))) = 1
  BY <1>6, <1>7
<1> QED  BY <1>4, <1>8, <1>9, <1>11, <1>12, <1>13

LEMMA CountLines ==
  ASSUME LogInv, LastFlush \/ RotateClose \/ RotateRename \/ FirstLine
                   \/ \E old \in {FALSE, Ageing} : NextLine(old)
  PROVE  Counted'
<1>0. size \in Nat /\ MaxBytes \in Nat
  BY LogAssumption DEF LogInv, LogTypes
<1>1. CASE LastFlush
  <2>1. /\ UNCHANGED <<accepted, files, timer, scheduled, closed, closer, failures, moves>>
        /\ UNCHANGED <<handle, size, path>> /\ drain.at = "lines" /\ drain.lines = <<>>
        /\ Steps(IF drain.chunk = <<>> THEN "take" ELSE "flush")
    BY <1>1 DEF LastFlush, StaysOpen, At
  <2>2. /\ drain'.at = IF drain.chunk = <<>> THEN "take" ELSE "flush"
        /\ drain'.lines = <<>> /\ drain'.chunk = drain.chunk
    BY <2>1, Stepped DEF Place
  <2>3. Places'
    BY <2>2 DEF Places
  <2>4. Fits'
    BY <2>1, <2>2 DEF LogInv, Fits
  <2> QED  BY <1>0, <2>1, <2>2, <2>3, <2>4, CountSteps
<1>2. CASE RotateClose
  <2>1. /\ UNCHANGED <<accepted, files, timer, scheduled, closed, closer, failures, moves>>
        /\ handle' = 0 /\ size' = size /\ path' = path /\ drain.at = "close" /\ Steps("rename")
    BY <1>2 DEF RotateClose, StaysOpen, At
  <2>2. drain'.at = "rename" /\ drain'.lines = drain.lines /\ drain'.chunk = drain.chunk
    BY <2>1, Stepped DEF Place
  <2>3. drain'.chunk = <<>> /\ drain'.lines # <<>>
    BY <2>1, <2>2 DEF LogInv, Places
  <2> QED  BY <1>0, <2>1, <2>2, <2>3, NothingBuffered, CountSteps DEF Places
<1>3. CASE RotateRename
  <2>1. /\ UNCHANGED <<accepted, files, timer, scheduled, closed, closer, failures, moves>>
        /\ handle' = handle /\ size' = 0 /\ path' = 0 /\ drain.at = "rename" /\ Steps("reopen")
    BY <1>3 DEF RotateRename, StaysOpen, At
  <2>2. drain'.at = "reopen" /\ drain'.lines = drain.lines /\ drain'.chunk = drain.chunk
    BY <2>1, Stepped DEF Place
  <2>3. drain'.chunk = <<>> /\ drain'.lines # <<>> /\ handle' = 0
    BY <2>1, <2>2 DEF LogInv, Places
  <2>4. Places'
    BY <2>1, <2>2, <2>3 DEF Places
  <2>5. Fits'
    BY <2>3, NothingBuffered
  <2>6. size' \in Nat
    BY <2>1
  <2> QED  BY <2>1, <2>2, <2>3, <2>4, <2>5, <2>6, CountSteps
<1>4. CASE FirstLine
  <2>1. /\ UNCHANGED <<accepted, files, timer, scheduled, closed, closer, failures, moves>>
        /\ UNCHANGED <<handle, size, path>> /\ drain.at = "fresh" /\ Buffers
    BY <1>4 DEF FirstLine, StaysOpen, At
  <2>2. drain.chunk = <<>> /\ drain.lines # <<>> /\ size = 0
    BY <2>1 DEF LogInv, Places
  <2>3. /\ drain'.at = "lines" /\ drain'.chunk = Append(drain.chunk, Head(drain.lines))
        /\ Len(drain'.chunk) = 1
    BY <2>1, <2>2, Passed, Longer
  <2>4. Places' /\ Fits'
    BY <2>1, <2>2, <2>3 DEF Places, Fits
  <2> QED  BY <1>0, <2>1, <2>3, <2>4, CountSteps
<1>5. ASSUME NEW old \in {FALSE, Ageing}, NextLine(old) PROVE Counted'
  <2> DEFINE w == Weight(accepted, drain.chunk)
             next == accepted[Head(drain.lines)]
  <2>1. /\ UNCHANGED <<accepted, files, timer, scheduled, closed, closer, failures, moves>>
        /\ UNCHANGED <<handle, size, path>> /\ drain.at = "lines" /\ drain.lines # <<>>
    BY <1>5 DEF NextLine, StaysOpen, At
  <2>2. /\ w \in Nat /\ next \in Nat /\ (drain.chunk # <<>> => w > 0) /\ Buffered = w
    BY <2>1, Longer, BytesAre DEF Buffered
  <2>3. \/ Steps("close") /\ drain.chunk = <<>>
        \/ Steps("flushToRotate") /\ drain.chunk # <<>>
        \/ /\ ~(size + w > 0 /\ size + w + next > MaxBytes)
           /\ (Steps("flush") /\ drain.chunk # <<>>) \/ Buffers
    BY <1>5, <2>2 DEF NextLine, Required, RotationRequired
  <2>4. CASE (Steps("close") /\ drain.chunk = <<>>) \/ (Steps("flushToRotate") /\ drain.chunk # <<>>)
    <3>1. /\ drain'.lines = drain.lines /\ drain'.chunk = drain.chunk
          /\ \/ drain'.at = "close" /\ drain.chunk = <<>>
             \/ drain'.at = "flushToRotate" /\ drain.chunk # <<>>
      BY <2>4, Stepped DEF Place
    <3>2. Places'
      BY <2>1, <3>1 DEF Places
    <3>3. Fits'
      BY <2>1, <3>1 DEF LogInv, Fits
    <3> QED  BY <1>0, <2>1, <3>1, <3>2, <3>3, CountSteps
  <2>5. CASE ~(size + w > 0 /\ size + w + next > MaxBytes) /\ Steps("flush") /\ drain.chunk # <<>>
    <3>1. drain'.at = "flush" /\ drain'.lines = drain.lines /\ drain'.chunk = drain.chunk
      BY <2>5, Stepped DEF Place
    <3>2. Places'
      BY <2>5, <3>1 DEF Places
    <3>3. size + w + next <= MaxBytes
      BY <1>0, <2>2, <2>5
    <3>4. Fits'
      BY <2>1, <3>1, <3>3 DEF LogInv, Fits
    <3> QED  BY <1>0, <2>1, <3>1, <3>2, <3>4, CountSteps
  <2>6. CASE ~(size + w > 0 /\ size + w + next > MaxBytes) /\ Buffers
    <3>1. /\ drain'.at = "lines" /\ drain'.chunk = Append(drain.chunk, Head(drain.lines))
          /\ Weight(accepted, drain'.chunk) = w + next
          /\ drain.chunk = <<>> => Len(drain'.chunk) = 1
      BY <2>1, <2>6, Passed, Longer
    <3>2. size + (w + next) <= MaxBytes \/ (size = 0 /\ Len(drain'.chunk) = 1)
      BY <1>0, <2>2, <2>6, <3>1
    <3>3. Places' /\ Fits'
      BY <2>1, <3>1, <3>2 DEF Places, Fits
    <3> QED  BY <1>0, <2>1, <3>1, <3>3, CountSteps
  <2> HIDE DEF w, next
  <2> QED  BY <2>3, <2>4, <2>5, <2>6
<1> QED  BY <1>1, <1>2, <1>3, <1>4, <1>5

LEMMA CountEnds ==
  ASSUME LogInv, Take \/ HandleGone \/ FileFails
  PROVE  Counted'
<1>1. UNCHANGED <<accepted, files, handle, size, path, closed, moves>> /\ failures' \in Nat
  BY DEF LogInv, LogTypes, Take, StaysOpen, HandleGone, FileFails, Give
<1>2. Named' /\ Bounded' /\ handle' \in 0..Len(files') /\ path' \in 0..Len(files')
  BY <1>1, Rests
<1>3. CASE Finish
  <2>1. /\ drain'.at \in {"idle", "take"} /\ drain'.lines = <<>> /\ drain'.chunk = <<>>
        /\ scheduled' \in BOOLEAN /\ timer' \in BOOLEAN
        /\ scheduled' <=> drain'.at # "idle"
        /\ closer' = IF closer = "waiting" THEN "closing" ELSE closer
    BY <1>3, Ends
  <2>2. Places' /\ Fits'
    BY <2>1 DEF Places, Fits
  <2> QED  BY <1>1, <1>2, <2>1, <2>2 DEF Counted, LogInv, LogTypes
<1>4. CASE Take /\ ~Finish
  <2>1. /\ drain.at = "take" /\ queued # <<>>
        /\ drain' = [at |-> "open", lines |-> queued, chunk |-> <<>>]
        /\ UNCHANGED <<timer, scheduled, closer>>
    BY <1>4 DEF Take, At
  <2>2. Places' /\ Fits' /\ drain'.at = "open"
    BY <2>1 DEF Places, Fits
  <2> QED  BY <1>1, <1>2, <2>1, <2>2 DEF Counted, LogInv, LogTypes
<1> QED  BY <1>3, <1>4 DEF HandleGone, FileFails, Give

LEMMA CountOpens ==
  ASSUME LogInv, NEW place \in {"lines", "fresh"}, Opens(place),
         drain.at = IF place = "lines" THEN "open" ELSE "reopen",
         UNCHANGED <<accepted, timer, scheduled, closed, closer, failures, moves>>
  PROVE  Counted'
<1>1. /\ LineTypes /\ Len(files) \in Nat /\ DOMAIN files = 1..Len(files)
      /\ files \in Seq(Seq(Lines)) /\ \A f \in 1..Len(files) : files[f] \in Seq(Lines)
  BY LinesTyped DEF LogInv
<1>2. /\ Weight(accepted, <<>>) = 0
      /\ \A f \in 1..Len(files) : Weight(accepted, files[f]) \in Nat
  BY <1>1, Weights
<1>3. /\ handle \in 0..Len(files) /\ path \in 0..Len(files) /\ size \in Nat
      /\ handle # 0 => handle = Len(files) /\ size = Weight(accepted, files[handle])
      /\ path # 0 => path = Len(files)
      /\ \A f \in 1..Len(files) : Weight(accepted, files[f]) <= MaxBytes \/ Len(files[f]) = 1
  BY <1>1 DEF LogInv, LogTypes, Named, Bounded
<1>4. /\ drain'.at = place /\ drain'.lines = drain.lines /\ drain'.chunk = drain.chunk
      /\ drain.chunk = <<>> /\ (place = "fresh" => drain.lines # <<>> /\ handle = 0 /\ path = 0)
  <2>1. Steps(place) /\ place \in Place
    BY DEF Opens, Place
  <2>2. drain.chunk = <<>> /\ (place = "fresh" => drain.lines # <<>> /\ handle = 0 /\ path = 0)
    BY DEF LogInv, Places
  <2> QED  BY <2>1, <2>2, Stepped
<1>5. ASSUME handle' \in 0..Len(files'), path' \in 0..Len(files'), size' \in Nat,
             Named', Bounded', place = "fresh" => size' = 0
      PROVE  Counted'
  <2>1. Places'
    BY <1>4, <1>5 DEF Places
  <2>2. Fits'
    BY <1>4, NothingBuffered
  <2>3. scheduled' /\ drain'.at # "idle"
    BY <1>4 DEF LogInv, LogTypes
  <2> QED  BY <1>5, <2>1, <2>2, <2>3 DEF Counted, LogInv, LogTypes
<1>6. CASE StillNamed
  <2>1. UNCHANGED <<handle, path, size, files>> /\ handle # 0
    BY <1>6 DEF Opens, StillNamed
  <2> QED  BY <1>3, <1>4, <1>5, <2>1 DEF LogInv, Named, Bounded
<1>7. CASE ~StillNamed /\ path = 0
  <2>1. handle' = Len(files) + 1 /\ path' = Len(files) + 1 /\ files' = Append(files, <<>>) /\ size' = 0
    BY <1>7 DEF Opens
  <2>2. /\ Len(files') = Len(files) + 1 /\ files'[Len(files) + 1] = <<>>
        /\ DOMAIN files' = 1..(Len(files) + 1) /\ \A f \in 1..Len(files) : files'[f] = files[f]
    BY <1>1, <2>1
  <2>3. Named'
    BY <1>1, <1>2, <2>1, <2>2 DEF Named
  <2>4. Bounded'
    <3> SUFFICES ASSUME NEW f \in DOMAIN files'
                 PROVE  Weight(accepted, files'[f]) <= MaxBytes \/ Len(files'[f]) = 1
      BY DEF Bounded
    <3>1. CASE f \in 1..Len(files)
      BY <1>3, <2>2, <3>1
    <3>2. CASE f = Len(files) + 1
      <4>1. Weight(accepted, files'[f]) = 0
        BY <1>2, <2>2, <3>2
      <4> QED  BY <4>1, LogAssumption
    <3> QED  BY <1>1, <2>2, <3>1, <3>2
  <2> QED  BY <1>1, <1>5, <2>1, <2>2, <2>3, <2>4
<1>8. CASE ~StillNamed /\ path # 0
  <2>1. handle' = path /\ path' = path /\ files' = files /\ size' = Weight(accepted, files[path])
    BY <1>8, BytesAre DEF Opens
  <2>2. path = Len(files) /\ path \in 1..Len(files)
    <3>1. Len(files) \in Nat
      BY <1>1
    <3>2. path = Len(files) /\ path # 0
      BY <1>3, <1>8
    <3> QED  BY <3>1, <3>2
  <2>4. Weight(accepted, files[path]) \in Nat
    BY <1>2, <2>2
  <2>3. Named' /\ Bounded'
    BY <1>1, <1>3, <2>1, <2>2 DEF Named, Bounded
  <2> QED  BY <1>3, <1>4, <1>5, <1>8, <2>1, <2>2, <2>3, <2>4
<1> QED  BY <1>6, <1>7, <1>8

LEMMA CountFlush ==
  ASSUME LogInv, NEW old, FlushChunk(old)
  PROVE  Counted'
<1> DEFINE n == Len(files)
           w == Weight(accepted, drain.chunk)
           next == accepted[Head(drain.lines)]
           rotate == /\ At("flushToRotate")
                     /\ size + Buffered > 0
                     /\ old \/ size + Buffered + next > MaxBytes
<1>1. /\ LineTypes /\ n \in Nat /\ DOMAIN files = 1..n
      /\ files \in Seq(Seq(Lines)) /\ \A f \in 1..n : files[f] \in Seq(Lines)
      /\ drain.chunk \in Seq(Lines) /\ drain.lines \in Seq(Lines)
  BY LinesTyped DEF LogInv
<1>2. /\ drain.at \in {"flush", "flushToRotate"} /\ handle # 0
      /\ files' = [files EXCEPT ![handle] = @ \o drain.chunk]
      /\ size' = size + w /\ Buffered = w
      /\ UNCHANGED <<accepted, timer, scheduled, closed, closer, failures, moves, handle, path>>
      /\ drain' = [drain EXCEPT
            !.at = IF rotate THEN "close" ELSE "lines",
            !.lines = IF rotate \/ @ = <<>> THEN @ ELSE Tail(@),
            !.chunk = IF rotate \/ drain.lines = <<>> THEN <<>> ELSE <<Head(drain.lines)>>]
  BY BytesAre DEF FlushChunk, Counts, StaysOpen, Buffered
<1>3. /\ handle = n /\ n # 0 /\ size = Weight(accepted, files[n]) /\ (path # 0 => path = n)
      /\ size \in Nat /\ MaxBytes \in Nat /\ path \in 0..n
      /\ \A f \in 1..n : Weight(accepted, files[f]) <= MaxBytes \/ Len(files[f]) = 1
  BY <1>1, <1>2, LogAssumption DEF LogInv, LogTypes, Named, Bounded
<1>4. w \in Nat /\ w > 0 /\ drain.chunk # <<>>
  <2>1. drain.chunk # <<>>
    BY <1>2 DEF LogInv, Places
  <2> QED  BY <1>1, <2>1, Weights
<1>5. size + w <= MaxBytes \/ (size = 0 /\ Len(drain.chunk) = 1)
  BY <1>4 DEF LogInv, Fits
<1>13. n \in 1..n /\ files[n] \in Seq(Lines)
  <2>1. n \in Nat /\ n # 0
    BY <1>1, <1>3
  <2>2. \A f \in 1..n : files[f] \in Seq(Lines)
    BY <1>1
  <2> HIDE DEF n
  <2> QED  BY <2>1, <2>2
<1>6. /\ Len(files') = n /\ DOMAIN files' = 1..n /\ files'[n] = files[n] \o drain.chunk
      /\ \A f \in 1..n : f # n => files'[f] = files[f]
  <2>1. files[n] \o drain.chunk \in Seq(Lines)
    <3>1. drain.chunk \in Seq(Lines)
      BY <1>1
    <3> QED  BY <1>13, <3>1, Joins, SizesTyped, <1>1
  <2>2. files' = [files EXCEPT ![n] = files[n] \o drain.chunk]
    BY <1>2, <1>3
  <2> HIDE DEF n
  <2>3. /\ Len(files') = Len(files) /\ files' \in Seq(Seq(Lines))
        /\ \A f \in 1..Len(files) : files'[f] = IF f = n THEN files[n] \o drain.chunk ELSE files[f]
    BY <1>1, <1>13, <2>1, <2>2, ExceptSeq DEF n
  <2>4. DOMAIN files' = 1..Len(files')
    BY <2>3
  <2>5. Len(files') = n
    BY <2>3 DEF n
  <2> QED  BY <1>13, <2>3, <2>4, <2>5 DEF n
<1>7. Weight(accepted, files'[n]) = size + w
  <2>1. Before(files[n], drain.chunk)
    BY <1>1, <1>13 DEF LogInv, Orders, InLine
  <2>2. Weight(accepted, files[n] \o drain.chunk) = Weight(accepted, files[n]) + w
    BY <1>1, <1>13, <2>1, Weights
  <2> QED  BY <1>3, <1>6, <2>2
<1>8. Named'
  BY <1>2, <1>3, <1>6, <1>7 DEF Named
<1>9. Bounded'
  <2> SUFFICES ASSUME NEW f \in 1..n
               PROVE  Weight(accepted, files'[f]) <= MaxBytes \/ Len(files'[f]) = 1
    BY <1>2, <1>6 DEF Bounded
  <2>1. CASE f # n
    BY <1>3, <1>6, <2>1
  <2>2. CASE f = n /\ size + w <= MaxBytes
    BY <1>7, <2>2
  <2>3. CASE f = n /\ size = 0 /\ Len(drain.chunk) = 1
    <3>1. Weight(accepted, files[n]) = 0
      BY <1>3, <2>3
    <3>2. files[n] = <<>>
      BY <1>1, <1>13, <3>1, Weights
    <3>3. <<>> \o drain.chunk = drain.chunk
      BY <1>1, ConcatEmptySeq
    <3> QED  BY <1>6, <2>3, <3>2, <3>3
  <2> QED  BY <1>5, <2>1, <2>2, <2>3
<1>10. drain \in [at : Place, lines : Seq(Lines), chunk : Seq(Lines)]
  BY <1>1 DEF LineTypes
<1>11. CASE rotate
  <2>1. drain'.at = "close" /\ drain'.lines = drain.lines /\ drain'.chunk = <<>>
    BY <1>2, <1>10, <1>11
  <2>2. drain.lines # <<>>
    BY <1>11 DEF LogInv, Places, At
  <2>3. Places' /\ Fits'
    BY <2>1, <2>2 DEF Places, Fits
  <2>4. scheduled' /\ scheduled \in BOOLEAN
    BY <1>2 DEF LogInv, LogTypes
  <2> QED  BY <1>1, <1>2, <1>3, <1>4, <1>6, <1>8, <1>9, <2>1, <2>3, <2>4 DEF Counted, LogInv, LogTypes
<1>12. CASE ~rotate
  <2>1. /\ drain'.at = "lines"
        /\ drain'.chunk = IF drain.lines = <<>> THEN <<>> ELSE <<Head(drain.lines)>>
    BY <1>2, <1>10, <1>12
  <2>2. Places'
    BY <2>1 DEF Places
  <2>3. ASSUME drain.lines # <<>> PROVE size + w + next <= MaxBytes /\ next \in Nat
    <3>1. next \in Nat
      BY <2>3, Longer
    <3>2. CASE drain.at = "flush"
      BY <1>4, <2>3, <3>1, <3>2 DEF LogInv, Fits
    <3>3. CASE drain.at = "flushToRotate"
      BY <1>2, <1>3, <1>4, <1>12, <3>1, <3>3 DEF At
    <3> QED  BY <1>2, <3>1, <3>2, <3>3
  <2>4. Fits'
    <3>1. CASE drain.lines = <<>>
      BY <2>1, <3>1 DEF Fits
    <3>2. CASE drain.lines # <<>>
      <4>1. Head(drain.lines) \in Lines
        BY <3>2, Longer
      <4>2. Weight(accepted, <<Head(drain.lines)>>) = next
        BY <1>1, <4>1, Weights
      <4>3. drain'.chunk = <<Head(drain.lines)>>
        BY <2>1, <3>2
      <4>4. size' + Weight(accepted, drain'.chunk) <= MaxBytes
        BY <1>2, <2>3, <3>2, <4>2, <4>3
      <4> QED  BY <1>2, <2>1, <4>4 DEF Fits
    <3> QED  BY <3>1, <3>2
  <2>5. scheduled' /\ scheduled \in BOOLEAN
    BY <1>2 DEF LogInv, LogTypes
  <2> QED  BY <1>1, <1>2, <1>3, <1>4, <1>6, <1>8, <1>9, <2>1, <2>2, <2>4, <2>5 DEF Counted, LogInv, LogTypes
<1> QED  BY <1>11, <1>12

LEMMA LogKeepsInv ==
  ASSUME LogInv, LogAny
  PROVE  LogInv'
<1>1. LineTypes' /\ Orders'
  BY LinesStep
<1>2. ASSUME EnsureOpen PROVE Counted'
  <2>1. /\ drain.at = "open" /\ Opens("lines")
        /\ UNCHANGED <<accepted, timer, scheduled, closed, closer, failures, moves>>
    BY <1>2 DEF EnsureOpen, At, StaysOpen
  <2> QED  BY <2>1, CountOpens
<1>3. ASSUME Reopen PROVE Counted'
  <2>1. /\ drain.at = "reopen" /\ Opens("fresh")
        /\ UNCHANGED <<accepted, timer, scheduled, closed, closer, failures, moves>>
    BY <1>3 DEF Reopen, At, StaysOpen
  <2> QED  BY <2>1, CountOpens
<1>4. Counted'
  BY <1>2, <1>3, CountWriteLine, CountAside, CountLines, CountEnds, CountFlush
  DEF LogAny, LogNext, DrainSteps
<1> QED  BY <1>1, <1>4 DEF Counted, LogInv

LEMMA LogBegins == LogInit => LogInv
<1> SUFFICES ASSUME LogInit PROVE LogInv
  OBVIOUS
<1>1. /\ accepted = <<>> /\ queued = <<>> /\ files = <<>> /\ handle = 0 /\ path = 0 /\ size = 0
      /\ drain = [at |-> "idle", lines |-> <<>>, chunk |-> <<>>]
      /\ timer = FALSE /\ scheduled = FALSE /\ closed = FALSE
      /\ closer = "none" /\ failures = 0 /\ moves = 0
  BY DEF LogInit, Rest
<1>2. LineTypes
  BY <1>1 DEF LineTypes, Place
<1>3. Orders
  BY <1>1 DEF Orders, InLine, Increasing, Before
<1>4. LogTypes
  <2>1. Len(files) = 0
    BY <1>1
  <2>2. handle \in 0..Len(files) /\ path \in 0..Len(files) /\ size \in Nat
    BY <1>1, <2>1
  <2>3. drain.at = "idle"
    BY <1>1
  <2> QED  BY <1>1, <2>2, <2>3 DEF LogTypes
<1>5. Places /\ Named /\ Fits /\ Bounded
  BY <1>1 DEF Places, Named, Fits, Bounded
<1> QED  BY <1>2, <1>3, <1>4, <1>5 DEF LogInv

(***************************************************************************)
(* ServerProcess: no line is lost unless an operation fails                *)
(***************************************************************************)
LEMMA Splits ==
  ASSUME NEW S, NEW l \in Seq(S), l # <<>>
  PROVE  /\ <<Head(l)>> \in Seq(S) /\ Tail(l) \in Seq(S) /\ l = <<Head(l)>> \o Tail(l)
         /\ Range(l) = Range(<<Head(l)>>) \cup Range(Tail(l))
<1>1. Head(l) \in S /\ Tail(l) \in Seq(S)
  OBVIOUS
<1>2. l = <<Head(l)>> \o Tail(l)
  BY <1>1
<1>3. <<Head(l)>> \in Seq(S) /\ Tail(l) \in Seq(S)
  BY <1>1
<1>4. Range(<<Head(l)>> \o Tail(l)) = Range(<<Head(l)>>) \cup Range(Tail(l))
  <2> DEFINE h == <<Head(l)>>  t == Tail(l)
  <2> HIDE DEF h, t
  <2>1. h \in Seq(S) /\ t \in Seq(S)
    BY <1>3 DEF h, t
  <2>2. Range(h \o t) = Range(h) \cup Range(t)
    BY <2>1, RangeConcatenation
  <2> QED  BY <2>2 DEF h, t
<1> QED  BY <1>2, <1>3, <1>4

LEMMA Moves ==
  ASSUME NEW S, NEW c \in Seq(S), NEW l \in Seq(S), l # <<>>
  PROVE  Range(Append(c, Head(l))) \cup Range(Tail(l)) = Range(c) \cup Range(l)
<1> DEFINE h == <<Head(l)>>
<1>1. h \in Seq(S) /\ Range(l) = Range(h) \cup Range(Tail(l))
  BY Splits
<1>2. Append(c, Head(l)) = c \o h
  BY AppendIsConcat
<1> HIDE DEF h
<1>3. Range(c \o h) = Range(c) \cup Range(h)
  BY <1>1, RangeConcatenation
<1> QED  BY <1>1, <1>2, <1>3

LEMMA OnTheWay ==
  ASSUME LogInv, LogAny, ~HandleGone, ~FileFails,
         \A l \in Lines : l \in OnDisk \cup Range(drain.chunk) \cup Range(drain.lines) \cup Range(queued)
  PROVE  (\A l \in Lines : l \in OnDisk \cup Range(drain.chunk) \cup Range(drain.lines) \cup Range(queued))'
<1>1. /\ queued \in Seq(Lines) /\ drain.lines \in Seq(Lines) /\ drain.chunk \in Seq(Lines)
      /\ DOMAIN files = 1..Len(files) /\ Len(files) \in Nat /\ files \in Seq(Seq(Lines))
      /\ \A f \in 1..Len(files) : files[f] \in Seq(Lines)
      /\ Lines = 1..Len(accepted) /\ Len(accepted) \in Nat /\ accepted \in Seq(Sizes) /\ Lines \subseteq Nat
  BY LinesTyped, SizesTyped DEF LogInv, LineTypes, Lines
<1>2. accepted' = accepted => Lines' = Lines
  BY DEF Lines
<1>3. files' = files => OnDisk' = OnDisk
  BY DEF OnDisk
<1>4. Range(<<>>) = {}
  BY DEF Range
<1>5. CASE Keeps
  BY <1>2, <1>3, <1>5 DEF Keeps
<1>6. CASE Drops
  BY <1>2, <1>3, <1>6 DEF Drops
<1>7. CASE Queues
  <2>1. PICK s \in Sizes : accepted' = Append(accepted, s)
    BY <1>7 DEF Queues
  <2>2. Lines' = Lines \cup {Len(accepted) + 1}
    <3>1. Len(accepted') = Len(accepted) + 1
      BY <1>1, <2>1
    <3> QED  BY <1>1, <3>1 DEF Lines
  <2>3. Range(queued') = Range(queued) \cup {Len(accepted) + 1}
    <3> DEFINE S == Lines \cup {Len(accepted) + 1}
               h == <<Len(accepted) + 1>>
    <3>1. queued \in Seq(S) /\ Len(accepted) + 1 \in S
      <4>1. Lines \subseteq S
        OBVIOUS
      <4> QED  BY <1>1, <4>1, SeqMonotonic
    <3>2. h \in Seq(S) /\ Append(queued, Len(accepted) + 1) = queued \o h
      <4> HIDE DEF S
      <4> QED  BY <3>1, AppendIsConcat
    <3>3. Range(h) = {Len(accepted) + 1}
      BY DEF Range
    <3>4. Range(queued \o h) = Range(queued) \cup Range(h)
      <4> HIDE DEF S, h
      <4> QED  BY <3>1, <3>2, RangeConcatenation
    <3> QED  BY <1>7, <3>2, <3>3, <3>4 DEF Queues
  <2> QED  BY <1>3, <1>7, <2>2, <2>3 DEF Queues
<1>8. CASE Takes
  BY <1>2, <1>3, <1>4, <1>8 DEF Takes
<1>9. CASE Passes
  <2>1. Range(drain'.chunk) \cup Range(drain'.lines) = Range(drain.chunk) \cup Range(drain.lines)
    <3>1. drain.chunk \in Seq(Lines) /\ drain.lines \in Seq(Lines) /\ drain.lines # <<>>
      BY <1>1, <1>9 DEF Passes
    <3>2. Range(Append(drain.chunk, Head(drain.lines))) \cup Range(Tail(drain.lines))
            = Range(drain.chunk) \cup Range(drain.lines)
      BY <3>1, Moves
    <3> QED  BY <1>9, <3>2 DEF Passes
  <2> QED  BY <1>2, <1>3, <1>9, <2>1 DEF Passes
<1>10. CASE Puts
  <2> DEFINE n == Len(files)
  <2>1. n \in 1..n /\ files' = [files EXCEPT ![n] = @ \o drain.chunk] /\ files # <<>>
    BY <1>1, <1>10 DEF Puts
  <2>2. /\ files'[n] = files[n] \o drain.chunk /\ \A f \in 1..n : f # n => files'[f] = files[f]
        /\ DOMAIN files' = 1..n
    BY <1>1, <2>1
  <2> HIDE DEF n
  <2>3. Range(files[n] \o drain.chunk) = Range(files[n]) \cup Range(drain.chunk)
    <3>1. files[n] \in Seq(Lines)
      BY <1>1, <2>1 DEF n
    <3> QED  BY <1>1, <3>1, RangeConcatenation
  <2>4. OnDisk \cup Range(drain.chunk) \subseteq OnDisk'
    <3>1. ASSUME NEW f \in 1..n PROVE Range(files[f]) \subseteq Range(files'[f])
      BY <2>2, <2>3
    <3>2. Range(drain.chunk) \subseteq Range(files'[n])
      BY <2>2, <2>3
    <3>3. DOMAIN files = 1..n
      BY <1>1 DEF n
    <3> QED  BY <2>1, <2>2, <3>1, <3>2, <3>3 DEF OnDisk
  <2>5. Range(drain.lines) \subseteq Range(drain'.chunk) \cup Range(drain'.lines)
    <3>1. CASE drain'.lines = drain.lines
      BY <3>1
    <3>2. CASE /\ drain.lines # <<>> /\ drain'.lines = Tail(drain.lines)
               /\ drain'.chunk = <<Head(drain.lines)>>
      <4>1. drain.lines \in Seq(Lines)
        BY <1>1
      <4>2. Range(drain.lines) = Range(<<Head(drain.lines)>>) \cup Range(Tail(drain.lines))
        BY <3>2, <4>1, Splits
      <4> QED  BY <3>2, <4>1, <4>2
    <3> QED  BY <1>10, <3>1, <3>2 DEF Puts
  <2> QED  BY <1>2, <1>10, <2>4, <2>5 DEF Puts
<1>11. CASE Creates
  <2>1. /\ DOMAIN files' = 1..(Len(files) + 1) /\ \A f \in 1..Len(files) : files'[f] = files[f]
    BY <1>1, <1>11, LineOpens DEF Creates, LogInv, Orders
  <2>2. OnDisk \subseteq OnDisk'
    BY <1>1, <2>1 DEF OnDisk
  <2> QED  BY <1>2, <1>11, <2>2 DEF Creates
<1> QED
  BY <1>5, <1>6, <1>7, <1>8, <1>9, <1>10, <1>11, Kinds

\* What is opened is a file.
LEMMA OpensOne ==
  ASSUME LogInv, NEW place \in Place, Opens(place)
  PROVE  handle' # 0 /\ drain'.at = place
<1>1. Len(files) + 1 # 0
  <2>1. Len(files) \in Nat
    BY LinesTyped DEF LogInv
  <2> QED  BY <2>1
<1>2. drain'.at = place
  BY Stepped DEF Opens
<1> QED  BY <1>1, <1>2 DEF Opens, StillNamed

LEMMA NotGone == ASSUME Accounted PROVE ~HandleGone
BY DEF Accounted, HandleGone, At

LEMMA StaysAccounted ==
  ASSUME LogInv, closed = (closer # "none"), Accounted, LogAny, failures' = failures
  PROVE  Accounted'
<1>1. ~HandleGone /\ ~FileFails
  <2>1. ~FileFails
    BY DEF FileFails, LogInv, LogTypes
  <2> QED  BY <2>1, NotGone
<1>2. (\A l \in Lines : l \in OnDisk \cup Range(drain.chunk) \cup Range(drain.lines) \cup Range(queued))'
  BY <1>1, OnTheWay DEF Accounted
<1> DEFINE Over == closer \in {"closing", "done"} => drain.at = "idle" /\ queued = <<>>
           Open == drain.at \in {"lines", "flush", "flushToRotate", "close", "fresh"} => handle # 0
<1>3. Over /\ Open
  BY DEF Accounted
<1>4. ASSUME NEW s \in Sizes, WriteLine(s) PROVE Over' /\ Open'
  <2>1. CASE closed
    BY <1>3, <1>4, <2>1 DEF WriteLine, logVars
  <2>2. CASE ~closed
    <3>1. UNCHANGED <<closer, handle>> /\ (drain' = drain \/ drain' = Start(Append(queued, Len(accepted) + 1)))
      BY <1>4, <2>2 DEF WriteLine
    <3>2. drain' = drain \/ drain'.at = "take"
      BY <3>1, Starts
    <3> QED  BY <1>3, <2>2, <3>1, <3>2
  <2> QED  BY <2>1, <2>2
<1>5. ASSUME CloseLog \/ FlushTimer PROVE Over' /\ Open'
  <2>1. UNCHANGED <<queued, handle>> /\ drain' = Start(queued)
    BY <1>5 DEF CloseLog, DrainsToClose, FlushTimer
  <2>2. drain' = drain \/ drain'.at = "take"
    BY <2>1, Starts
  <2>3. CASE FlushTimer
    <3>1. closer' = closer
      BY <2>3 DEF FlushTimer
    <3>2. queued = <<>> => drain' = drain
      BY <2>1 DEF Start
    <3> QED  BY <1>3, <2>1, <2>2, <3>1, <3>2
  <2>4. CASE CloseLog
    <3>1. closer' = IF Schedules(queued) THEN "waiting" ELSE "closing"
      BY <2>4 DEF CloseLog, DrainsToClose
    <3>2. ~Schedules(queued) => queued = <<>> /\ ~scheduled
      BY DEF Schedules
    <3>3. ~scheduled => drain.at = "idle"
      BY DEF LogInv, LogTypes
    <3>4. ~Schedules(queued) => drain' = drain
      BY <2>1, <3>2 DEF Start
    <3> QED  BY <1>3, <2>1, <2>2, <3>1, <3>2, <3>3, <3>4
  <2> QED  BY <1>5, <2>3, <2>4
<1>6. ASSUME CloseHandle \/ MovedAway \/ UNCHANGED logVars PROVE Over' /\ Open'
  BY <1>3, <1>6 DEF CloseHandle, MovedAway, logVars
<1>7. ASSUME Take PROVE Over' /\ Open'
  <2>1. CASE queued # <<>>
    <3>1. drain'.at = "open" /\ closer' = closer /\ drain.at = "take"
      BY <1>7, <2>1 DEF Take, At
    <3> QED  BY <1>3, <3>1
  <2>2. CASE queued = <<>>
    <3>1. Finish /\ queued' = queued
      BY <1>7, <2>2 DEF Take
    <3>2. drain'.at = "idle"
      BY <2>2, <3>1 DEF Finish, DrainsAgain, Rest
    <3> QED  BY <2>2, <3>1, <3>2
  <2> QED  BY <2>1, <2>2
<1>8. ASSUME EnsureOpen \/ Reopen PROVE Over' /\ Open'
  <2>1. closer' = closer /\ drain.at # "idle" /\ (Opens("lines") \/ Opens("fresh"))
    BY <1>8 DEF EnsureOpen, Reopen, At
  <2>2. handle' # 0
    BY <2>1, OpensOne DEF Place
  <2> QED  BY <1>3, <2>1, <2>2
<1>9. ASSUME \E old : NextLine(old) \/ FlushChunk(old) PROVE Over' /\ Open'
  <2>1. /\ closer' = closer /\ handle' = handle
        /\ drain.at \in {"lines", "flush", "flushToRotate"}
    BY <1>9 DEF NextLine, FlushChunk, At
  <2> QED  BY <1>3, <2>1
<1>10. ASSUME LastFlush \/ FirstLine PROVE Over' /\ Open'
  <2>1. closer' = closer /\ handle' = handle /\ drain.at \in {"lines", "fresh"}
    BY <1>10 DEF LastFlush, FirstLine, At
  <2> QED  BY <1>3, <2>1
<1>11. ASSUME RotateClose \/ RotateRename PROVE Over' /\ Open'
  <2>1. closer' = closer /\ drain.at \in {"close", "rename"} /\ (Steps("rename") \/ Steps("reopen"))
    BY <1>11 DEF RotateClose, RotateRename, At
  <2>2. drain'.at \in {"rename", "reopen"}
    BY <2>1, Stepped DEF Place
  <2> QED  BY <1>3, <2>1, <2>2
<1>12. Over' /\ Open'
  BY <1>1, <1>4, <1>5, <1>6, <1>7, <1>8, <1>9, <1>10, <1>11 DEF LogAny, LogNext, DrainSteps
<1> QED  BY <1>2, <1>12 DEF Accounted

(***************************************************************************)
(* ServerProcess: the invariant                                            *)
(***************************************************************************)
\* What a step of the log does to what the server knows of it.
LEMMA LogAlone ==
  ASSUME LogInv, closed = (closer # "none"), LogAny
  PROVE  /\ closed' = (closer' # "none") /\ Lines \subseteq Lines'
         /\ failures' \in Nat /\ (failures' = 0 => failures = 0)
         /\ ~CloseLog => closed' = closed
<1>1. /\ closed' = (closer' # "none")
      /\ ~CloseLog => closed' = closed
      /\ failures' = failures \/ failures' = failures + 1
  <2>1. CASE \E s \in Sizes : WriteLine(s)
    BY <2>1 DEF WriteLine, logVars
  <2>2. CASE CloseLog
    BY <2>2 DEF CloseLog, DrainsToClose
  <2>3. CASE UNCHANGED logVars \/ FlushTimer \/ CloseHandle \/ MovedAway
    BY <2>3 DEF logVars, FlushTimer, CloseHandle, MovedAway
  <2>4. CASE DrainSteps \/ FileFails
    <3>1. /\ closed' = closed
          /\ failures' = failures \/ failures' = failures + 1
          /\ closer' = closer \/ (closer = "waiting" /\ closer' = "closing")
      BY <2>4
      DEF DrainSteps, Take, EnsureOpen, LastFlush, RotateClose, RotateRename, Reopen, FirstLine,
          HandleGone, FileFails, NextLine, FlushChunk, StaysOpen, Give, Finish
    <3> QED  BY <3>1
  <2> QED  BY <2>1, <2>2, <2>3, <2>4 DEF LogAny, LogNext
<1>2. Lines \subseteq Lines'
  <2>1. accepted' = accepted \/ \E s \in Sizes : accepted' = Append(accepted, s)
    BY Kinds DEF Keeps, Drops, Queues, Takes, Passes, Puts, Creates
  <2>2. accepted \in Seq(Sizes) /\ Len(accepted) \in Nat
    BY SizesTyped DEF LogInv, LineTypes
  <2>3. Len(accepted') = Len(accepted) \/ Len(accepted') = Len(accepted) + 1
    BY <2>1, <2>2
  <2> QED  BY <2>2, <2>3 DEF Lines
<1> QED  BY <1>1, <1>2 DEF LogInv, LogTypes

LEMMA LogsOne ==
  ASSUME LogInv, Logs, ~closed
  PROVE  Len(accepted) + 1 \in Lines'
<1>1. PICK s \in Sizes : accepted' = Append(accepted, s)
  BY DEF Logs, WriteLine
<1>2. Len(accepted) \in Nat /\ accepted \in Seq(Sizes)
  BY SizesTyped DEF LogInv, LineTypes
<1>3. Len(accepted') = Len(accepted) + 1
  BY <1>1, <1>2
<1> QED  BY <1>2, <1>3 DEF Lines

LEMMA ServerLogs == Next => LogAny
BY DEF Next, Arrive, Respond, Disconnect, Settle, Signal, Drained, WatchdogGone, CleanExit,
       ForcedExit, LogStep, LogAny, Logs

LEMMA ServerStep == ServerInv /\ [Next]_vars => ServerInv'
<1> SUFFICES ASSUME ServerInv, [Next]_vars PROVE ServerInv'
  OBVIOUS
<1>1. /\ LogInv /\ Stopped /\ closed = (closer # "none") /\ (closed => drained)
      /\ drained => (Connected = {} /\ ~listening)
      /\ \A r \in Requests : Ended(r) => ends[r] \in Lines
      /\ request \in [Requests -> {"none", "active", "answered", "gone"}]
      /\ ends \in [Requests -> Nat]
  BY DEF ServerInv, Stopped
<1>2. LogAny
  BY ServerLogs DEF LogAny, vars
<1>3. LogInv'
  BY <1>1, <1>2, LogKeepsInv
<1>4. /\ closed' = (closer' # "none") /\ Lines \subseteq Lines'
      /\ failures' \in Nat /\ (failures' = 0 => failures = 0)
      /\ ~CloseLog => closed' = closed
  BY <1>1, <1>2, LogAlone
<1>5. failures' = 0 => Accounted'
  BY <1>1, <1>2, <1>4, StaysAccounted DEF ServerInv
<1> SUFFICES /\ Stopped'
             /\ request' \in [Requests -> {"none", "active", "answered", "gone"}]
             /\ ends' \in [Requests -> Nat]
             /\ listening' \in BOOLEAN /\ drained' \in BOOLEAN /\ exit' \in {"no", "clean", "forced"}
  BY <1>3, <1>5 DEF ServerInv
<1>6. Len(accepted) + 1 \in Nat
  <2>1. Len(accepted) \in Nat
    BY <1>1, SizesTyped DEF LogInv
  <2> QED  BY <2>1
\* A step that changes no request, and leaves the log open as it was.
<1>7. ASSUME UNCHANGED <<request, ends, drained, exit>>, listening' \in {FALSE, listening}, ~CloseLog,
             exit = "clean" => closer' = closer
      PROVE  Stopped'
  <2>1. Connected' = Connected /\ \A r \in Requests : Ended(r)' = Ended(r)
    BY <1>7 DEF Connected, Ended
  <2>2. /\ closed' => drained'
        /\ drained' => (Connected' = {} /\ ~listening')
        /\ exit' = "clean" => drained' /\ closer' \in {"closing", "done"}
    <3>1. closed' => drained'
      BY <1>1, <1>4, <1>7
    <3>2. drained' => (Connected' = {} /\ ~listening')
      BY <1>1, <1>7, <2>1
    <3>3. exit = "clean" => drained /\ closer \in {"closing", "done"}
      BY <1>1 DEF Stopped
    <3>4. exit' = exit /\ drained' = drained
      BY <1>7
    <3>5. exit' = "clean" => drained' /\ closer' \in {"closing", "done"}
      BY <1>7, <3>3, <3>4
    <3> QED  BY <3>1, <3>2, <3>5
  <2>3. \A r \in Requests : Ended(r)' => ends'[r] \in Lines'
    BY <1>1, <1>4, <1>7, <2>1
  <2> QED  BY <1>4, <2>2, <2>3 DEF Stopped
\* A request moves on: somebody is connected still.
<1>8. ASSUME NEW r \in Requests, NEW to \in {"active", "answered", "gone"}, Alive,
             ~drained, ~CloseLog,
             request' = [request EXCEPT ![r] = to],
             \/ ends' = ends /\ (to = "active" \/ Ended(r))
             \/ ends' = [ends EXCEPT ![r] = NextEnd] /\ Logs,
             UNCHANGED <<listening, drained, exit>>
      PROVE  /\ Stopped' /\ ends' \in [Requests -> Nat]
             /\ request' \in [Requests -> {"none", "active", "answered", "gone"}]
  <2>1. ~closed /\ ~closed' /\ exit' = "no" /\ ~drained'
    BY <1>1, <1>4, <1>8 DEF Alive
  <2>2. NextEnd = Len(accepted) + 1
    BY <2>1 DEF NextEnd
  <2>3. ends' \in [Requests -> Nat] /\ request' \in [Requests -> {"none", "active", "answered", "gone"}]
    BY <1>1, <1>6, <1>8, <2>2
  <2>4. ASSUME NEW q \in Requests, Ended(q)' PROVE ends'[q] \in Lines'
    <3>1. CASE q # r
      <4>1. Ended(q) /\ ends'[q] = ends[q]
        BY <1>1, <1>8, <2>4, <3>1 DEF Ended
      <4> QED  BY <1>1, <1>4, <4>1
    <3>2. CASE q = r /\ ends' = ends /\ Ended(r)
      BY <1>1, <1>4, <3>2
    <3>3. CASE q = r /\ to = "active"
      BY <1>1, <1>8, <2>4, <3>3 DEF Ended
    <3>4. CASE q = r /\ ends' = [ends EXCEPT ![r] = NextEnd] /\ Logs
      <4>1. ends'[q] = Len(accepted) + 1
        BY <1>1, <2>2, <3>4
      <4> QED  BY <1>1, <2>1, <3>4, <4>1, LogsOne
    <3> QED  BY <1>8, <3>1, <3>2, <3>3, <3>4
  <2> QED  BY <1>4, <2>1, <2>3, <2>4 DEF Stopped
<1>9. ~drained \/ \A r \in Requests : request[r] \notin {"active", "answered"}
  BY <1>1 DEF Connected
<1>10. Logs => ~CloseLog \/ closed
  BY DEF Logs, WriteLine, CloseLog
<1>11. CloseLog => ~closed
  BY DEF CloseLog
<1>12. ASSUME NEW r \in Requests, Arrive(r) PROVE Stopped' /\ ends' \in [Requests -> Nat]
               /\ request' \in [Requests -> {"none", "active", "answered", "gone"}]
  BY <1>1, <1>8, <1>12, <1>10, <1>11 DEF Arrive
<1>13. ASSUME NEW r \in Requests, Respond(r) PROVE Stopped' /\ ends' \in [Requests -> Nat]
               /\ request' \in [Requests -> {"none", "active", "answered", "gone"}]
  BY <1>8, <1>9, <1>13, <1>10, <1>11 DEF Respond
<1>14. ASSUME NEW r \in Requests, Disconnect(r) PROVE Stopped' /\ ends' \in [Requests -> Nat]
               /\ request' \in [Requests -> {"none", "active", "answered", "gone"}]
  <2>1. CASE request[r] = "active"
    BY <1>8, <1>9, <1>14, <1>10, <1>11, <2>1 DEF Disconnect
  <2>2. CASE request[r] = "answered"
    <3>1. UNCHANGED logVars /\ ends' = ends
      BY <1>14, <2>2 DEF Disconnect
    <3>2. ~CloseLog
      BY <3>1 DEF logVars, CloseLog
    <3> QED  BY <1>8, <1>9, <1>14, <2>2, <3>1, <3>2 DEF Disconnect, Ended
  <2> QED  BY <1>14, <2>1, <2>2 DEF Disconnect
<1>15. CASE UNCHANGED vars \/ WatchdogGone \/ \E r \in Requests : Settle(r)
  <2>1. /\ UNCHANGED logVars /\ UNCHANGED <<request, ends, drained, exit, listening>>
    BY <1>15 DEF vars, serverVars, WatchdogGone, Settle
  <2>2. ~CloseLog /\ closer' = closer
    BY <2>1 DEF logVars, CloseLog
  <2> QED  BY <1>1, <1>7, <2>1, <2>2 DEF ServerInv
<1>16. CASE Signal
  <2>1. /\ UNCHANGED <<request, ends, drained, exit>> /\ listening' = FALSE /\ Logs /\ exit = "no"
    BY <1>16 DEF Signal, Alive
  <2>2. ~CloseLog
    BY <1>10, <1>11, <2>1
  <2> QED  BY <1>1, <1>7, <2>1, <2>2 DEF ServerInv
<1>17. CASE LogStep
  <2>1. /\ UNCHANGED <<request, ends, drained, exit, listening>> /\ exit = "no" /\ LogNext
    BY <1>17 DEF LogStep, Alive, serverVars
  <2>2. ~CloseLog
    BY <2>1
    DEF CloseLog, LogNext, FlushTimer, CloseHandle, MovedAway, DrainSteps, Take, EnsureOpen,
        LastFlush, RotateClose, RotateRename, Reopen, FirstLine, HandleGone, FileFails, NextLine,
        FlushChunk, StaysOpen, Give
  <2> QED  BY <1>1, <1>7, <2>1, <2>2 DEF ServerInv
<1>18. CASE Drained
  <2>1. /\ UNCHANGED <<request, ends, listening, exit>> /\ drained' = TRUE /\ exit = "no"
        /\ ~listening /\ Connected = {}
    BY <1>18 DEF Drained, Alive, MayDrain
  <2>2. Connected' = Connected /\ \A r \in Requests : Ended(r)' = Ended(r)
    BY <2>1 DEF Connected, Ended
  <2>3. Stopped'
    BY <1>1, <1>4, <2>1, <2>2 DEF Stopped
  <2> QED  BY <1>1, <2>1, <2>3 DEF ServerInv
<1>19. CASE CleanExit \/ ForcedExit
  <2>1. /\ UNCHANGED logVars /\ UNCHANGED <<request, ends, listening, drained>>
        /\ \/ exit' = "forced"
           \/ exit' = "clean" /\ drained /\ closer \in {"closing", "done"}
    BY <1>19 DEF CleanExit, ForcedExit, MayExit, LogClosed
  <2>2. /\ Connected' = Connected /\ (\A r \in Requests : Ended(r)' = Ended(r))
        /\ closer' = closer /\ closed' = closed
    BY <2>1 DEF Connected, Ended, logVars
  <2>3. Stopped'
    BY <1>1, <1>4, <2>1, <2>2 DEF Stopped
  <2> QED  BY <1>1, <2>1, <2>3 DEF ServerInv
<1>20. /\ \A r \in Requests : Arrive(r) \/ Respond(r) \/ Disconnect(r)
            => UNCHANGED <<listening, drained, exit>>
       /\ listening \in BOOLEAN /\ drained \in BOOLEAN /\ exit \in {"no", "clean", "forced"}
  BY DEF Arrive, Respond, Disconnect, ServerInv
<1> QED
  BY <1>12, <1>13, <1>14, <1>15, <1>16, <1>17, <1>18, <1>19, <1>20 DEF Next

LEMMA ServerStarts == MCInit => ServerInv
<1> SUFFICES ASSUME MCInit PROVE ServerInv
  OBVIOUS
<1>1. /\ LogInit /\ request = [r \in Requests |-> "none"] /\ ends = [r \in Requests |-> 0]
      /\ listening = TRUE /\ drained = FALSE /\ exit \in {"no", "forced"}
  BY DEF MCInit, Init, Begins
<1>2. LogInv
  BY <1>1, LogBegins
<1>3. Stopped
  BY <1>1 DEF Stopped, LogInit, Ended
<1>4. Accounted
  <2>1. accepted = <<>> /\ closer = "none" /\ drain.at = "idle"
    BY <1>1 DEF LogInit, Rest
  <2>2. Lines = {}
    BY <2>1 DEF Lines
  <2> QED  BY <2>1, <2>2 DEF Accounted
<1> QED  BY <1>1, <1>2, <1>3, <1>4 DEF ServerInv

LEMMA ServerStays == ASSUME ServerInv, UNCHANGED vars PROVE ServerInv'
BY ServerStep

\* The lines of the transport log stand in their files in the order in which they were
\* accepted and none twice, no file outgrows its limit but by a line longer than a file, and
\* a process that exits with 0 leaves nobody unanswered and, unless a file operation failed,
\* no end of a request unwritten: however batches, rotations, failures, the close of the log
\* and the signals fall together (writeLine, drainQueued, writeBatch, rotate, close, stop).
THEOREM LogHolds == MCSpec => []LogIsSound
<1>1. MCInit => ServerInv
  BY ServerStarts
<1>2. ServerInv /\ [MCNext]_<<vars, watch, syncVars, runs>> => ServerInv'
  BY ServerStep, ServerStays DEF MCNext
<1>3. ASSUME ServerInv PROVE LogIsSound
  <2>1. LinesInOrder
    BY <1>3 DEF ServerInv, LogInv, Orders, InLine, LinesInOrder
  <2>2. FilesStayBounded
    BY <1>3, BytesAre DEF ServerInv, LogInv, Bounded, FilesStayBounded
  <2>3. CleanExitLeavesNothing
    <3> SUFFICES ASSUME exit = "clean", NEW r \in Requests
                 PROVE  /\ request[r] # "active"
                        /\ Ended(r) /\ failures = 0 => ends[r] \in OnDisk
      BY DEF CleanExitLeavesNothing
    <3>1. /\ Connected = {} /\ closer \in {"closing", "done"}
          /\ Ended(r) => ends[r] \in Lines
      BY <1>3 DEF ServerInv, Stopped
    <3>2. request[r] # "active"
      BY <3>1 DEF Connected
    <3>3. ASSUME failures = 0 PROVE Lines \subseteq OnDisk
      <4>1. Accounted /\ drain.at = "idle" /\ queued = <<>>
        BY <1>3, <3>1, <3>3 DEF ServerInv, Accounted
      <4>2. drain.lines = <<>> /\ drain.chunk = <<>>
        BY <1>3, <4>1 DEF ServerInv, LogInv, Places
      <4>3. Range(<<>>) = {}
        BY DEF Range
      <4> QED  BY <4>1, <4>2, <4>3 DEF Accounted
    <3> QED  BY <3>1, <3>2, <3>3
  <2> QED  BY <2>1, <2>2, <2>3 DEF LogIsSound
<1> QED  BY <1>1, <1>2, <1>3, PTL DEF MCSpec

(***************************************************************************)
(* SyncStart: the invariant                                                *)
(***************************************************************************)
Turning == {"sweep", "unlink", "look", "unlink expired", "check", "reject", "open", "write",
            "stale", "reclaim", "stdout", "stderr", "post", "give back", "unlink own", "drop"}
Gone == {"ended", "ended, to unlink", "over"}
Spot == Turning \cup {"idle", "failed", "reused", "unrecorded", "unspooled", "started"} \cup Gone

\* Between the look at the caller's processes and the launch.
Gate == {"open", "write", "stale", "reclaim", "stdout", "stderr", "post"}
Holding == {"stdout", "stderr", "post", "started", "unspooled"}
Registered == Holding \cup {"give back", "unlink own", "ended", "ended, to unlink"}
Filed == Registered \cup {"write", "unrecorded"}
Spooled == {"stderr", "post", "started", "unspooled", "give back", "unlink own", "drop"} \cup Gone
\* Where the name of a call's slot refers to its file.
Owning == {"write", "unlink own", "ended, to unlink"} \cup Holding

StartTypes ==
    /\ SyncTypes /\ at \in [Call -> Spot]
    /\ ServerOf \in [Call -> Server]

\* What concerns one call only.
Own(c) ==
    /\ process[c] = IF at[c] = "started" THEN "live" ELSE IF at[c] \in Gone THEN "ended" ELSE "none"
    /\ holds[c] = IF at[c] \in Holding THEN slot[c] ELSE NoSlot
    /\ at[c] \in Registered => c \in recorded
    /\ at[c] \notin Spooled => \A s \in Stream : <<c, s>> \notin spools
    /\ note[c] \in {"none", "done"} => "temporary" \notin archive[c]

Below(c) ==
    LET others == LiveOf(ServerOf[c], CallerOf[c])
    IN Cardinality(others) < MaxLivePerCaller /\ \A d \in others : IdentityOf[d] # IdentityOf[c]

Turns == \A c \in Call : at[c] \in Turning => turn[ServerOf[c]] = c
Gates == \A c \in Call : at[c] \in Gate => Below(c)
SlotFiles == \A c \in Call : \A k \in Slot : dir[k] = c => k = slot[c] /\ at[c] \in Filed

\* A file is reclaimed only from the dead, where no two servers do it.
Dead(k) == dir[k] \in Call /\ ServerOf[dir[k]] \notin up
Kept ==
    (\A c \in Call : Served(c)) \/ TwoServers =>
        \A c \in Call : Served(c) =>
            /\ at[c] \in Owning => dir[slot[c]] = c
            /\ at[c] = "reclaim" => /\ dir[slot[c]] = NoCall \/ Dead(slot[c])
                                    /\ \E d \in Call : ~Served(d)

StartInv ==
    /\ StartTypes /\ (\A c \in Call : Own(c))
    /\ Turns /\ CapIsStrict /\ Gates /\ SlotFiles /\ Kept

(***************************************************************************)
(* SyncStart: a step of a call                                             *)
(***************************************************************************)
\* The call goes from one place to another, in its turn or between two.
Moving(c) ==
    /\ at' \in [Call -> Spot] /\ \A d \in Call \ {c} : at'[d] = at[d]
    /\ situation' = situation /\ up' = up /\ Served(c)
    /\ turn' \in [Server -> Call \cup {NoCall}] /\ turn[ServerOf[c]] \in {c, NoCall}
    /\ at'[c] \in Turning => turn'[ServerOf[c]] = c
    /\ \A s \in Server : s # ServerOf[c] => turn'[s] = turn[s]

\* Nothing else changes for another call.
Alike(d) ==
    /\ slot'[d] = slot[d] /\ holds'[d] = holds[d] /\ process'[d] = process[d]
    /\ note'[d] = note[d] /\ archive'[d] = archive[d]
    /\ d \in recorded' <=> d \in recorded
    /\ \A s \in Stream : <<d, s>> \in spools' <=> <<d, s>> \in spools

\* What the call does to its slot's name ...
Naming(c) ==
    /\ \A k \in Slot : k # slot[c] => dir'[k] = dir[k]
    /\ \/ dir'[slot[c]] = dir[slot[c]]
       \/ /\ dir[slot[c]] = NoCall /\ dir'[slot[c]] = c
          /\ at[c] = "open" /\ at'[c] = "write"
       \/ /\ dir'[slot[c]] = NoCall
          /\ at[c] \in {"reclaim", "unlink own", "ended, to unlink"}
          /\ at'[c] \notin Owning /\ at'[c] # "reclaim"
    /\ slot'[c] = slot[c] \/ (at[c] \in {"open", "stale", "reclaim"} /\ at'[c] = "open")
    /\ at[c] \in Filed => at'[c] \in Filed \/ dir'[slot[c]] # c
    /\ at'[c] \in Owning => at[c] \in Owning \/ dir'[slot[c]] = c
    /\ at'[c] = "reclaim" => dir'[slot[c]] = dir[slot[c]] /\ Dead(slot[c])

\* ... and to the number of processes.
Launching(c) ==
    /\ process'[c] = "live" => process[c] = "live" \/ at[c] = "post"
    /\ at'[c] \in Gate => at[c] \in Gate \/ Below(c)

Step(c) == Moving(c) /\ (\A d \in Call \ {c} : Alike(d)) /\ Own(c)' /\ Naming(c) /\ Launching(c)

LEMMA LiveCounted ==
  ASSUME NEW s, NEW who
  PROVE  /\ IsFiniteSet(LiveOf(s, who)) /\ Cardinality(LiveOf(s, who)) \in Nat
         /\ LiveOf(s, who) \subseteq Call
<1>1. LiveOf(s, who) \subseteq Call /\ IsFiniteSet(Call)
  BY SyncAssumption DEF LiveOf
<1>2. IsFiniteSet(LiveOf(s, who))
  BY <1>1, FS_Subset
<1> QED  BY <1>1, <1>2, FS_CardinalityType

LEMMA Goings ==
  ASSUME StartInv, NEW c \in Call, NEW from \in Spot, NEW to \in Spot,
         Goes(c, from, to) \/ ((Returns(c, from, to) \/ Later(c, from, to)) /\ to \notin Turning)
  PROVE  Moving(c) /\ at[c] = from /\ at'[c] = to
<1>1. /\ at \in [Call -> Spot] /\ turn \in [Server -> Call \cup {NoCall}]
      /\ ServerOf[c] \in Server
  BY DEF StartInv, StartTypes, SyncTypes
<1>2. /\ at' = [at EXCEPT ![c] = to] /\ at[c] = from /\ situation' = situation /\ up' = up
      /\ Served(c) /\ turn[ServerOf[c]] \in {c, NoCall}
      /\ turn' = turn \/ turn' = [turn EXCEPT ![ServerOf[c]] = NoCall]
      /\ to \in Turning => turn[ServerOf[c]] = c /\ turn' = turn
  BY DEF Goes, Returns, Later, Served
<1>3. turn' \in [Server -> Call \cup {NoCall}]
  BY <1>1, <1>2
<1> QED  BY <1>1, <1>2, <1>3 DEF Moving

\* A step that changes nothing but the place of a call.
LEMMA Quiet ==
  ASSUME StartInv, NEW c \in Call, Moving(c),
         UNCHANGED <<slot, dir, recorded, holds, process, spools, note, archive>>,
         at'[c] = "started" <=> at[c] = "started", at'[c] \in Gone <=> at[c] \in Gone,
         at'[c] \in Holding <=> at[c] \in Holding,
         at'[c] \in Registered => at[c] \in Registered,
         at[c] \in Spooled => at'[c] \in Spooled,
         at[c] \in Filed => at'[c] \in Filed \/ dir[slot[c]] # c,
         at'[c] \in Owning => at[c] \in Owning \/ dir[slot[c]] = c,
         at'[c] = "reclaim" => Dead(slot[c]),
         at'[c] \in Gate => at[c] \in Gate \/ Below(c)
  PROVE  Step(c)
<1>1. Own(c)
  BY DEF StartInv
<1>2. Own(c)'
  BY <1>1 DEF Own
<1>3. \A d \in Call \ {c} : Alike(d)
  BY DEF Alike
<1>4. Naming(c)
  BY DEF Naming
<1>5. Launching(c)
  BY <1>1 DEF Launching, Own
<1> QED  BY <1>2, <1>3, <1>4, <1>5 DEF Step

\* The places of a step are spots.
LEMMA Spots ==
  /\ \A p \in Turning : p \in Spot
  /\ {"failed", "reused", "unrecorded", "unspooled", "started", "ended", "ended, to unlink", "over"}
        \subseteq Spot
  /\ \A p \in {"failed", "reused", "unrecorded", "unspooled", "started", "ended", "ended, to unlink",
               "over"} : p \notin Turning
BY DEF Spot, Turning, Gone

\* Where a call has nothing.
Plain == {"idle", "sweep", "unlink", "look", "unlink expired", "check", "reject", "failed", "reused"}
Bare(p) ==
    /\ p \notin Gone /\ p \notin Holding /\ p \notin Registered /\ p \notin Spooled
    /\ p \notin Filed /\ p \notin Owning /\ p \notin Gate
    /\ p # "started" /\ p # "reclaim"
LEMMA Plainly == \A p \in Plain : Bare(p)
BY DEF Bare, Plain, Gone, Holding, Registered, Spooled, Filed, Owning, Gate

\* What is asked before anything is made.
LEMMA AskSteps ==
  ASSUME StartInv, NEW c \in Call,
         \/ Enter(c) \/ PreflightFails(c) \/ SweepReads(c) \/ SweepUnlinks(c)
         \/ Look(c) \/ UnlinkExpired(c)
  PROVE  Step(c) /\ SyncTypes'
<1> DEFINE Same == UNCHANGED <<slot, attempt, dir, recorded, holds, process, spools, archive>>
<1>1. /\ Same /\ marker' \in {"none", "torn", "live", "expired"}
      /\ note' = note \/ (PreflightFails(c) /\ note' = [note EXCEPT ![c] = "write"])
  BY DEF Enter, PreflightFails, SweepReads, SweepUnlinks, Look, UnlinkExpired, EnterVars,
         StartVars, Rejection, StartInv, StartTypes, SyncTypes
<1>2. at \in [Call -> Spot] /\ turn \in [Server -> Call \cup {NoCall}] /\ ServerOf[c] \in Server
  BY DEF StartInv, StartTypes, SyncTypes
<1>3. Moving(c) /\ \/ at[c] = "idle" /\ at'[c] \in {"sweep", "check"} /\ note' = note
                   \/ at[c] = "idle" /\ at'[c] = "failed"
                   \/ /\ at[c] \in {"sweep", "unlink", "look", "unlink expired"} /\ note' = note
                      /\ at'[c] \in {"look", "unlink", "check", "failed", "unlink expired"}
  <2>1. {"sweep", "look", "unlink", "unlink expired", "check"} \subseteq Spot
        /\ "failed" \in Spot \ Turning
    BY Spots DEF Turning
  <2>2. ASSUME NEW from \in Spot, NEW to \in Spot, Goes(c, from, to)
        PROVE  Moving(c) /\ at[c] = from /\ at'[c] = to
    BY <2>2, Goings
  <2>3. CASE Enter(c)
    <3>1. /\ at[c] = "idle" /\ turn[ServerOf[c]] = NoCall /\ Served(c)
          /\ at' = [at EXCEPT ![c] = IF c \in Searches THEN "sweep" ELSE "check"]
          /\ turn' = [turn EXCEPT ![ServerOf[c]] = c] /\ situation' = situation /\ up' = up
          /\ note' = note
      BY <2>3 DEF Enter, EnterVars, Served
    <3>2. at' \in [Call -> Spot] /\ at'[c] \in {"sweep", "check"}
      BY <1>2, <3>1, Spots DEF Turning
    <3>3. turn' \in [Server -> Call \cup {NoCall}] /\ turn'[ServerOf[c]] = c
      BY <1>2, <3>1
    <3> QED  BY <1>2, <3>1, <3>2, <3>3 DEF Moving
  <2>4. CASE PreflightFails(c)
    <3>1. /\ at[c] = "idle" /\ turn[ServerOf[c]] = NoCall /\ Served(c)
          /\ at' = [at EXCEPT ![c] = "failed"]
          /\ turn' = turn /\ situation' = situation /\ up' = up
      BY <2>4 DEF PreflightFails, EnterVars, Served
    <3>2. at' \in [Call -> Spot] /\ at'[c] = "failed" /\ at'[c] \notin Turning
      BY <1>2, <3>1, Spots
    <3> QED  BY <1>2, <3>1, <3>2 DEF Moving
  <2>5. CASE SweepReads(c)
    <3>1. (Goes(c, "sweep", "look") \/ Goes(c, "sweep", "unlink")) /\ note' = note
      BY <2>5 DEF SweepReads, StartVars, Rejection
    <3> QED  BY <2>1, <2>2, <3>1
  <2>6. CASE SweepUnlinks(c) \/ UnlinkExpired(c)
    <3>1. (Goes(c, "unlink", "look") \/ Goes(c, "unlink expired", "check")) /\ note' = note
      BY <2>6 DEF SweepUnlinks, UnlinkExpired, StartVars, Rejection
    <3> QED  BY <2>1, <2>2, <3>1
  <2>7. CASE Look(c)
    <3>1. /\ Returns(c, "look", "failed") \/ Goes(c, "look", "unlink expired") \/ Goes(c, "look", "check")
          /\ note' = note
      BY <2>7 DEF Look, StartVars, Rejection
    <3>2. CASE Returns(c, "look", "failed")
      BY <2>1, <3>1, <3>2, Goings
    <3> QED  BY <2>1, <2>2, <3>1, <3>2
  <2> QED  BY <2>3, <2>4, <2>5, <2>6, <2>7
<1>4. SyncTypes'
  <2>1. note' \in [Call -> Notes]
    BY <1>1 DEF Notes, StartInv, StartTypes, SyncTypes
  <2> QED  BY <1>1, <1>3, <2>1 DEF Moving, StartInv, StartTypes, SyncTypes
<1>5. CASE note' = note
  <2>1. UNCHANGED <<slot, dir, recorded, holds, process, spools, note, archive>>
    BY <1>1, <1>5
  <2>2. at[c] \in Plain /\ at'[c] \in Plain
    BY <1>3 DEF Plain
  <2>3. Bare(at[c]) /\ Bare(at'[c])
    BY <2>2, Plainly
  <2>4. Moving(c)
    BY <1>3
  <2>5. Step(c)
    BY <2>1, <2>3, <2>4, Quiet DEF Bare
  <2> QED  BY <1>4, <2>5
<1>6. CASE PreflightFails(c) /\ note' = [note EXCEPT ![c] = "write"]
  <2>1. at[c] = "idle" /\ at'[c] = "failed" /\ note \in [Call -> Notes]
    <3>1. at' = [at EXCEPT ![c] = "failed"]
      BY <1>6 DEF PreflightFails
    <3> QED  BY <1>2, <1>6, <3>1 DEF PreflightFails, StartInv, StartTypes, SyncTypes
  <2>2. note'[c] = "write" /\ \A d \in Call \ {c} : note'[d] = note[d]
    BY <1>6, <2>1
  <2>3. Own(c)'
    BY <1>1, <2>1, <2>2 DEF StartInv, Own, Gone, Holding, Registered, Spooled
  <2>4. \A d \in Call \ {c} : Alike(d)
    BY <1>1, <2>2 DEF Alike
  <2>5. Naming(c)
    BY <1>1, <2>1 DEF Naming, Filed, Owning, Registered, Holding
  <2>6. Launching(c)
    BY <1>1, <2>1 DEF Launching, Gate
  <2> QED  BY <1>3, <1>4, <2>3, <2>4, <2>5, <2>6 DEF Step
<1> QED  BY <1>1, <1>4, <1>5, <1>6

\* The look at the caller's processes.
LEMMA CheckSteps ==
  ASSUME StartInv, NEW c \in Call, Check(c)
  PROVE  Step(c) /\ SyncTypes'
<1>1. UNCHANGED <<slot, attempt, dir, recorded, holds, process, spools, archive, marker>>
  BY DEF Check, Files, Rejects
<1>2. \/ /\ Returns(c, "check", "reused") \/ Returns(c, "check", "failed")
         /\ note' = note
      \/ Goes(c, "check", "reject") /\ note' = [note EXCEPT ![c] = "write"]
      \/ /\ Goes(c, "check", "open") /\ note' = note
         /\ ~(\E d \in LiveOf(ServerOf[c], CallerOf[c]) : IdentityOf[d] = IdentityOf[c])
         /\ ~(Cardinality(LiveOf(ServerOf[c], CallerOf[c])) >= MaxLivePerCaller)
  BY DEF Check, Rejects
<1>3. note \in [Call -> Notes] /\ SyncTypes
  BY DEF StartInv, StartTypes, SyncTypes
<1>4. CASE (Returns(c, "check", "reused") \/ Returns(c, "check", "failed")) /\ note' = note
  <2>1. Moving(c) /\ at[c] = "check" /\ at'[c] \in {"reused", "failed"}
    BY <1>4, Goings, Spots DEF Turning
  <2>2. Step(c)
    BY <1>1, <1>4, <2>1, Quiet DEF Gone, Holding, Registered, Spooled, Filed, Owning, Gate
  <2> QED  BY <1>1, <1>3, <1>4, <2>1, <2>2 DEF SyncTypes, Moving
<1>5. CASE Goes(c, "check", "reject") /\ note' = [note EXCEPT ![c] = "write"]
  <2>1. Moving(c) /\ at[c] = "check" /\ at'[c] = "reject"
    BY <1>5, Goings, Spots DEF Turning
  <2>2. note'[c] = "write" /\ (\A d \in Call \ {c} : note'[d] = note[d]) /\ note' \in [Call -> Notes]
    BY <1>3, <1>5 DEF Notes
  <2>3. Own(c)'
    BY <1>1, <2>1, <2>2 DEF StartInv, Own, Gone, Holding, Registered, Spooled
  <2>4. \A d \in Call \ {c} : Alike(d)
    BY <1>1, <2>2 DEF Alike
  <2>5. Naming(c)
    BY <1>1, <2>1 DEF Naming, Filed, Owning, Registered, Holding
  <2>6. Launching(c)
    BY <1>1, <2>1 DEF Launching, Gate
  <2> QED  BY <1>1, <1>3, <2>1, <2>2, <2>3, <2>4, <2>5, <2>6 DEF Step, SyncTypes, Moving
<1>6. CASE /\ Goes(c, "check", "open") /\ note' = note
           /\ ~(\E d \in LiveOf(ServerOf[c], CallerOf[c]) : IdentityOf[d] = IdentityOf[c])
           /\ ~(Cardinality(LiveOf(ServerOf[c], CallerOf[c])) >= MaxLivePerCaller)
  <2>1. Moving(c) /\ at[c] = "check" /\ at'[c] = "open"
    BY <1>6, Goings, Spots DEF Turning
  <2>2. Below(c)
    <3>1. Cardinality(LiveOf(ServerOf[c], CallerOf[c])) \in Nat /\ MaxLivePerCaller \in Nat
      BY LiveCounted, SyncAssumption
    <3> QED  BY <1>6, <3>1 DEF Below
  <2>3. Step(c)
    BY <1>1, <1>6, <2>1, <2>2, Quiet DEF Gone, Holding, Registered, Spooled, Filed, Owning, Gate
  <2> QED  BY <1>1, <1>3, <1>6, <2>1, <2>3 DEF SyncTypes, Moving
<1> QED  BY <1>2, <1>4, <1>5, <1>6

\* The rejection, which may be written after the call has failed.
LEMMA RejectionSteps ==
  ASSUME StartInv, NEW c \in Call,
         WriteRejection(c) \/ RenameRejection(c) \/ TidyRejection(c)
  PROVE  Step(c) /\ SyncTypes'
<1>1. /\ at \in [Call -> Spot] /\ turn \in [Server -> Call \cup {NoCall}] /\ ServerOf[c] \in Server
      /\ note \in [Call -> Notes] /\ archive \in [Call -> SUBSET {"temporary", "receipt"}]
      /\ SyncTypes
  BY DEF StartInv, StartTypes, SyncTypes
<1>2. UNCHANGED <<situation, up, slot, attempt, dir, recorded, holds, process, spools, marker>>
  BY DEF WriteRejection, RenameRejection, TidyRejection, RejectionVars
<1>3. /\ Served(c) /\ turn[ServerOf[c]] = IF at[c] = "reject" THEN c ELSE NoCall
  BY DEF WriteRejection, RenameRejection, TidyRejection, Writes, Served
<1>4. /\ \/ at' = at /\ turn' = turn
         \/ /\ at[c] = "reject" /\ at' = [at EXCEPT ![c] = "failed"]
            /\ turn' = [turn EXCEPT ![ServerOf[c]] = NoCall]
      /\ \E n \in {"rename", "tidy", "done"} : note' = [note EXCEPT ![c] = n]
      /\ \/ archive' = archive /\ note'[c] # "done"
         \/ archive' = [archive EXCEPT ![c] = {"temporary"}] /\ note'[c] # "done"
         \/ archive' = [archive EXCEPT ![c] = {"receipt"}]
         \/ archive' = [archive EXCEPT ![c] = @ \ {"temporary"}]
  BY <1>1 DEF WriteRejection, RenameRejection, TidyRejection
<1>5. /\ note'[c] \in {"rename", "tidy", "done"} /\ note' \in [Call -> Notes]
      /\ \A d \in Call \ {c} : note'[d] = note[d]
  BY <1>1, <1>4 DEF Notes
<1>6. /\ archive' \in [Call -> SUBSET {"temporary", "receipt"}]
      /\ \A d \in Call \ {c} : archive'[d] = archive[d]
      /\ note'[c] = "done" => "temporary" \notin archive'[c]
  BY <1>1, <1>4
<1>7. Moving(c) /\ (at'[c] = at[c] \/ (at[c] = "reject" /\ at'[c] = "failed"))
  <2>1. CASE at' = at /\ turn' = turn
    <3>1. at[c] \in Turning => turn[ServerOf[c]] = c
      BY DEF StartInv, Turns
    <3> QED  BY <1>1, <1>2, <1>3, <2>1, <3>1 DEF Moving
  <2>2. CASE /\ at[c] = "reject" /\ at' = [at EXCEPT ![c] = "failed"]
             /\ turn' = [turn EXCEPT ![ServerOf[c]] = NoCall]
    <3>1. at' \in [Call -> Spot] /\ at'[c] = "failed" /\ at'[c] \notin Turning
      BY <1>1, <2>2, Spots
    <3>2. turn' \in [Server -> Call \cup {NoCall}]
      BY <1>1, <2>2
    <3> QED  BY <1>1, <1>2, <1>3, <2>2, <3>1, <3>2 DEF Moving
  <2> QED  BY <1>4, <2>1, <2>2
<1>8. Own(c)'
  BY <1>2, <1>5, <1>6, <1>7 DEF StartInv, Own, Gone, Holding, Registered, Spooled
<1>9. \A d \in Call \ {c} : Alike(d)
  BY <1>2, <1>5, <1>6 DEF Alike
<1>10. at[c] # "reclaim"
  <2>1. at[c] = "reclaim" => turn[ServerOf[c]] = c
    BY DEF Turning, StartInv, Turns
  <2> QED  BY <1>3, <2>1, SyncAssumption DEF NoCall
<1>11. Naming(c)
  BY <1>2, <1>7, <1>10 DEF Naming, Filed, Owning, Registered, Holding
<1>12. Launching(c)
  BY <1>2, <1>7 DEF Launching, Gate
<1>13. SyncTypes'
  BY <1>1, <1>2, <1>5, <1>6, <1>7 DEF SyncTypes, Moving
<1> QED  BY <1>7, <1>8, <1>9, <1>11, <1>12, <1>13 DEF Step

\* The next slot, if there is one.
LEMMA NextSlots ==
  ASSUME StartInv, NEW c \in Call, NEW from \in {"open", "stale", "reclaim"},
         NextSlot(c, from), UNCHANGED <<dir, recorded, holds, process, spools, archive, marker>>
  PROVE  Step(c) /\ SyncTypes'
<1>1. /\ slot \in [Call -> Slot] /\ attempt \in [Call -> {0, 1}] /\ note \in [Call -> Notes]
      /\ SyncTypes
  BY DEF StartInv, StartTypes, SyncTypes
<1>2. from \in Spot
  BY Spots DEF Turning
<1>3. Moving(c) /\ at[c] = from /\ at'[c] \in {"open", "reject"}
  <2>1. Goes(c, from, "open") \/ Goes(c, from, "reject")
    BY DEF NextSlot, Rejects
  <2> QED  BY <1>2, <2>1, Goings, Spots DEF Turning
<1>4. \/ /\ at'[c] = "open" /\ slot[c] + 1 < MaxLiveTotal /\ slot' = [slot EXCEPT ![c] = slot[c] + 1]
         /\ note' = note /\ attempt' = [attempt EXCEPT ![c] = 0]
      \/ /\ at'[c] = "reject" /\ slot' = slot /\ attempt' = attempt
         /\ note' = [note EXCEPT ![c] = "write"]
  <2>1. CASE Goes(c, from, "open") /\ slot[c] + 1 < MaxLiveTotal
             /\ slot' = [slot EXCEPT ![c] = @ + 1] /\ note' = note
             /\ attempt' = [attempt EXCEPT ![c] = 0]
    <3>1. at'[c] = "open"
      BY <1>2, <2>1, Goings, Spots DEF Turning
    <3> QED  BY <2>1, <3>1
  <2>2. CASE Rejects(c, from) /\ UNCHANGED <<slot, attempt>>
    <3>1. at'[c] = "reject"
      BY <1>2, <2>2, Goings, Spots DEF Turning, Rejects
    <3> QED  BY <2>2, <3>1 DEF Rejects
  <2> QED  BY <2>1, <2>2 DEF NextSlot
<1>5. slot' \in [Call -> Slot]
  <2>1. slot[c] + 1 < MaxLiveTotal => slot[c] + 1 \in Slot
    BY <1>1, SyncAssumption DEF Slot
  <2> QED  BY <1>1, <1>4, <2>1
<1>6. /\ attempt' \in [Call -> {0, 1}] /\ note' \in [Call -> Notes]
      /\ \A d \in Call \ {c} : slot'[d] = slot[d] /\ note'[d] = note[d]
      /\ note'[c] = note[c] \/ note'[c] = "write"
  BY <1>1, <1>4 DEF Notes
<1>7. Own(c)'
  BY <1>3, <1>6 DEF StartInv, Own, Gone, Holding, Registered, Spooled
<1>8. \A d \in Call \ {c} : Alike(d)
  BY <1>6 DEF Alike
<1>9. Naming(c)
  BY <1>3, <1>4 DEF Naming, Filed, Owning, Registered, Holding
<1>10. Launching(c)
  BY <1>3 DEF Launching, Gate
<1>11. SyncTypes'
  BY <1>1, <1>3, <1>5, <1>6 DEF SyncTypes, Moving
<1> QED  BY <1>3, <1>7, <1>8, <1>9, <1>10, <1>11 DEF Step

\* claimHostAdmissionSlot and tryReclaimStaleHostAdmissionSlot.
LEMMA ClaimSteps ==
  ASSUME StartInv, NEW c \in Call,
         OpenSlot(c) \/ WriteSlot(c) \/ ReadStale(c) \/ ReclaimSlot(c)
  PROVE  Step(c) /\ SyncTypes'
<1>1. /\ slot \in [Call -> Slot] /\ attempt \in [Call -> {0, 1}] /\ recorded \subseteq Call
      /\ dir \in [Slot -> Call \cup {NoCall}] /\ holds \in [Call -> Slot \cup {NoSlot}]
      /\ SyncTypes /\ slot[c] \in Slot
  BY DEF StartInv, StartTypes, SyncTypes
<1>2. UNCHANGED <<process, spools, archive, marker>>
  BY DEF OpenSlot, WriteSlot, ReadStale, ReclaimSlot, ClaimVars
<1>3. c # NoCall
  BY SyncAssumption DEF NoCall
<1>4. ASSUME Moving(c), UNCHANGED <<slot, dir, recorded, holds, note>>, attempt' = attempt,
             \/ at[c] = "open" /\ at'[c] \in {"failed", "stale"}
             \/ at[c] = "write" /\ at'[c] = "unrecorded"
             \/ at[c] = "stale" /\ at'[c] = "reclaim" /\ Dead(slot[c])
      PROVE  Step(c) /\ SyncTypes'
  <2>1. Step(c)
    BY <1>2, <1>4, Quiet DEF Gone, Holding, Registered, Spooled, Filed, Owning, Gate
  <2> QED  BY <1>1, <1>2, <1>4, <2>1 DEF SyncTypes, Moving
<1>5. ASSUME OpenSlot(c) PROVE Step(c) /\ SyncTypes'
  <2>1. UNCHANGED <<recorded, holds>>
    BY <1>5 DEF OpenSlot
  <2>2. CASE /\ dir[slot[c]] = NoCall /\ Goes(c, "open", "write") /\ dir' = [dir EXCEPT ![slot[c]] = c]
             /\ UNCHANGED <<slot, attempt, note>>
    <3>1. Moving(c) /\ at[c] = "open" /\ at'[c] = "write"
      BY <2>2, Goings, Spots DEF Turning
    <3>2. /\ dir'[slot[c]] = c /\ (\A k \in Slot : k # slot[c] => dir'[k] = dir[k])
          /\ dir' \in [Slot -> Call \cup {NoCall}]
      BY <1>1, <2>2
    <3>3. Own(c)'
      BY <1>2, <2>1, <2>2, <3>1 DEF StartInv, Own, Gone, Holding, Registered, Spooled
    <3>4. \A d \in Call \ {c} : Alike(d)
      BY <1>2, <2>1, <2>2 DEF Alike
    <3>5. Naming(c)
      BY <2>2, <3>1, <3>2 DEF Naming, Filed, Owning, Registered, Holding
    <3>6. Launching(c)
      BY <1>2, <3>1 DEF Launching, Gate
    <3>7. SyncTypes'
      BY <1>1, <1>2, <2>1, <2>2, <3>1, <3>2 DEF SyncTypes, Moving
    <3> QED  BY <3>1, <3>3, <3>4, <3>5, <3>6, <3>7 DEF Step
  <2>3. CASE /\ Returns(c, "open", "failed") \/ Goes(c, "open", "stale")
             /\ UNCHANGED <<dir, slot, attempt, note>>
    <3>1. Moving(c) /\ at[c] = "open" /\ at'[c] \in {"failed", "stale"}
      BY <2>3, Goings, Spots DEF Turning
    <3> QED  BY <1>4, <2>1, <2>3, <3>1
  <2>4. CASE NextSlot(c, "open") /\ UNCHANGED dir
    BY <1>2, <2>1, <2>4, NextSlots
  <2> QED  BY <1>5, <2>2, <2>3, <2>4 DEF OpenSlot
<1>6. ASSUME WriteSlot(c) PROVE Step(c) /\ SyncTypes'
  <2>1. UNCHANGED <<slot, attempt, note, dir>>
    BY <1>6 DEF WriteSlot
  <2>2. CASE /\ Goes(c, "write", "stdout") /\ recorded' = recorded \cup {c}
             /\ holds' = [holds EXCEPT ![c] = slot[c]]
    <3>1. Moving(c) /\ at[c] = "write" /\ at'[c] = "stdout"
      BY <2>2, Goings, Spots DEF Turning
    <3>2. /\ holds'[c] = slot[c] /\ (\A d \in Call \ {c} : holds'[d] = holds[d])
          /\ holds' \in [Call -> Slot \cup {NoSlot}] /\ recorded' \subseteq Call
      BY <1>1, <2>2
    <3>3. Own(c)'
      BY <1>2, <2>1, <2>2, <3>1, <3>2 DEF StartInv, Own, Gone, Holding, Registered, Spooled
    <3>4. \A d \in Call \ {c} : Alike(d)
      BY <1>2, <2>1, <2>2, <3>2 DEF Alike
    <3>5. Naming(c)
      BY <2>1, <3>1 DEF Naming, Filed, Owning, Registered, Holding
    <3>6. Launching(c)
      BY <1>2, <3>1 DEF Launching, Gate
    <3>7. SyncTypes'
      BY <1>1, <1>2, <2>1, <3>1, <3>2 DEF SyncTypes, Moving
    <3> QED  BY <3>1, <3>3, <3>4, <3>5, <3>6, <3>7 DEF Step
  <2>3. CASE Returns(c, "write", "unrecorded") /\ UNCHANGED <<recorded, holds>>
    <3>1. Moving(c) /\ at[c] = "write" /\ at'[c] = "unrecorded"
      BY <2>3, Goings, Spots DEF Turning
    <3> QED  BY <1>4, <2>1, <2>3, <3>1
  <2> QED  BY <1>6, <2>2, <2>3 DEF WriteSlot
<1>7. ASSUME ReadStale(c) PROVE Step(c) /\ SyncTypes'
  <2>1. UNCHANGED <<dir, recorded, holds>>
    BY <1>7 DEF ReadStale
  <2>2. CASE /\ \E d \in Record(slot[c]) : ServerOf[d] \notin up
             /\ Goes(c, "stale", "reclaim") /\ UNCHANGED <<slot, attempt, note>>
    <3>1. Moving(c) /\ at[c] = "stale" /\ at'[c] = "reclaim"
      BY <2>2, Goings, Spots DEF Turning
    <3>2. Dead(slot[c])
      BY <1>1, <2>2 DEF Record, Dead
    <3> QED  BY <1>4, <2>1, <2>2, <3>1, <3>2
  <2>3. CASE NextSlot(c, "stale")
    BY <1>2, <2>1, <2>3, NextSlots
  <2> QED  BY <1>7, <2>2, <2>3 DEF ReadStale
<1>8. ASSUME ReclaimSlot(c) PROVE Step(c) /\ SyncTypes'
  <2>1. UNCHANGED <<recorded, holds>>
    BY <1>8 DEF ReclaimSlot
  <2>2. CASE NextSlot(c, "reclaim") /\ UNCHANGED dir
    BY <1>2, <2>1, <2>2, NextSlots
  <2>3. CASE /\ Goes(c, "reclaim", "open") /\ UNCHANGED <<slot, note>>
             /\ dir' = [dir EXCEPT ![slot[c]] = NoCall] /\ attempt' = [attempt EXCEPT ![c] = 1]
    <3>1. Moving(c) /\ at[c] = "reclaim" /\ at'[c] = "open"
      BY <2>3, Goings, Spots DEF Turning
    <3>2. /\ dir'[slot[c]] = NoCall /\ (\A k \in Slot : k # slot[c] => dir'[k] = dir[k])
          /\ dir' \in [Slot -> Call \cup {NoCall}] /\ attempt' \in [Call -> {0, 1}]
      BY <1>1, <2>3
    <3>3. Own(c)'
      BY <1>2, <2>1, <2>3, <3>1 DEF StartInv, Own, Gone, Holding, Registered, Spooled
    <3>4. \A d \in Call \ {c} : Alike(d)
      BY <1>2, <2>1, <2>3 DEF Alike
    <3>5. Naming(c)
      BY <1>3, <2>3, <3>1, <3>2 DEF Naming, Filed, Owning, Registered, Holding
    <3>6. Launching(c)
      BY <1>2, <3>1 DEF Launching, Gate
    <3>7. SyncTypes'
      BY <1>1, <1>2, <2>1, <2>3, <3>1, <3>2 DEF SyncTypes, Moving
    <3> QED  BY <3>1, <3>3, <3>4, <3>5, <3>6, <3>7 DEF Step
  <2> QED  BY <1>8, <2>2, <2>3 DEF ReclaimSlot
<1> QED  BY <1>5, <1>6, <1>7, <1>8

\* Spools, launch, and what is undone when it fails.
LEMMA LaunchSteps ==
  ASSUME StartInv, NEW c \in Call,
         (\E s \in Stream : MakeSpool(c, s)) \/ Post(c) \/ PostFails(c) \/ DropSpools(c) \/ End(c)
  PROVE  Step(c) /\ SyncTypes'
<1>1. /\ holds \in [Call -> Slot \cup {NoSlot}] /\ process \in [Call -> {"none", "live", "ended"}]
      /\ spools \subseteq Call \X Stream /\ SyncTypes
  BY DEF StartInv, StartTypes, SyncTypes
<1>2. UNCHANGED <<slot, attempt, dir, recorded, note, archive, marker>>
  BY DEF MakeSpool, Post, PostFails, DropSpools, End, SpoolVars, Rejection
<1>3. ASSUME Moving(c), holds' \in [Call -> Slot \cup {NoSlot}],
             process' \in [Call -> {"none", "live", "ended"}], spools' \subseteq Call \X Stream
      PROVE  SyncTypes'
  BY <1>1, <1>2, <1>3 DEF SyncTypes, Moving
<1>4. ASSUME Moving(c), Own(c)', Launching(c),
             \A d \in Call \ {c} :
                /\ holds'[d] = holds[d] /\ process'[d] = process[d]
                /\ \A s \in Stream : <<d, s>> \in spools' <=> <<d, s>> \in spools,
             at[c] \in Filed => at'[c] \in Filed \/ dir[slot[c]] # c,
             at'[c] \in Owning => at[c] \in Owning, at'[c] # "reclaim"
      PROVE  Step(c)
  <2>1. \A d \in Call \ {c} : Alike(d)
    BY <1>2, <1>4 DEF Alike
  <2>2. Naming(c)
    BY <1>2, <1>4 DEF Naming
  <2> QED  BY <1>4, <2>1, <2>2 DEF Step
<1>5. ASSUME NEW s \in Stream, MakeSpool(c, s) PROVE Step(c) /\ SyncTypes'
  <2>1. UNCHANGED <<holds, process>> /\ s \in {"stdout", "stderr"}
    BY <1>5 DEF MakeSpool, Stream
  <2>2. CASE /\ Goes(c, s, IF s = "stdout" THEN "stderr" ELSE "post")
             /\ spools' = spools \cup {<<c, s>>}
    <3>1. Moving(c) /\ (\/ at[c] = "stdout" /\ at'[c] = "stderr"
                        \/ at[c] = "stderr" /\ at'[c] = "post")
      <4>1. "stdout" \in Spot /\ "stderr" \in Spot /\ "post" \in Spot
        BY Spots DEF Turning
      <4>2. CASE s = "stdout"
        <5>1. Goes(c, "stdout", "stderr")
          BY <2>2, <4>2
        <5> QED  BY <4>1, <5>1, Goings
      <4>3. CASE s = "stderr"
        <5>1. Goes(c, "stderr", "post")
          BY <2>2, <4>3
        <5> QED  BY <4>1, <5>1, Goings
      <4> QED  BY <2>1, <4>2, <4>3
    <3>2. Own(c)'
      BY <1>2, <2>1, <3>1 DEF StartInv, Own, Gone, Holding, Registered, Spooled
    <3>3. Launching(c)
      BY <2>1, <3>1 DEF Launching, Gate
    <3>4. \A d \in Call \ {c} : \A t \in Stream : <<d, t>> \in spools' <=> <<d, t>> \in spools
      BY <2>2
    <3>5. spools' \subseteq Call \X Stream
      BY <1>1, <2>2
    <3>6. Step(c)
      BY <1>4, <2>1, <3>1, <3>2, <3>3, <3>4 DEF Filed, Owning, Registered, Holding
    <3> QED  BY <1>1, <1>3, <2>1, <3>1, <3>5, <3>6
  <2>3. CASE Returns(c, s, "unspooled") /\ UNCHANGED spools
    <3>1. Moving(c) /\ at[c] \in {"stdout", "stderr"} /\ at'[c] = "unspooled"
      <4>1. s \in Spot /\ "unspooled" \in Spot \ Turning
        BY <2>1, Spots DEF Turning
      <4> QED  BY <2>1, <2>3, <4>1, Goings
    <3>2. Own(c)'
      BY <1>2, <2>1, <3>1 DEF StartInv, Own, Gone, Holding, Registered, Spooled
    <3>3. Launching(c)
      BY <2>1, <3>1 DEF Launching, Gate
    <3>4. Step(c)
      BY <1>4, <2>1, <2>3, <3>1, <3>2, <3>3 DEF Filed, Owning, Registered, Holding
    <3> QED  BY <1>1, <1>3, <2>1, <2>3, <3>1, <3>4
  <2> QED  BY <1>5, <2>2, <2>3 DEF MakeSpool
<1>6. ASSUME Post(c) PROVE Step(c) /\ SyncTypes'
  <2>1. /\ UNCHANGED <<holds, spools>> /\ process' = [process EXCEPT ![c] = "live"]
        /\ Returns(c, "post", "started")
    BY <1>6 DEF Post, SpoolVars
  <2>2. Moving(c) /\ at[c] = "post" /\ at'[c] = "started"
    BY <2>1, Goings, Spots DEF Turning
  <2>3. /\ process'[c] = "live" /\ (\A d \in Call \ {c} : process'[d] = process[d])
        /\ process' \in [Call -> {"none", "live", "ended"}]
    BY <1>1, <2>1
  <2>4. Own(c)'
    BY <1>2, <2>1, <2>2, <2>3 DEF StartInv, Own, Gone, Holding, Registered, Spooled
  <2>5. Launching(c)
    BY <2>2 DEF Launching, Gate
  <2>6. Step(c)
    BY <1>4, <2>1, <2>2, <2>3, <2>4, <2>5 DEF Filed, Owning, Registered, Holding
  <2> QED  BY <1>1, <1>3, <2>1, <2>2, <2>3, <2>6
<1>7. ASSUME PostFails(c) PROVE Step(c) /\ SyncTypes'
  <2>1. /\ UNCHANGED <<process, spools>> /\ holds' = [holds EXCEPT ![c] = NoSlot]
        /\ Goes(c, "post", "give back")
    BY <1>7 DEF PostFails, SpoolVars
  <2>2. Moving(c) /\ at[c] = "post" /\ at'[c] = "give back"
    BY <2>1, Goings, Spots DEF Turning
  <2>3. /\ holds'[c] = NoSlot /\ (\A d \in Call \ {c} : holds'[d] = holds[d])
        /\ holds' \in [Call -> Slot \cup {NoSlot}]
    BY <1>1, <2>1
  <2>4. Own(c)'
    BY <1>2, <2>1, <2>2, <2>3 DEF StartInv, Own, Gone, Holding, Registered, Spooled
  <2>5. Launching(c)
    BY <2>1, <2>2 DEF Launching, Gate
  <2>6. Step(c)
    BY <1>4, <2>1, <2>2, <2>3, <2>4, <2>5 DEF Filed, Owning, Registered, Holding
  <2> QED  BY <1>1, <1>3, <2>1, <2>2, <2>3, <2>6
<1>8. ASSUME DropSpools(c) PROVE Step(c) /\ SyncTypes'
  <2>1. /\ UNCHANGED <<process, holds>> /\ spools' = spools \ ({c} \X Stream)
        /\ Returns(c, "drop", "failed")
    BY <1>8 DEF DropSpools, SpoolVars
  <2>2. Moving(c) /\ at[c] = "drop" /\ at'[c] = "failed"
    BY <2>1, Goings, Spots DEF Turning
  <2>3. /\ spools' \subseteq Call \X Stream /\ \A s \in Stream : <<c, s>> \notin spools'
        /\ \A d \in Call \ {c} : \A s \in Stream : <<d, s>> \in spools' <=> <<d, s>> \in spools
    BY <1>1, <2>1
  <2>4. Own(c)'
    BY <1>2, <2>1, <2>2, <2>3 DEF StartInv, Own, Gone, Holding, Registered, Spooled
  <2>5. Launching(c)
    BY <2>1, <2>2 DEF Launching, Gate
  <2>6. Step(c)
    BY <1>4, <2>1, <2>2, <2>3, <2>4, <2>5 DEF Filed, Owning, Registered, Holding
  <2> QED  BY <1>1, <1>3, <2>1, <2>2, <2>3, <2>6
<1>9. ASSUME End(c) PROVE Step(c) /\ SyncTypes'
  <2>1. /\ UNCHANGED spools /\ process' = [process EXCEPT ![c] = "ended"]
        /\ holds' = [holds EXCEPT ![c] = NoSlot] /\ Later(c, "started", "ended")
    BY <1>9 DEF End, SpoolVars
  <2>2. Moving(c) /\ at[c] = "started" /\ at'[c] = "ended"
    BY <2>1, Goings, Spots DEF Turning
  <2>3. /\ holds'[c] = NoSlot /\ process'[c] = "ended"
        /\ \A d \in Call \ {c} : holds'[d] = holds[d] /\ process'[d] = process[d]
        /\ holds' \in [Call -> Slot \cup {NoSlot}]
        /\ process' \in [Call -> {"none", "live", "ended"}]
    BY <1>1, <2>1
  <2>4. Own(c)'
    BY <1>2, <2>1, <2>2, <2>3 DEF StartInv, Own, Gone, Holding, Registered, Spooled
  <2>5. Launching(c)
    BY <2>2, <2>3 DEF Launching, Gate
  <2>6. Step(c)
    BY <1>4, <2>1, <2>2, <2>3, <2>4, <2>5 DEF Filed, Owning, Registered, Holding
  <2> QED  BY <1>1, <1>3, <2>1, <2>2, <2>3, <2>6
<1> QED  BY <1>5, <1>6, <1>7, <1>8, <1>9

\* The slot's file is given up, by its owner.
LEMMA GiveUpSteps ==
  ASSUME StartInv, NEW c \in Call,
         ReadOwn(c) \/ UnlinkOwn(c) \/ EndRead(c) \/ EndUnlink(c)
  PROVE  Step(c) /\ SyncTypes'
<1>1. /\ dir \in [Slot -> Call \cup {NoCall}] /\ recorded \subseteq Call /\ slot[c] \in Slot
      /\ SyncTypes
  BY DEF StartInv, StartTypes, SyncTypes
<1>2. UNCHANGED <<slot, attempt, recorded, holds, process, spools, note, archive, marker>>
  BY DEF ReadOwn, UnlinkOwn, EndRead, EndUnlink, SpoolVars, Rejection
<1>3. c # NoCall
  BY SyncAssumption DEF NoCall
<1>4. c \in Record(slot[c]) <=> dir[slot[c]] = c /\ c \in recorded
  BY DEF Record
<1>5. ASSUME ReadOwn(c) \/ EndRead(c) PROVE Step(c) /\ SyncTypes'
  <2>1. dir' = dir
    BY <1>5 DEF ReadOwn, EndRead, SpoolVars
  <2>2. Moving(c) /\ \/ at[c] = "give back" /\ at'[c] = "unlink own" /\ c \in Record(slot[c])
                     \/ at[c] = "give back" /\ at'[c] = "drop" /\ c \notin Record(slot[c])
                     \/ at[c] = "ended" /\ at'[c] = "ended, to unlink" /\ c \in Record(slot[c])
                     \/ at[c] = "ended" /\ at'[c] = "over" /\ c \notin Record(slot[c])
    BY <1>5, Goings, Spots DEF ReadOwn, EndRead, Turning
  <2>3. at[c] \in Registered => c \in recorded
    BY DEF StartInv, Own
  <2>4. Step(c)
    BY <1>2, <1>4, <2>1, <2>2, <2>3, Quiet
    DEF Gone, Holding, Registered, Spooled, Filed, Owning, Gate
  <2> QED  BY <1>1, <1>2, <2>1, <2>2, <2>4 DEF SyncTypes, Moving
<1>6. ASSUME UnlinkOwn(c) \/ EndUnlink(c) PROVE Step(c) /\ SyncTypes'
  <2>1. dir' = [dir EXCEPT ![slot[c]] = NoCall]
    BY <1>6 DEF UnlinkOwn, EndUnlink
  <2>2. Moving(c) /\ \/ at[c] = "unlink own" /\ at'[c] = "drop"
                     \/ at[c] = "ended, to unlink" /\ at'[c] = "over"
    BY <1>6, Goings, Spots DEF UnlinkOwn, EndUnlink, Turning
  <2>3. /\ dir'[slot[c]] = NoCall /\ (\A k \in Slot : k # slot[c] => dir'[k] = dir[k])
        /\ dir' \in [Slot -> Call \cup {NoCall}]
    BY <1>1, <2>1
  <2>4. Own(c)'
    BY <1>2, <2>2 DEF StartInv, Own, Gone, Holding, Registered, Spooled
  <2>5. \A d \in Call \ {c} : Alike(d)
    BY <1>2 DEF Alike
  <2>6. Naming(c)
    BY <1>2, <1>3, <2>2, <2>3 DEF Naming, Filed, Owning, Registered, Holding
  <2>7. Launching(c)
    BY <1>2, <2>2 DEF Launching, Gate
  <2>8. SyncTypes'
    BY <1>1, <1>2, <2>2, <2>3 DEF SyncTypes, Moving
  <2> QED  BY <2>2, <2>4, <2>5, <2>6, <2>7, <2>8 DEF Step
<1> QED  BY <1>5, <1>6

(***************************************************************************)
(* SyncStart: the invariant is kept                                        *)
(***************************************************************************)
\* Deaths, and markers of others.
Elsewhere ==
    /\ UNCHANGED <<situation, turn, at, slot, attempt, dir, recorded, holds, process, spools, note, archive>>
    /\ up' \subseteq up /\ marker' \in {"none", "torn", "live", "expired"}

LEMMA SyncSteps ==
  ASSUME StartInv, SyncNext
  PROVE  Elsewhere \/ \E c \in Call : Step(c) /\ SyncTypes'
<1>1. marker \in {"none", "torn", "live", "expired"}
  BY DEF StartInv, StartTypes, SyncTypes
<1>2. OthersMark => Elsewhere
  <2>1. ASSUME OthersMark PROVE marker' \in {"live", "expired", "torn"}
    BY <1>1, <2>1 DEF OthersMark
  <2> QED  BY <2>1 DEF OthersMark, Elsewhere, Rejection
<1>3. ASSUME NEW c \in Call, RejectionKills(c) PROVE Elsewhere
  BY <1>1, <1>3 DEF RejectionKills, Files, Elsewhere
<1>4. ASSUME NEW s \in Server, Die(s) PROVE Elsewhere
  BY <1>1, <1>4 DEF Die, Files, Elsewhere
<1> QED
  BY <1>2, <1>3, <1>4, AskSteps, CheckSteps, RejectionSteps, ClaimSteps, LaunchSteps, GiveUpSteps
  DEF SyncNext

LEMMA CallTurns == ASSUME StartInv, NEW c \in Call, Step(c) PROVE Turns'
<1> SUFFICES ASSUME NEW d \in Call, at'[d] \in Turning PROVE turn'[ServerOf'[d]] = d
  BY DEF Turns
<1>1. ServerOf' = ServerOf /\ ServerOf[d] \in Server
  BY DEF Step, Moving, ServerOf, StartInv, StartTypes
<1>2. CASE d = c
  BY <1>1, <1>2 DEF Step, Moving
<1>3. CASE d # c
  <2>1. turn[ServerOf[d]] = d /\ at'[d] = at[d]
    BY <1>3 DEF Step, Moving, StartInv, Turns
  <2>2. ServerOf[d] # ServerOf[c]
    BY <1>3, <2>1, SyncAssumption DEF Step, Moving, NoCall
  <2> QED  BY <1>1, <2>1, <2>2 DEF Step, Moving
<1> QED  BY <1>2, <1>3

LEMMA CallFiles ==
  ASSUME StartInv, NEW c \in Call, Step(c)
  PROVE  SlotFiles'
<1> SUFFICES ASSUME NEW d \in Call, NEW k \in Slot, dir'[k] = d
             PROVE  k = slot'[d] /\ at'[d] \in Filed
  BY DEF SlotFiles
<1>1. Naming(c) /\ c # NoCall /\ d # NoCall /\ slot[c] \in Slot
  BY SyncAssumption DEF Step, NoCall, StartInv, StartTypes, SyncTypes
<1>2. \A e \in Call : dir[k] = e => k = slot[e] /\ at[e] \in Filed
  BY DEF StartInv, SlotFiles
<1>3. CASE d # c
  <2>1. dir[k] = d
    BY <1>1, <1>3 DEF Naming
  <2>2. slot'[d] = slot[d] /\ at'[d] = at[d]
    BY <1>3 DEF Step, Alike, Moving
  <2> QED  BY <1>2, <2>1, <2>2
<1>4. CASE d = c
  <2>1. k = slot[c]
    BY <1>1, <1>2, <1>4 DEF Naming
  <2>2. at'[c] = "write" \/ (dir[k] = c /\ at[c] \in Filed)
    BY <1>1, <1>2, <1>4, <2>1 DEF Naming
  <2>3. at'[c] \in Filed
    BY <1>1, <1>4, <2>1, <2>2 DEF Naming, Filed
  <2>4. at'[c] # "open"
    BY <2>3 DEF Filed, Registered, Holding
  <2> QED  BY <1>1, <1>4, <2>1, <2>3, <2>4 DEF Naming
<1> QED  BY <1>3, <1>4

LEMMA CallKept ==
  ASSUME StartInv, NEW c \in Call, Step(c)
  PROVE  Kept'
<1>1. /\ ServerOf' = ServerOf /\ TwoServers' = TwoServers /\ up' = up
      /\ \A d \in Call : Served(d)' = Served(d)
  BY DEF Step, Moving, ServerOf, TwoServers, Served
<1>2. /\ Naming(c) /\ c # NoCall /\ Served(c) /\ slot[c] \in Slot
      /\ \A d \in Call : slot[d] \in Slot
      /\ \A d \in Call : d # NoCall
  BY SyncAssumption DEF Step, Moving, NoCall, StartInv, StartTypes, SyncTypes
<1> SUFFICES ASSUME (\A d \in Call : Served(d)) \/ TwoServers, NEW d \in Call, Served(d)
             PROVE  /\ at'[d] \in Owning => dir'[slot'[d]] = d
                    /\ at'[d] = "reclaim" =>
                          /\ \/ dir'[slot'[d]] = NoCall
                             \/ dir'[slot'[d]] \in Call /\ ServerOf[dir'[slot'[d]]] \notin up
                          /\ \E e \in Call : ~Served(e)
  BY <1>1 DEF Kept, Dead
<1>3. \A e \in Call : Served(e) =>
         /\ at[e] \in Owning => dir[slot[e]] = e
         /\ at[e] = "reclaim" => /\ dir[slot[e]] = NoCall \/ Dead(slot[e])
                                 /\ \E f \in Call : ~Served(f)
  BY DEF StartInv, Kept
<1>4. \A k \in Slot : Dead(k) => \E e \in Call : dir[k] = e /\ ~Served(e)
  BY DEF Dead, Served
<1>5. \A k \in Slot : dir'[k] = dir[k] /\ Dead(k) =>
          dir'[k] \in Call /\ ServerOf[dir'[k]] \notin up
  BY DEF Dead
<1>6. CASE d = c
  <2>1. CASE at'[c] \in Owning
    <3>1. slot'[c] = slot[c]
      BY <1>2, <2>1 DEF Naming, Owning, Holding
    <3>2. at[c] \in Owning \/ dir'[slot[c]] = c
      BY <1>2, <2>1 DEF Naming
    <3>3. at[c] \in Owning => dir'[slot[c]] = c
      BY <1>2, <1>3, <2>1 DEF Naming
    <3>4. at'[c] # "reclaim"
      BY <2>1 DEF Owning, Holding
    <3> QED  BY <1>6, <3>1, <3>2, <3>3, <3>4
  <2>2. CASE at'[c] = "reclaim"
    <3>1. dir'[slot[c]] = dir[slot[c]] /\ Dead(slot[c]) /\ slot'[c] = slot[c]
      BY <1>2, <2>2 DEF Naming
    <3>2. at'[c] \notin Owning
      BY <2>2 DEF Owning, Holding
    <3> QED  BY <1>2, <1>4, <1>5, <1>6, <3>1, <3>2
  <2> QED  BY <1>6, <2>1, <2>2
<1>7. CASE d # c
  <2>1. at'[d] = at[d] /\ slot'[d] = slot[d]
    BY <1>7 DEF Step, Moving, Alike
  <2> DEFINE k == slot[d]
  <2>2. CASE dir'[k] = dir[k]
    BY <1>2, <1>3, <1>5, <2>1, <2>2
  <2>3. CASE dir'[k] # dir[k]
    <3>1. /\ k = slot[c]
          /\ \/ dir[k] = NoCall /\ dir'[k] = c /\ at[c] = "open"
             \/ dir'[k] = NoCall /\ at[c] \in {"reclaim", "unlink own", "ended, to unlink"}
      BY <1>2, <2>3 DEF Naming
    <3>2. CASE dir'[k] = NoCall /\ at[c] \in {"unlink own", "ended, to unlink"}
      <4>1. dir[k] = c
        BY <1>2, <1>3, <3>1, <3>2 DEF Owning
      <4>2. at[d] \notin Owning
        BY <1>3, <1>7, <4>1
      <4> QED  BY <1>3, <2>1, <3>2, <4>2
    <3>3. CASE dir'[k] = NoCall /\ at[c] = "reclaim"
      <4>1. dir[k] = NoCall \/ Dead(k)
        BY <1>2, <1>3, <3>1, <3>3
      <4>2. dir[k] # d
        BY <1>2, <4>1 DEF Dead, Served
      <4>3. at[d] \notin Owning
        BY <1>3, <4>2
      <4> QED  BY <1>3, <2>1, <3>3, <4>3
    <3>4. CASE dir[k] = NoCall /\ dir'[k] = c /\ at[c] = "open"
      <4>1. at[d] \notin Owning
        BY <1>2, <1>3, <3>4
      <4>2. ASSUME at[d] = "reclaim" PROVE FALSE
        <5>1. PICK e \in Call : ~Served(e)
          BY <1>3, <4>2
        <5>2. turn[ServerOf[d]] = d /\ turn[ServerOf[c]] = c
          BY <3>4, <4>2 DEF StartInv, Turns, Turning
        <5>3. ServerOf[d] # ServerOf[c]
          BY <1>7, <5>2
        <5>4. ServerOf[e] # ServerOf[c] /\ ServerOf[e] # ServerOf[d]
          BY <1>2, <5>1 DEF Served
        <5> QED  BY <5>1, <5>3, <5>4 DEF TwoServers
      <4> QED  BY <2>1, <4>1, <4>2
    <3> QED  BY <3>1, <3>2, <3>3, <3>4
  <2> QED  BY <2>2, <2>3
<1> QED  BY <1>6, <1>7

\* The number of live processes.
LEMMA CallCap ==
  ASSUME StartInv, NEW c \in Call, Step(c)
  PROVE  CapIsStrict' /\ Gates'
<1>1. /\ ServerOf' = ServerOf /\ IdentityOf' = IdentityOf
      /\ \A d \in Call \ {c} : process'[d] = process[d] /\ at'[d] = at[d]
      /\ process'[c] = "live" => process[c] = "live" \/ at[c] = "post"
      /\ at'[c] \in Gate => at[c] \in Gate \/ Below(c)
      /\ process'[c] = IF at'[c] = "started" THEN "live" ELSE IF at'[c] \in Gone THEN "ended" ELSE "none"
      /\ turn[ServerOf[c]] \in {c, NoCall} /\ NoCall \notin Call
      /\ MaxLivePerCaller \in Nat
  BY SyncAssumption DEF Step, Moving, Alike, Launching, ServerOf, IdentityOf, Own, NoCall
<1>2. \A d \in Call : at[d] \in Gate => Below(d)
  BY DEF StartInv, Gates
<1>3. \A d \in Call : LET mine == LiveOf(ServerOf[d], CallerOf[d]) IN
         /\ Cardinality(mine) <= MaxLivePerCaller
         /\ \A e, f \in mine : IdentityOf[e] = IdentityOf[f] => e = f
  BY DEF StartInv, CapIsStrict
<1> DEFINE LiveNow(s, who) == {e \in Call : ServerOf[e] = s /\ CallerOf[e] = who /\ process'[e] = "live"}
           Capped(live) == /\ Cardinality(live) <= MaxLivePerCaller
                           /\ \A e, f \in live : IdentityOf[e] = IdentityOf[f] => e = f
           Under(live, d) == /\ Cardinality(live) < MaxLivePerCaller
                             /\ \A e \in live : IdentityOf[e] # IdentityOf[d]
<1>4. \A d \in Call : LiveOf(ServerOf[d], CallerOf[d])' = LiveNow(ServerOf[d], CallerOf[d])
  BY <1>1 DEF LiveOf
<1>5. ASSUME \A d \in Call : Capped(LiveNow(ServerOf[d], CallerOf[d])) PROVE CapIsStrict'
  BY <1>1, <1>4, <1>5 DEF CapIsStrict
<1>6. ASSUME \A d \in Call : at'[d] \in Gate => Under(LiveNow(ServerOf[d], CallerOf[d]), d)
      PROVE  Gates'
  BY <1>1, <1>4, <1>6 DEF Gates, Below
<1>7. \A d \in Call : Below(d) => Under(LiveOf(ServerOf[d], CallerOf[d]), d)
  BY DEF Below
<1>8. \A d \in Call : Capped(LiveOf(ServerOf[d], CallerOf[d]))
  BY <1>3
<1>9. CASE process'[c] = "live" => process[c] = "live"
  <2>1. \A d \in Call : LiveNow(ServerOf[d], CallerOf[d]) \subseteq LiveOf(ServerOf[d], CallerOf[d])
    BY <1>1, <1>9 DEF LiveOf
  <2>2. ASSUME NEW live, NEW now, IsFiniteSet(live), Cardinality(live) \in Nat, now \subseteq live, NEW d
        PROVE  (Capped(live) => Capped(now)) /\ (Under(live, d) => Under(now, d))
    <3>1. Cardinality(now) <= Cardinality(live) /\ Cardinality(now) \in Nat
      BY <2>2, FS_Subset, FS_CardinalityType
    <3> QED  BY <1>1, <2>2, <3>1
  <2>3. \A d \in Call : /\ IsFiniteSet(LiveOf(ServerOf[d], CallerOf[d]))
                         /\ Cardinality(LiveOf(ServerOf[d], CallerOf[d])) \in Nat
    BY LiveCounted
  <2>4. \A d \in Call : at'[d] \in Gate => Below(d)
    BY <1>1, <1>2
  <2> HIDE DEF Capped, Under, LiveNow
  <2>5. \A d \in Call : Capped(LiveNow(ServerOf[d], CallerOf[d]))
    BY <1>8, <2>1, <2>2, <2>3
  <2>6. \A d \in Call : at'[d] \in Gate => Under(LiveNow(ServerOf[d], CallerOf[d]), d)
    BY <1>7, <2>1, <2>2, <2>3, <2>4
  <2> QED  BY <1>5, <1>6, <2>5, <2>6
<1>10. CASE process'[c] = "live" /\ at[c] = "post" /\ process[c] # "live"
  <2>1. at[c] \in Gate /\ at[c] \in Turning /\ at'[c] = "started"
    BY <1>1, <1>10 DEF Gate, Turning
  <2>2. Below(c)
    BY <1>2, <2>1
  <2> DEFINE S == ServerOf[c]
             W == CallerOf[c]
  <2>3. \A s, who : LiveNow(s, who) = IF s = S /\ who = W THEN LiveOf(s, who) \cup {c} ELSE LiveOf(s, who)
    BY <1>1, <1>10 DEF LiveOf
  <2>4. c \notin LiveOf(S, W)
    BY <1>10 DEF LiveOf
  <2>5. Cardinality(LiveNow(S, W)) = Cardinality(LiveOf(S, W)) + 1 /\ Cardinality(LiveOf(S, W)) \in Nat
    <3>1. IsFiniteSet(LiveOf(S, W)) /\ Cardinality(LiveOf(S, W)) \in Nat
      BY LiveCounted
    <3>2. Cardinality(LiveOf(S, W) \cup {c}) = Cardinality(LiveOf(S, W)) + 1
      BY <2>4, <3>1, FS_AddElement
    <3> QED  BY <2>3, <3>1, <3>2
  <2>6. CapIsStrict'
    <3> SUFFICES ASSUME NEW d \in Call PROVE Capped(LiveNow(ServerOf[d], CallerOf[d]))
      BY <1>5
    <3>1. CASE ServerOf[d] = S /\ CallerOf[d] = W
      <4>1. Cardinality(LiveNow(S, W)) <= MaxLivePerCaller
        BY <1>1, <2>2, <2>5 DEF Below
      <4>2. \A e, f \in LiveOf(S, W) : IdentityOf[e] = IdentityOf[f] => e = f
        BY <1>3
      <4>3. \A e \in LiveOf(S, W) : IdentityOf[e] # IdentityOf[c]
        BY <2>2 DEF Below
      <4>4. LiveNow(S, W) = LiveOf(S, W) \cup {c}
        BY <2>3
      <4> QED  BY <3>1, <4>1, <4>2, <4>3, <4>4
    <3>2. CASE ~(ServerOf[d] = S /\ CallerOf[d] = W)
      <4>1. LiveNow(ServerOf[d], CallerOf[d]) = LiveOf(ServerOf[d], CallerOf[d])
        BY <2>3, <3>2
      <4> QED  BY <1>3, <4>1
    <3> QED  BY <3>1, <3>2
  <2>7. ASSUME NEW d \in Call, at'[d] \in Gate
        PROVE  Under(LiveNow(ServerOf[d], CallerOf[d]), d)
    <3>1. d # c
      BY <2>1, <2>7 DEF Gate
    <3>2. at[d] \in Gate /\ at[d] \in Turning
      BY <1>1, <2>7, <3>1 DEF Gate, Turning
    <3>3. ServerOf[d] # S
      BY <1>1, <3>1, <3>2 DEF StartInv, Turns
    <3>4. LiveNow(ServerOf[d], CallerOf[d]) = LiveOf(ServerOf[d], CallerOf[d])
      BY <2>3, <3>3
    <3>5. Below(d)
      BY <1>2, <3>2
    <3> QED  BY <1>7, <3>4, <3>5
  <2> QED  BY <1>6, <2>6, <2>7
<1> QED  BY <1>1, <1>9, <1>10

LEMMA SyncInits == ASSUME SyncInit PROVE StartInv
<1>1. /\ ServerOf \in [Call -> Server] /\ MaxLiveTotal \in Nat \ {0} /\ NoCall \notin Call
      /\ MaxLivePerCaller \in Nat
  BY SyncAssumption DEF SyncInit, ServerOf, NoCall
<1>2. SyncTypes
  <2>1. 0 \in Slot
    BY <1>1 DEF Slot
  <2> QED  BY <2>1 DEF SyncInit, SyncTypes, Notes
<1>3. \A c \in Call : at[c] = "idle" /\ turn[ServerOf[c]] = NoCall
  BY <1>1 DEF SyncInit
<1>4. StartTypes
  <2>1. "idle" \in Spot
    BY DEF Spot
  <2>2. at = [c \in Call |-> "idle"]
    BY DEF SyncInit
  <2>3. at \in [Call -> Spot]
    BY <2>1, <2>2
  <2> QED  BY <1>1, <1>2, <2>3 DEF StartTypes
<1>5. \A c \in Call : Own(c)
  BY DEF SyncInit, Own, Gone, Holding, Registered, Spooled
<1>6. CapIsStrict
  <2>1. \A s, who : LiveOf(s, who) = {}
    BY DEF SyncInit, LiveOf
  <2> QED  BY <1>1, <2>1, FS_EmptySet DEF CapIsStrict
<1>7. SlotFiles
  BY <1>1 DEF SyncInit, SlotFiles
<1>8. Turns /\ Gates /\ Kept
  BY <1>3 DEF Turns, Gates, Kept, Turning, Gate, Owning, Holding
<1> QED  BY <1>4, <1>5, <1>6, <1>7, <1>8 DEF StartInv

LEMMA SyncElsewhere == ASSUME StartInv, Elsewhere PROVE StartInv'
<1> USE DEF Elsewhere
<1>1. /\ ServerOf' = ServerOf /\ IdentityOf' = IdentityOf /\ TwoServers' = TwoServers
      /\ \A c \in Call : Served(c)' => Served(c)
  BY DEF ServerOf, IdentityOf, TwoServers, Served
<1>2. StartTypes'
  BY <1>1 DEF StartInv, StartTypes, SyncTypes
<1>3. \A c \in Call : Own(c)'
  BY DEF StartInv, Own
<1>4. Turns' /\ SlotFiles'
  BY <1>1 DEF StartInv, Turns, SlotFiles
<1>5. CapIsStrict' /\ Gates'
  BY <1>1 DEF StartInv, CapIsStrict, Gates, Below, LiveOf
<1>6. Kept'
  <2>1. \A k \in Slot : Dead(k) => Dead(k)'
    BY <1>1 DEF Dead
  <2> SUFFICES ASSUME (\A d \in Call : Served(d)) \/ TwoServers, NEW c \in Call, Served(c), Served(c)'
               PROVE  /\ at[c] \in Owning => dir[slot[c]] = c
                      /\ at[c] = "reclaim" =>
                            /\ \/ dir[slot[c]] = NoCall
                               \/ dir[slot[c]] \in Call /\ ServerOf[dir[slot[c]]] \notin up'
                            /\ \E d \in Call : ~Served(d)'
    BY <1>1 DEF Kept, Dead
  <2> QED  BY <1>1 DEF StartInv, Kept, Dead
<1> QED  BY <1>2, <1>3, <1>4, <1>5, <1>6 DEF StartInv

LEMMA SyncKept == ASSUME StartInv, [SyncNext]_syncVars PROVE StartInv'
<1>1. CASE UNCHANGED syncVars
  <2>1. Elsewhere
    BY <1>1 DEF syncVars, Elsewhere, StartInv, StartTypes, SyncTypes
  <2> QED  BY <2>1, SyncElsewhere
<1>2. CASE Elsewhere
  BY <1>2, SyncElsewhere
<1>3. ASSUME NEW c \in Call, Step(c), SyncTypes' PROVE StartInv'
  <2>1. StartTypes'
    BY <1>3 DEF Step, Moving, StartInv, StartTypes, ServerOf
  <2>2. ASSUME NEW d \in Call PROVE Own(d)'
    <3>1. d # c => Alike(d) /\ at'[d] = at[d] /\ Own(d)
      BY <1>3 DEF Step, Moving, StartInv
    <3>2. CASE d # c
      BY <3>1, <3>2 DEF Alike, Own
    <3>3. CASE d = c
      BY <1>3, <3>3 DEF Step
    <3> QED  BY <3>2, <3>3
  <2>3. Turns' /\ SlotFiles' /\ Kept' /\ CapIsStrict' /\ Gates'
    BY <1>3, CallTurns, CallFiles, CallKept, CallCap
  <2> QED  BY <2>1, <2>2, <2>3 DEF StartInv
<1> QED  BY <1>1, <1>2, <1>3, SyncSteps

\* A start without awaits keeps the caller's cap and its identities, leaves nothing when it
\* fails, and holds its slot and its file together (SyncStartsAreWhole), whatever the calls,
\* the servers, their deaths and the faults.
THEOREM SyncStartsHold == SyncSpec => []SyncStartsAreWhole
<1>1. SyncInit => StartInv
  BY SyncInits
<1>2. StartInv /\ [SyncNext]_syncVars => StartInv'
  BY SyncKept
<1>3. StartInv => SyncStartsAreWhole
  <2> SUFFICES ASSUME StartInv PROVE SyncStartsAreWhole
    OBVIOUS
  <2>1. /\ \A c \in Call : Own(c)
        /\ \A c \in Call : \A k \in Slot : dir[k] = c => k = slot[c] /\ at[c] \in Filed
        /\ slot \in [Call -> Slot] /\ NoCall \notin Call /\ spools \subseteq Call \X Stream
    BY SyncAssumption DEF StartInv, StartTypes, SyncTypes, SlotFiles, NoCall
  <2>2. NothingIsLeft
    <3> SUFFICES ASSUME NEW c \in Call, at[c] \in {"failed", "reused"}
                 PROVE  /\ process[c] = "none" /\ holds[c] = NoSlot
                        /\ \A k \in Slot : dir[k] # c
                        /\ spools \cap ({c} \X Stream) = {}
                        /\ note[c] \in {"none", "done"} => "temporary" \notin archive[c]
      BY DEF NothingIsLeft
    <3>1. Own(c) /\ at[c] \notin Filed /\ at[c] \notin Gone /\ at[c] # "started"
      BY <2>1 DEF Filed, Registered, Holding, Gone
    <3>2. at[c] \notin Holding /\ at[c] \notin Spooled
      BY DEF Holding, Spooled, Gone
    <3>3. spools \cap ({c} \X Stream) = {}
      BY <3>1, <3>2 DEF Own
    <3> QED  BY <2>1, <3>1, <3>2, <3>3 DEF Own
  <2>3. \A k \in Slot : \A c \in Call : dir[k] = c =>
          holds[c] = k \/ at[c] \in {"write", "unrecorded", "give back", "unlink own",
                                     "ended", "ended, to unlink"}
    BY <2>1 DEF Own, Filed, Registered
  <2>4. (\A c \in Call : Served(c)) \/ TwoServers =>
          \A c \in Call : Served(c) /\ holds[c] # NoSlot => dir[holds[c]] = c
    BY <2>1 DEF StartInv, Kept, Own, Owning
  <2> QED  BY <2>2, <2>3, <2>4 DEF SyncStartsAreWhole, SlotsAreAccounted, StartInv
<1> QED  BY <1>1, <1>2, <1>3, PTL DEF SyncSpec

==================================================================================
