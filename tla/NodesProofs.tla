---------------------------- MODULE NodesProofs ----------------------------
(***************************************************************************)
(* Proofs about the nodes of MCNodes, each for every value of its          *)
(* constants: delay, state machine, catch and status, file tail and watch, *)
(* tcp-request, tcp-out as a client, udp, the framers and the log buffer.  *)
(* A section has the inductive invariant of its node, one lemma per        *)
(* action, and the theorem that the invariant gives.  The last section     *)
(* adds the types those invariants leave open.                             *)
(***************************************************************************)
EXTENDS MCNodes, FiniteSetTheorems, SequenceTheorems, NaturalsInduction,
        WellFoundedInduction, TLAPS

-----------------------------------------------------------------------------
(***************************************************************************)
(* The delay node.                                                         *)
(***************************************************************************)

DlSet(s) == {s[i] : i \in 1 .. Len(s)}
DlRising(s) == \A i, j \in 1 .. Len(s) : i < j => s[i] < s[j]
DlDistinct(s) == \A i, j \in 1 .. Len(s) : i < j => s[i] # s[j]

DlTypes ==
    /\ dlMode \in {"timed", "queue", "drop", "other"}
    /\ dlAt \in [DelayMsg -> {"new", "held", "queued", "taken", "sent", "discarded"}]
    /\ dlGo \in [DelayMsg -> {"none", "waiting", "leaving", "uncounted", "done"}]
    /\ dlQueue \in Seq(DelayMsg) /\ dlOut \in Seq(DelayMsg)
    /\ dlPending \in Int
    /\ dlLoop \in [op : {"idle", "go", "push", "evict", "add", "show", "reset", "flush"},
                   msg : DelayMsg \cup {0}]
    /\ dlWorker \in [op : {"none", "idle", "sending", "counting", "showing", "gone"},
                     msg : DelayMsg \cup {0}]
    /\ dlCtl \in [count : Nat, bypassed : BOOLEAN]

(* The message the worker is sending, and the one the loop is pushing. *)
DlSending == IF dlWorker.op = "sending" THEN {dlWorker.msg} ELSE {}
DlPushing == IF dlLoop.op \in {"push", "evict"} THEN {dlLoop.msg} ELSE {}
DlNew == {m \in DelayMsg : dlAt[m] = "new"}

(* Every message is in one place. *)
DlPlaces ==
    /\ \A m \in DelayMsg :
         /\ dlGo[m] = "waiting" => dlAt[m] = "held"
         /\ dlGo[m] \in {"leaving", "uncounted", "done"} => dlAt[m] \in {"sent", "discarded"}
    /\ dlLoop.op = "go" => dlLoop.msg \in DelayMsg /\ dlAt[dlLoop.msg] = "held"
                           /\ dlGo[dlLoop.msg] = "none"
    /\ \A m \in DlSending \cup DlPushing : m \in DelayMsg /\ dlAt[m] = "taken"
    /\ DlSending \cap DlPushing = {}
    /\ \A m \in DlSet(dlQueue) : dlAt[m] = "queued"
    /\ \A m \in DlSet(dlOut) : dlAt[m] = "sent"
    /\ DlDistinct(dlQueue) /\ DlDistinct(dlOut)

(* What the counter counts: what is held or queued, and what has left and  *)
(* is not uncounted yet; a message is in the channel before it is counted. *)
DlCounted == {m \in DelayMsg : dlAt[m] \in {"held", "queued"} \/ dlGo[m] = "leaving"}
DlOwed == (IF dlWorker.op \in {"sending", "counting"} THEN 1 ELSE 0)
          - (IF dlLoop.op = "add" THEN 1 ELSE 0)
DlCount == dlPending = Cardinality(DlCounted) + DlOwed

DlShows ==
    \/ dlShown = dlPending
    \/ dlLoop.op # "idle" \/ dlWorker.op = "showing"
    \/ \E m \in DelayMsg : dlGo[m] = "uncounted"

DlPlain == dlMode = "queue" /\ ~dlCtl.bypassed

DlBefore(A, B) == \A a \in A, b \in B : a < b

DlOrder ==
    /\ \A m \in DelayMsg : dlGo[m] = "none"
    /\ dlLoop.op \notin {"go", "flush"}
    /\ DlRising(dlOut) /\ DlRising(dlQueue)
    /\ DlBefore(DlSet(dlOut), DlSending \cup DlSet(dlQueue) \cup DlPushing \cup DlNew)
    /\ DlBefore(DlSending, DlSet(dlQueue) \cup DlPushing \cup DlNew)
    /\ DlBefore(DlSet(dlQueue), DlPushing \cup DlNew)
    /\ DlBefore(DlPushing, DlNew)

DlInv == DlTypes /\ DlPlaces /\ DlCount /\ DlShows /\ (DlPlain => DlOrder)

-----------------------------------------------------------------------------
\* The first message is taken from the queue.
LEMMA DlTakeFirst ==
    ASSUME NEW s \in Seq(DelayMsg), s # <<>>, DlDistinct(s)
    PROVE  /\ Head(s) \in DelayMsg /\ Tail(s) \in Seq(DelayMsg)
           /\ DlSet(s) = {Head(s)} \cup DlSet(Tail(s))
           /\ Head(s) \notin DlSet(Tail(s)) /\ DlDistinct(Tail(s))
           /\ DlRising(s) => DlRising(Tail(s)) /\ DlBefore({Head(s)}, DlSet(Tail(s)))
<1> DEFINE t == Tail(s)
<1>1. /\ Head(s) = s[1] /\ Head(s) \in DelayMsg /\ t \in Seq(DelayMsg)
      /\ Len(s) \in Nat /\ Len(s) >= 1
      /\ Len(t) = Len(s) - 1 /\ \A i \in 1 .. Len(t) : t[i] = s[i + 1]
  OBVIOUS
<1> HIDE DEF t
<1>2. Len(t) \in Nat /\ 1 \in 1 .. Len(s)
  BY <1>1
<1>3. \A i \in 1 .. Len(t) : i + 1 \in 1 .. Len(s) /\ 1 < i + 1
  BY <1>1, <1>2
<1>4. \A i, j \in 1 .. Len(t) : i < j => i + 1 < j + 1
  BY <1>1, <1>2
<1>5. DlDistinct(t)
  BY <1>1, <1>3, <1>4 DEF DlDistinct
<1>6. DlSet(s) = {s[1]} \cup DlSet(t)
  <2>1. ASSUME NEW i \in 1 .. Len(s), i # 1 PROVE s[i] \in DlSet(t)
    <3>1. i - 1 \in 1 .. Len(t) /\ (i - 1) + 1 = i
      BY <1>1, <1>2, <2>1
    <3>2. t[i - 1] = s[i]
      BY <1>1, <3>1
    <3> QED BY <3>1, <3>2 DEF DlSet
  <2>2. ASSUME NEW i \in 1 .. Len(t) PROVE t[i] \in DlSet(s)
    <3>1. i + 1 \in 1 .. Len(s) /\ t[i] = s[i + 1]
      BY <1>1, <1>3
    <3> QED BY <3>1 DEF DlSet
  <2>3. s[1] \in DlSet(s)
    BY <1>2 DEF DlSet
  <2> QED BY <2>1, <2>2, <2>3 DEF DlSet
<1>7. s[1] \notin DlSet(t)
  BY <1>1, <1>2, <1>3 DEF DlSet, DlDistinct
<1>8. DlRising(s) => DlRising(t)
  BY <1>1, <1>3, <1>4 DEF DlRising
<1>9. DlRising(s) => DlBefore({s[1]}, DlSet(t))
  BY <1>1, <1>2, <1>3 DEF DlRising, DlBefore, DlSet
<1> QED
  BY <1>1, <1>5, <1>6, <1>7, <1>8, <1>9 DEF t

\* A message joins the end of the queue.
LEMMA DlAddLast ==
    ASSUME NEW s \in Seq(DelayMsg), NEW x \in DelayMsg, DlDistinct(s), x \notin DlSet(s)
    PROVE  /\ Append(s, x) \in Seq(DelayMsg) /\ DlDistinct(Append(s, x))
           /\ DlSet(Append(s, x)) = DlSet(s) \cup {x}
           /\ DlRising(s) /\ DlBefore(DlSet(s), {x}) => DlRising(Append(s, x))
<1> DEFINE t == Append(s, x)
<1>1. /\ t \in Seq(DelayMsg) /\ Len(s) \in Nat /\ Len(t) = Len(s) + 1
      /\ t[Len(s) + 1] = x /\ \A i \in 1 .. Len(s) : t[i] = s[i]
  OBVIOUS
<1> HIDE DEF t
<1>2. /\ \A i \in 1 .. Len(t) : i \in 1 .. Len(s) \/ i = Len(s) + 1
      /\ \A i \in 1 .. Len(s) : i \in 1 .. Len(t)
      /\ Len(s) + 1 \in 1 .. Len(t)
  BY <1>1
<1>3. \A i, j \in 1 .. Len(t) : i < j => i \in 1 .. Len(s)
  BY <1>1
<1>4. DlSet(t) = DlSet(s) \cup {x}
  BY <1>1, <1>2 DEF DlSet
<1>5. DlDistinct(t)
  BY <1>1, <1>2, <1>3 DEF DlSet, DlDistinct
<1>6. DlRising(s) /\ DlBefore(DlSet(s), {x}) => DlRising(t)
  BY <1>1, <1>2, <1>3 DEF DlSet, DlRising, DlBefore
<1> QED
  BY <1>1, <1>4, <1>5, <1>6 DEF t

\* The empty queue.
LEMMA DlEmpty == DlSet(<<>>) = {} /\ DlRising(<<>>) /\ DlDistinct(<<>>)
BY DEF DlSet, DlRising, DlDistinct

\* One message more, or one fewer, is counted.
LEMMA DlCardinal ==
    ASSUME NEW C \in SUBSET DelayMsg
    PROVE  /\ Cardinality(C) \in Nat
           /\ \A x \in C : Cardinality(C \ {x}) = Cardinality(C) - 1
           /\ \A x \in DelayMsg \ C : Cardinality(C \cup {x}) = Cardinality(C) + 1
<1>1. IsFiniteSet(DelayMsg)
  BY FS_Interval, DelayAssumption DEF DelayMsg
<1>2. IsFiniteSet(C)
  BY <1>1, FS_Subset
<1>3. Cardinality(C) \in Nat
  BY <1>2, FS_CardinalityType
<1>4. ASSUME NEW x \in C PROVE Cardinality(C \ {x}) = Cardinality(C) - 1
  BY <1>2, FS_RemoveElement
<1>5. ASSUME NEW x \in DelayMsg \ C PROVE Cardinality(C \cup {x}) = Cardinality(C) + 1
  BY <1>2, FS_AddElement
<1> QED
  BY <1>3, <1>4, <1>5

-----------------------------------------------------------------------------
(* The order of arrival: written, in the worker's hands, queued, about to  *)
(* be queued, not yet arrived.                                             *)
DlChain(O, W, Q, P, N) ==
    /\ DlBefore(O, W \cup Q \cup P \cup N) /\ DlBefore(W, Q \cup P \cup N)
    /\ DlBefore(Q, P \cup N) /\ DlBefore(P, N)

\* Moving the first message of one place to the end of the next keeps the
\* order of arrival.
LEMMA DlChainMoves ==
    ASSUME NEW O, NEW W, NEW Q, NEW P, NEW N, DlChain(O, W, Q, P, N)
    PROVE  /\ DlChain(O \cup W, {}, Q, P, N)
           /\ DlChain(O, W, Q \cup P, {}, N)
           /\ DlChain(O, W, Q, {}, N)
           /\ DlBefore(O, W) /\ DlBefore(Q, P)
           /\ \A h, T : Q = {h} \cup T => DlChain(O, W, T, P, N)
           /\ \A h, T : Q = {h} \cup T /\ W = {} /\ DlBefore({h}, T) => DlChain(O, {h}, T, P, N)
           /\ \A m \in N : P = {} /\ DlBefore({m}, N \ {m}) => DlChain(O, W, Q, {m}, N \ {m})
BY DEF DlChain, DlBefore

\* The order of arrival, place by place.
LEMMA DlOrderMeans ==
    DlOrder <=> /\ \A m \in DelayMsg : dlGo[m] = "none"
                /\ dlLoop.op \notin {"go", "flush"}
                /\ DlRising(dlOut) /\ DlRising(dlQueue)
                /\ DlChain(DlSet(dlOut), DlSending, DlSet(dlQueue), DlPushing, DlNew)
BY Zenon DEF DlOrder, DlChain

\* The same in the next state.
LEMMA DlOrderMeansNext ==
    DlOrder' <=> /\ \A m \in DelayMsg : dlGo'[m] = "none"
                 /\ dlLoop'.op \notin {"go", "flush"}
                 /\ DlRising(dlOut') /\ DlRising(dlQueue')
                 /\ DlChain(DlSet(dlOut'), DlSending', DlSet(dlQueue'), DlPushing', DlNew')
BY Zenon DEF DlOrder, DlChain, DlRising, DlSet, DlBefore

\* A delay node starts with nothing held.
LEMMA DlInitInv == DelayInit => DlInv
<1> SUFFICES ASSUME DelayInit PROVE DlInv
  OBVIOUS
<1>1. /\ dlLoop.op = "idle" /\ dlLoop.msg = 0 /\ dlWorker.op \in {"idle", "none"} /\ dlWorker.msg = 0
      /\ DlTypes
  BY DEF DelayInit, DelayIdle, DlTypes
<1>2. /\ DlSet(dlQueue) = {} /\ DlSet(dlOut) = {} /\ DlRising(dlQueue) /\ DlRising(dlOut)
      /\ DlDistinct(dlQueue) /\ DlDistinct(dlOut) /\ DlSending = {} /\ DlPushing = {}
  BY <1>1, DlEmpty DEF DelayInit, DlSending, DlPushing
<1>3. DlPlaces
  BY <1>1, <1>2 DEF DlPlaces, DelayInit
<1>4. DlCounted = {} /\ DlOwed = 0
  BY <1>1 DEF DlCounted, DlOwed, DelayInit
<1>5. DlCount
  BY <1>4, FS_EmptySet DEF DlCount, DelayInit
<1>6. DlShows
  BY DEF DelayInit, DlShows
<1>7. DlOrder
  BY <1>1, <1>2, DlOrderMeans DEF DlChain, DlBefore, DelayInit
<1> QED
  BY <1>1, <1>3, <1>5, <1>6, <1>7 DEF DlInv

-----------------------------------------------------------------------------
(* A control message or msg.delay ends the promise of order for good. *)
LEMMA DlPlainOnlyEnds ==
    ASSUME DlTypes, DelayNext
    PROVE  /\ DlPlain' => DlPlain
           /\ \A m \in DelayMsg : DelayHandleTimed(m) => ~DlPlain'
           /\ DelayControl("flush") => ~DlPlain'
<1>1. ASSUME NEW m \in DelayMsg, DelayHandleTimed(m) PROVE ~DlPlain'
  <2>1. dlCtl' = [dlCtl EXCEPT !.bypassed = TRUE] /\ dlCtl \in [count : Nat, bypassed : BOOLEAN]
    BY <1>1 DEF DelayHandleTimed, DlTypes
  <2>2. dlCtl'.bypassed = TRUE
    BY <2>1
  <2> QED BY <2>2 DEF DlPlain
<1>2. ASSUME NEW kind, DelayControl(kind) PROVE (DlPlain' => DlPlain) /\ (kind = "flush" => ~DlPlain')
  <2>1. dlCtl'.bypassed = (dlCtl.bypassed \/ kind = "flush") /\ dlMode' = dlMode
    BY <1>2 DEF DelayControl
  <2> QED BY <2>1, Zenon DEF DlPlain
<1>3. CASE dlCtl' = dlCtl /\ dlMode' = dlMode
  BY <1>1, <1>2, <1>3 DEF DlPlain
<1>4. CASE \E m \in DelayMsg : DelayHandleTimed(m)
  BY <1>1, <1>2, <1>4
<1>5. CASE \E kind \in {"reset", "flush"} : DelayControl(kind)
  BY <1>1, <1>2, <1>5
<1> QED
  BY <1>3, <1>4, <1>5
     DEF DelayNext, DelayProgress, DelayHandleDrop, DelayHandleOther, DelayHandleQueue, DelayCooled,
         DelayWorkerTick, DelayStop, DelayGo, DelayEvict, DelayPush, DelayAdd, DelayShow, DelayDrain,
         DelayWake, DelayUncount, DelayExit, DelayWorkerSend, DelayWorkerCount, DelayWorkerDone,
         DelayStopped

\* A message that gets a goroutine of its own.
LEMMA DlTimedKeeps ==
    ASSUME DlInv, NEW m \in DelayMsg, DelayHandleTimed(m), ~DlPlain'
    PROVE  DlInv'
<1>1. /\ DlTypes /\ DlPlaces /\ DlCount /\ DlShows
      /\ dlLoop.op = "idle" /\ dlAt[m] = "new" /\ dlGo[m] = "none"
      /\ UNCHANGED <<dlMode, dlGo, dlQueue, dlShown, dlWorker>>
  BY DEF DlInv, DelayHandleTimed, DelayNextMsg, DelayIdle, DlPlaces, DlTypes
<1>2. dlCtl' \in [count : Nat, bypassed : BOOLEAN]
  BY <1>1 DEF DelayHandleTimed, DlTypes
<1>3. CASE DelaySend(m) /\ UNCHANGED <<dlPending, dlLoop>>
  <2>1. /\ dlAt' = [dlAt EXCEPT ![m] = "sent"] /\ dlOut' = Append(dlOut, m)
        /\ dlAt' \in [DelayMsg -> {"new", "held", "queued", "taken", "sent", "discarded"}]
        /\ dlOut \in Seq(DelayMsg) /\ DlDistinct(dlOut) /\ m \notin DlSet(dlOut)
    BY <1>1, <1>3 DEF DelaySend, DlTypes, DlPlaces
  <2>2. /\ dlOut' \in Seq(DelayMsg) /\ DlDistinct(dlOut') /\ DlSet(dlOut') = DlSet(dlOut) \cup {m}
    BY <2>1, DlAddLast
  <2>3. DlTypes'
    BY <1>1, <1>2, <1>3, <2>1, <2>2 DEF DlTypes
  <2>4. DlPlaces'
    BY <1>1, <1>3, <2>1, <2>2 DEF DlPlaces, DlTypes, DlSending, DlPushing
  <2>5. DlCounted' = DlCounted /\ DlOwed' = DlOwed
    BY <1>1, <1>3, <2>1 DEF DlCounted, DlOwed, DlTypes
  <2>6. DlCount' /\ DlShows'
    BY <1>1, <1>3, <2>5 DEF DlCount, DlShows
  <2> QED BY <2>3, <2>4, <2>6 DEF DlInv
<1>4. CASE /\ dlAt' = [dlAt EXCEPT ![m] = "held"]
           /\ dlPending' = dlPending + 1
           /\ dlLoop' = [op |-> "go", msg |-> m]
           /\ UNCHANGED dlOut
  <2>1. dlLoop'.op = "go" /\ dlLoop'.msg = m /\ dlOut' = dlOut
    BY <1>4
  <2>2. DlTypes'
    BY <1>1, <1>2, <1>4 DEF DlTypes
  <2>3. DlPlaces'
    BY <1>1, <1>4, <2>1 DEF DlPlaces, DlTypes, DlSending, DlPushing
  <2>4. DlCounted' = DlCounted \cup {m} /\ m \notin DlCounted /\ DlOwed' = DlOwed
    BY <1>1, <1>4, <2>1 DEF DlCounted, DlOwed, DlTypes
  <2>5. Cardinality(DlCounted') = Cardinality(DlCounted) + 1 /\ Cardinality(DlCounted) \in Nat
    BY <2>4, DlCardinal DEF DlCounted
  <2>6. DlCount' /\ DlShows'
    BY <1>1, <1>4, <2>1, <2>4, <2>5 DEF DlCount, DlShows, DlOwed
  <2> QED BY <2>2, <2>3, <2>6 DEF DlInv
<1> QED
  BY <1>3, <1>4 DEF DelayHandleTimed, DelayScheduleAfter

\* The loop starts the goroutine.
LEMMA DlGoKeeps ==
    ASSUME DlInv, DelayGo, DlPlain' => DlPlain
    PROVE  DlInv'
<1>1. /\ DlTypes /\ DlPlaces /\ DlCount /\ dlLoop.op = "go" /\ dlLoop.msg \in DelayMsg
      /\ dlAt[dlLoop.msg] = "held" /\ dlGo[dlLoop.msg] = "none"
      /\ dlLoop'.op = "idle" /\ dlLoop'.msg = 0 /\ dlLoop' = [op |-> "idle", msg |-> 0]
      /\ dlGo' = [dlGo EXCEPT ![dlLoop.msg] = "waiting"]
      /\ dlShown' = dlPending
      /\ UNCHANGED <<dlMode, dlAt, dlQueue, dlPending, dlWorker, dlOut, dlCtl>>
  BY DEF DlInv, DelayGo, DelayIdle, DlPlaces, DlTypes
<1>2. DlTypes'
  BY <1>1 DEF DlTypes
<1>3. DlPlaces'
  BY <1>1 DEF DlPlaces, DlTypes, DlSending, DlPushing
<1>4. DlCounted' = DlCounted /\ DlOwed' = DlOwed
  BY <1>1 DEF DlCounted, DlOwed, DlTypes
<1>5. DlCount' /\ DlShows'
  BY <1>1, <1>4 DEF DlCount, DlShows
<1>6. ~DlPlain'
  BY <1>1 DEF DlInv, DlOrder
<1> QED
  BY <1>2, <1>3, <1>5, <1>6 DEF DlInv

\* The select of the goroutine: the timer, a flush, a reset or Stop.
LEMMA DlWakeKeeps ==
    ASSUME DlInv, NEW m \in DelayMsg, DelayWake(m), DlPlain' => DlPlain
    PROVE  DlInv'
<1>1. /\ DlTypes /\ DlPlaces /\ DlCount /\ DlShows /\ dlGo[m] = "waiting" /\ dlAt[m] = "held"
      /\ dlGo' = [dlGo EXCEPT ![m] = "leaving"]
      /\ UNCHANGED <<dlMode, dlQueue, dlPending, dlShown, dlLoop, dlWorker, dlCtl>>
  BY DEF DlInv, DelayWake, DlPlaces
<1>2. ~DlPlain'
  BY <1>1 DEF DlInv, DlOrder
<1>3. ASSUME NEW v \in {"sent", "discarded"}, dlAt' = [dlAt EXCEPT ![m] = v]
      PROVE  DlCount' /\ DlShows'
  <2>1. DlCounted' = DlCounted /\ DlOwed' = DlOwed
    BY <1>1, <1>3 DEF DlCounted, DlOwed, DlTypes
  <2> QED BY <1>1, <2>1 DEF DlCount, DlShows, DlTypes
<1>4. CASE DelaySend(m)
  <2>1. /\ dlAt' = [dlAt EXCEPT ![m] = "sent"] /\ dlOut' = Append(dlOut, m)
        /\ dlOut \in Seq(DelayMsg) /\ DlDistinct(dlOut) /\ m \notin DlSet(dlOut)
    BY <1>1, <1>4 DEF DelaySend, DlTypes, DlPlaces
  <2>2. /\ dlOut' \in Seq(DelayMsg) /\ DlDistinct(dlOut') /\ DlSet(dlOut') = DlSet(dlOut) \cup {m}
    BY <2>1, DlAddLast
  <2>3. DlTypes'
    BY <1>1, <2>1, <2>2 DEF DlTypes
  <2>4. DlPlaces'
    BY <1>1, <2>1, <2>2 DEF DlPlaces, DlTypes, DlSending, DlPushing
  <2> QED BY <1>2, <1>3, <2>1, <2>3, <2>4 DEF DlInv
<1>5. CASE dlAt' = [dlAt EXCEPT ![m] = "discarded"] /\ UNCHANGED dlOut
  <2>1. DlTypes'
    BY <1>1, <1>5 DEF DlTypes
  <2>2. DlPlaces'
    BY <1>1, <1>5 DEF DlPlaces, DlTypes, DlSending, DlPushing
  <2> QED BY <1>2, <1>3, <1>5, <2>1, <2>2 DEF DlInv
<1> QED
  BY <1>4, <1>5 DEF DelayWake

\* The goroutine counts its message down and ends.
LEMMA DlLeaveKeeps ==
    ASSUME DlInv, NEW m \in DelayMsg, DelayUncount(m) \/ DelayExit(m), DlPlain' => DlPlain
    PROVE  DlInv'
<1>1. /\ DlTypes /\ DlPlaces /\ DlCount /\ DlShows /\ dlGo[m] \in {"leaving", "uncounted"}
      /\ dlAt[m] \in {"sent", "discarded"}
      /\ UNCHANGED <<dlMode, dlAt, dlQueue, dlLoop, dlWorker, dlOut, dlCtl>>
  BY DEF DlInv, DelayUncount, DelayExit, DlPlaces
<1>2. ~DlPlain'
  BY <1>1 DEF DlInv, DlOrder
<1>3. CASE DelayUncount(m)
  <2>1. dlGo' = [dlGo EXCEPT ![m] = "uncounted"] /\ dlPending' = dlPending - 1 /\ dlGo[m] = "leaving"
    BY <1>3 DEF DelayUncount
  <2>2. DlTypes' /\ DlPlaces'
    BY <1>1, <2>1 DEF DlTypes, DlPlaces, DlSending, DlPushing
  <2>3. DlCounted' = DlCounted \ {m} /\ m \in DlCounted /\ DlOwed' = DlOwed
    BY <1>1, <2>1 DEF DlCounted, DlOwed, DlTypes
  <2>4. Cardinality(DlCounted') = Cardinality(DlCounted) - 1 /\ Cardinality(DlCounted) \in Nat
    BY <2>3, DlCardinal DEF DlCounted
  <2>5. DlCount'
    BY <1>1, <2>1, <2>3, <2>4 DEF DlCount, DlOwed
  <2>6. DlShows'
    BY <1>1, <2>1 DEF DlShows, DlTypes
  <2> QED BY <1>2, <2>2, <2>5, <2>6 DEF DlInv
<1>4. CASE DelayExit(m)
  <2>1. /\ dlGo' = [dlGo EXCEPT ![m] = "done"] /\ dlPending' = dlPending /\ dlShown' = dlPending
        /\ dlGo[m] = "uncounted"
    BY <1>4 DEF DelayExit
  <2>2. DlTypes' /\ DlPlaces'
    BY <1>1, <2>1 DEF DlTypes, DlPlaces, DlSending, DlPushing
  <2>3. DlCounted' = DlCounted /\ DlOwed' = DlOwed
    BY <1>1, <2>1 DEF DlCounted, DlOwed, DlTypes
  <2>4. DlCount' /\ DlShows'
    BY <1>1, <2>1, <2>3 DEF DlCount, DlShows
  <2> QED BY <1>2, <2>2, <2>4 DEF DlInv
<1> QED
  BY <1>3, <1>4

\* The modes without a queue send the message or drop it.
LEMMA DlDropKeeps ==
    ASSUME DlInv, NEW m \in DelayMsg, DelayHandleDrop(m) \/ DelayHandleOther(m), DlPlain' => DlPlain
    PROVE  DlInv'
<1>1. /\ DlTypes /\ DlPlaces /\ DlCount /\ DlShows /\ dlGo[m] = "none" /\ dlAt[m] = "new"
      /\ UNCHANGED <<dlMode, dlGo, dlQueue, dlPending, dlShown, dlLoop, dlWorker, dlCtl>>
      /\ dlMode # "queue"
  BY DEF DlInv, DelayHandleDrop, DelayHandleOther, DelayNextMsg, DlPlaces, DlTypes
<1>2. ~DlPlain'
  BY <1>1 DEF DlPlain
<1>3. ASSUME NEW v \in {"sent", "discarded"}, dlAt' = [dlAt EXCEPT ![m] = v]
      PROVE  DlCount' /\ DlShows'
  <2>1. DlCounted' = DlCounted /\ DlOwed' = DlOwed
    BY <1>1, <1>3 DEF DlCounted, DlOwed, DlTypes
  <2> QED BY <1>1, <2>1 DEF DlCount, DlShows, DlTypes
<1>4. CASE DelaySend(m)
  <2>1. /\ dlAt' = [dlAt EXCEPT ![m] = "sent"] /\ dlOut' = Append(dlOut, m)
        /\ dlOut \in Seq(DelayMsg) /\ DlDistinct(dlOut) /\ m \notin DlSet(dlOut)
    BY <1>1, <1>4 DEF DelaySend, DlTypes, DlPlaces
  <2>2. /\ dlOut' \in Seq(DelayMsg) /\ DlDistinct(dlOut') /\ DlSet(dlOut') = DlSet(dlOut) \cup {m}
    BY <2>1, DlAddLast
  <2>3. DlTypes'
    BY <1>1, <2>1, <2>2 DEF DlTypes
  <2>4. DlPlaces'
    BY <1>1, <2>1, <2>2 DEF DlPlaces, DlTypes, DlSending, DlPushing
  <2> QED BY <1>2, <1>3, <2>1, <2>3, <2>4 DEF DlInv
<1>5. CASE dlAt' = [dlAt EXCEPT ![m] = "discarded"] /\ UNCHANGED dlOut
  <2>1. DlTypes'
    BY <1>1, <1>5 DEF DlTypes
  <2>2. DlPlaces'
    BY <1>1, <1>5 DEF DlPlaces, DlTypes, DlSending, DlPushing
  <2> QED BY <1>2, <1>3, <1>5, <2>1, <2>2 DEF DlInv
<1> QED
  BY <1>4, <1>5 DEF DelayHandleDrop, DelayHandleOther

(* A message of the rate queue arrives: it is the first of the new ones. *)
LEMMA DlArriveKeeps ==
    ASSUME DlInv, NEW m \in DelayMsg, DelayHandleQueue(m), DlPlain' => DlPlain
    PROVE  DlInv'
<1>1. /\ DlTypes /\ DlPlaces /\ DlCount /\ DlShows /\ dlGo[m] = "none" /\ dlAt[m] = "new"
      /\ dlLoop.op = "idle"
      /\ dlLoop' = [op |-> IF Len(dlQueue) < DelayQueueLen THEN "push" ELSE "evict", msg |-> m]
      /\ dlLoop'.op \in {"push", "evict"} /\ dlLoop'.msg = m
      /\ dlAt' = [dlAt EXCEPT ![m] = "taken"]
      /\ UNCHANGED <<dlMode, dlGo, dlQueue, dlPending, dlShown, dlWorker, dlOut, dlCtl>>
  BY DEF DlInv, DelayHandleQueue, DelayNextMsg, DelayIdle, DlPlaces, DlTypes
<1>2. /\ DlSending' = DlSending /\ DlPushing = {} /\ DlPushing' = {m}
      /\ DlNew' = DlNew \ {m} /\ m \in DlNew
  BY <1>1 DEF DlSending, DlPushing, DlNew, DlTypes
<1>3. DlTypes'
  BY <1>1 DEF DlTypes
<1>4. DlPlaces'
  BY <1>1, <1>2 DEF DlPlaces, DlTypes
<1>5. DlCounted' = DlCounted /\ DlOwed' = DlOwed
  BY <1>1 DEF DlCounted, DlOwed, DlTypes
<1>6. DlCount' /\ DlShows'
  BY <1>1, <1>5 DEF DlCount, DlShows
<1>7. ASSUME DlOrder PROVE DlOrder'
  <2>1. \A n \in DelayMsg : n < m => dlAt[n] # "new"
    BY DEF DelayHandleQueue, DelayNextMsg
  <2>2. DlBefore({m}, DlNew \ {m})
    BY <2>1, DelayAssumption DEF DlBefore, DlNew, DelayMsg
  <2>3. DlChain(DlSet(dlOut), DlSending, DlSet(dlQueue), {m}, DlNew \ {m})
    BY <1>2, <1>7, <2>2, DlOrderMeans, DlChainMoves
  <2> QED BY <1>1, <1>2, <1>7, <2>3, DlOrderMeans, DlOrderMeansNext
<1> QED
  BY <1>3, <1>4, <1>6, <1>7 DEF DlInv

(* The oldest message leaves the queue: for eviction, reset or flush. *)
LEMMA DlHeadLeaves ==
    ASSUME DlInv, dlQueue # <<>>, dlQueue' = Tail(dlQueue),
           NEW v \in {"discarded", "sent", "taken"}, dlAt' = [dlAt EXCEPT ![Head(dlQueue)] = v]
    PROVE  /\ Head(dlQueue) \in DelayMsg /\ dlAt[Head(dlQueue)] = "queued" /\ dlGo[Head(dlQueue)] = "none"
           /\ dlQueue' \in Seq(DelayMsg) /\ DlDistinct(dlQueue')
           /\ DlSet(dlQueue) = {Head(dlQueue)} \cup DlSet(dlQueue')
           /\ Head(dlQueue) \notin DlSet(dlQueue')
           /\ DlRising(dlQueue) => DlRising(dlQueue') /\ DlBefore({Head(dlQueue)}, DlSet(dlQueue'))
           /\ dlAt' \in [DelayMsg -> {"new", "held", "queued", "taken", "sent", "discarded"}]
           /\ DlNew' = DlNew
           /\ dlGo' = dlGo => /\ DlCounted' = DlCounted \ {Head(dlQueue)}
                              /\ Cardinality(DlCounted') = Cardinality(DlCounted) - 1
                              /\ Cardinality(DlCounted) \in Nat
<1>1. /\ Head(dlQueue) \in DelayMsg /\ dlQueue' \in Seq(DelayMsg) /\ DlDistinct(dlQueue')
      /\ DlSet(dlQueue) = {Head(dlQueue)} \cup DlSet(dlQueue')
      /\ Head(dlQueue) \notin DlSet(dlQueue')
      /\ DlRising(dlQueue) => DlRising(dlQueue') /\ DlBefore({Head(dlQueue)}, DlSet(dlQueue'))
  BY DlTakeFirst DEF DlInv, DlTypes, DlPlaces
<1>2. dlAt[Head(dlQueue)] = "queued"
  BY <1>1 DEF DlInv, DlPlaces
<1>3. dlGo[Head(dlQueue)] = "none" /\ dlGo \in [DelayMsg -> {"none", "waiting", "leaving", "uncounted", "done"}]
  BY <1>1, <1>2 DEF DlInv, DlPlaces, DlTypes
<1>4. dlAt' \in [DelayMsg -> {"new", "held", "queued", "taken", "sent", "discarded"}]
  BY <1>1 DEF DlInv, DlTypes
<1>5. DlNew' = DlNew
  BY <1>1, <1>2, <1>4 DEF DlNew, DlInv, DlTypes
<1>6. ASSUME dlGo' = dlGo
      PROVE  /\ DlCounted' = DlCounted \ {Head(dlQueue)}
             /\ Cardinality(DlCounted') = Cardinality(DlCounted) - 1
             /\ Cardinality(DlCounted) \in Nat
  <2>1. DlCounted' = DlCounted \ {Head(dlQueue)} /\ Head(dlQueue) \in DlCounted
    BY <1>1, <1>2, <1>3, <1>6 DEF DlCounted, DlInv, DlTypes
  <2> QED BY <2>1, DlCardinal DEF DlCounted
<1> QED
  BY <1>1, <1>2, <1>3, <1>4, <1>5, <1>6

\* A queue that is full drops its oldest message.
LEMMA DlEvictKeeps ==
    ASSUME DlInv, DelayEvict, DlPlain' => DlPlain
    PROVE  DlInv'
<1>1. /\ DlTypes /\ DlPlaces /\ DlCount /\ DlShows /\ dlLoop.op = "evict"
      /\ dlLoop'.op = "push" /\ dlLoop'.msg = dlLoop.msg
      /\ dlLoop' \in [op : {"idle", "go", "push", "evict", "add", "show", "reset", "flush"},
                      msg : DelayMsg \cup {0}]
      /\ UNCHANGED <<dlMode, dlGo, dlShown, dlWorker, dlOut, dlCtl>>
  BY DEF DlInv, DelayEvict, DlTypes
<1>2. DlSending' = DlSending /\ DlPushing' = DlPushing /\ DlOwed' = DlOwed
  BY <1>1 DEF DlSending, DlPushing, DlOwed
<1>3. CASE UNCHANGED <<dlQueue, dlAt, dlPending>>
  <2>1. DlTypes' /\ DlPlaces'
    BY <1>1, <1>2, <1>3 DEF DlTypes, DlPlaces
  <2>2. DlCounted' = DlCounted /\ DlNew' = DlNew
    BY <1>1, <1>3 DEF DlCounted, DlNew
  <2>3. DlCount' /\ DlShows'
    BY <1>1, <1>2, <1>3, <2>2 DEF DlCount, DlShows
  <2>4. DlOrder => DlOrder'
    BY <1>1, <1>2, <1>3, <2>2, DlOrderMeans, DlOrderMeansNext
  <2> QED BY <2>1, <2>3, <2>4 DEF DlInv
<1>4. CASE /\ dlQueue # <<>> /\ dlQueue' = Tail(dlQueue)
           /\ dlAt' = [dlAt EXCEPT ![Head(dlQueue)] = "discarded"]
           /\ dlPending' = dlPending - 1
  <2> DEFINE h == Head(dlQueue)
  <2>1. /\ h \in DelayMsg /\ dlAt[h] = "queued" /\ dlGo[h] = "none"
        /\ dlQueue' \in Seq(DelayMsg) /\ DlDistinct(dlQueue')
        /\ DlSet(dlQueue) = {h} \cup DlSet(dlQueue') /\ h \notin DlSet(dlQueue')
        /\ DlRising(dlQueue) => DlRising(dlQueue')
        /\ dlAt' \in [DelayMsg -> {"new", "held", "queued", "taken", "sent", "discarded"}]
        /\ DlNew' = DlNew
        /\ Cardinality(DlCounted') = Cardinality(DlCounted) - 1 /\ Cardinality(DlCounted) \in Nat
    BY <1>1, <1>4, DlHeadLeaves
  <2> HIDE DEF h
  <2>2. dlAt' = [dlAt EXCEPT ![h] = "discarded"]
    BY <1>4 DEF h
  <2>3. DlTypes'
    BY <1>1, <1>4, <2>1 DEF DlTypes
  <2>4. DlPlaces'
    BY <1>1, <1>2, <2>1, <2>2 DEF DlPlaces, DlTypes
  <2>5. DlCount' /\ DlShows'
    <3>1. DlOwed \in Int
      BY DEF DlOwed
    <3> QED BY <1>1, <1>2, <1>4, <2>1, <3>1 DEF DlCount, DlShows
  <2>6. ASSUME DlOrder PROVE DlOrder'
    <3>1. DlChain(DlSet(dlOut), DlSending, DlSet(dlQueue'), DlPushing, DlNew)
      BY <2>1, <2>6, DlOrderMeans, DlChainMoves
    <3> QED BY <1>1, <1>2, <2>1, <2>6, <3>1, DlOrderMeans, DlOrderMeansNext
  <2> QED BY <2>3, <2>4, <2>5, <2>6 DEF DlInv
<1> QED
  BY <1>3, <1>4 DEF DelayEvict

\* A message is put into the queue and counted.
LEMMA DlPushKeeps ==
    ASSUME DlInv, DelayPush, DlPlain' => DlPlain
    PROVE  DlInv'
<1> DEFINE m == dlLoop.msg
<1>1. /\ DlTypes /\ DlPlaces /\ DlCount /\ DlShows /\ dlLoop.op = "push"
      /\ m \in DelayMsg /\ dlAt[m] = "taken" /\ dlGo[m] = "none" /\ DlPushing = {m}
      /\ UNCHANGED <<dlMode, dlGo, dlPending, dlShown, dlWorker, dlOut, dlCtl>>
  BY DEF DlInv, DelayPush, DlTypes, DlPlaces, DlPushing
<1>2. DlSending' = DlSending
  BY <1>1 DEF DlSending
<1>3. CASE /\ dlQueue' = Append(dlQueue, m)
           /\ dlAt' = [dlAt EXCEPT ![m] = "queued"]
           /\ dlLoop' = [dlLoop EXCEPT !.op = "add"]
  <2>1. /\ dlLoop'.op = "add" /\ dlLoop'.msg = m
        /\ dlLoop' \in [op : {"idle", "go", "push", "evict", "add", "show", "reset", "flush"},
                        msg : DelayMsg \cup {0}]
        /\ DlPushing' = {} /\ m \notin DlSet(dlQueue) /\ dlQueue \in Seq(DelayMsg) /\ DlDistinct(dlQueue)
    BY <1>1, <1>3 DEF DlTypes, DlPlaces, DlPushing
  <2>2. /\ dlQueue' \in Seq(DelayMsg) /\ DlDistinct(dlQueue') /\ DlSet(dlQueue') = DlSet(dlQueue) \cup {m}
        /\ DlRising(dlQueue) /\ DlBefore(DlSet(dlQueue), {m}) => DlRising(dlQueue')
    BY <1>1, <1>3, <2>1, DlAddLast
  <2>3. DlTypes'
    BY <1>1, <1>3, <2>1, <2>2 DEF DlTypes
  <2>4. DlPlaces'
    BY <1>1, <1>2, <1>3, <2>1, <2>2 DEF DlPlaces, DlTypes
  <2>5. DlCounted' = DlCounted \cup {m} /\ m \notin DlCounted /\ DlOwed' = DlOwed - 1 /\ DlNew' = DlNew
    BY <1>1, <1>3, <2>1 DEF DlCounted, DlOwed, DlTypes, DlNew
  <2>6. Cardinality(DlCounted') = Cardinality(DlCounted) + 1 /\ Cardinality(DlCounted) \in Nat
    BY <1>1, <2>5, DlCardinal DEF DlCounted
  <2>7. DlCount' /\ DlShows'
    BY <1>1, <2>1, <2>5, <2>6 DEF DlCount, DlShows, DlOwed
  <2>8. ASSUME DlOrder PROVE DlOrder'
    <3>1. /\ DlChain(DlSet(dlOut), DlSending, DlSet(dlQueue'), {}, DlNew)
          /\ DlBefore(DlSet(dlQueue), {m}) /\ DlRising(dlQueue)
      <4>1. DlChain(DlSet(dlOut), DlSending, DlSet(dlQueue), {m}, DlNew)
        BY <1>1, <2>8, DlOrderMeans
      <4>2. DlRising(dlQueue)
        BY <2>8, DlOrderMeans
      <4> QED BY <2>2, <4>1, <4>2, DlChainMoves
    <3> QED BY <1>1, <1>2, <2>1, <2>2, <2>5, <2>8, <3>1, DlOrderMeans, DlOrderMeansNext
  <2> QED BY <2>3, <2>4, <2>7, <2>8 DEF DlInv
<1>4. CASE /\ dlAt' = [dlAt EXCEPT ![m] = "discarded"]
           /\ dlLoop' = [dlLoop EXCEPT !.op = "show"]
           /\ UNCHANGED dlQueue
  <2>1. /\ dlLoop'.op = "show" /\ dlLoop'.msg = m
        /\ dlLoop' \in [op : {"idle", "go", "push", "evict", "add", "show", "reset", "flush"},
                        msg : DelayMsg \cup {0}]
        /\ DlPushing' = {}
    BY <1>1, <1>4 DEF DlTypes, DlPushing
  <2>2. DlTypes'
    BY <1>1, <1>4, <2>1 DEF DlTypes
  <2>3. DlPlaces'
    BY <1>1, <1>2, <1>4, <2>1 DEF DlPlaces, DlTypes
  <2>4. DlCounted' = DlCounted /\ DlOwed' = DlOwed /\ DlNew' = DlNew
    BY <1>1, <1>4, <2>1 DEF DlCounted, DlOwed, DlTypes, DlNew
  <2>5. DlCount' /\ DlShows'
    BY <1>1, <2>1, <2>4 DEF DlCount, DlShows
  <2>6. ASSUME DlOrder PROVE DlOrder'
    <3>1. DlChain(DlSet(dlOut), DlSending, DlSet(dlQueue), {}, DlNew)
      BY <2>6, DlOrderMeans, DlChainMoves
    <3> QED BY <1>1, <1>2, <1>4, <2>1, <2>4, <2>6, <3>1, DlOrderMeans, DlOrderMeansNext
  <2> QED BY <2>2, <2>3, <2>5, <2>6 DEF DlInv
<1> QED
  BY <1>3, <1>4 DEF DelayPush

\* The count and the status after a message was queued.
LEMMA DlAddShowKeeps ==
    ASSUME DlInv, DelayAdd \/ DelayShow, DlPlain' => DlPlain
    PROVE  DlInv'
<1>1. /\ DlTypes /\ DlPlaces /\ DlCount /\ DlShows /\ dlLoop.op \in {"add", "show"}
      /\ UNCHANGED <<dlMode, dlAt, dlGo, dlQueue, dlWorker, dlOut, dlCtl>>
  BY DEF DlInv, DelayAdd, DelayShow
<1>2. /\ dlLoop'.op \in {"show", "idle"}
      /\ dlLoop' \in [op : {"idle", "go", "push", "evict", "add", "show", "reset", "flush"},
                      msg : DelayMsg \cup {0}]
      /\ dlLoop'.op = "show" => dlLoop.op = "add" /\ dlPending' = dlPending + 1
      /\ dlLoop'.op = "idle" => dlLoop.op = "show" /\ dlPending' = dlPending /\ dlShown' = dlPending
  BY <1>1 DEF DelayAdd, DelayShow, DelayIdle, DlTypes
<1>3. /\ DlSending' = DlSending /\ DlPushing' = {} /\ DlPushing = {} /\ DlNew' = DlNew
      /\ DlCounted' = DlCounted
  BY <1>1, <1>2 DEF DlSending, DlPushing, DlNew, DlCounted
<1>4. DlTypes'
  BY <1>1, <1>2 DEF DlTypes
<1>5. DlPlaces'
  BY <1>1, <1>2, <1>3 DEF DlPlaces
<1>6. DlCount'
  <2>1. Cardinality(DlCounted) \in Nat
    BY DlCardinal DEF DlCounted
  <2> QED BY <1>1, <1>2, <1>3, <2>1 DEF DlCount, DlOwed
<1>7. DlShows'
  BY <1>2 DEF DlShows
<1>8. DlOrder => DlOrder'
  BY <1>1, <1>2, <1>3, DlOrderMeans, DlOrderMeansNext
<1> QED
  BY <1>4, <1>5, <1>6, <1>7, <1>8 DEF DlInv

\* The worker takes the oldest message on its tick.
LEMMA DlTickKeeps ==
    ASSUME DlInv, DelayWorkerTick, DlPlain' => DlPlain
    PROVE  DlInv'
<1> DEFINE h == Head(dlQueue)
<1>1. /\ DlTypes /\ DlPlaces /\ DlCount /\ DlShows /\ dlWorker.op = "idle" /\ dlQueue # <<>>
      /\ dlQueue' = Tail(dlQueue) /\ dlAt' = [dlAt EXCEPT ![h] = "taken"]
      /\ dlWorker' = [op |-> "sending", msg |-> h]
      /\ UNCHANGED <<dlMode, dlGo, dlPending, dlShown, dlLoop, dlOut, dlCtl>>
  BY DEF DlInv, DelayWorkerTick
<1>2. /\ h \in DelayMsg /\ dlAt[h] = "queued" /\ dlGo[h] = "none"
      /\ dlQueue' \in Seq(DelayMsg) /\ DlDistinct(dlQueue')
      /\ DlSet(dlQueue) = {h} \cup DlSet(dlQueue') /\ h \notin DlSet(dlQueue')
      /\ DlRising(dlQueue) => DlRising(dlQueue') /\ DlBefore({h}, DlSet(dlQueue'))
      /\ dlAt' \in [DelayMsg -> {"new", "held", "queued", "taken", "sent", "discarded"}]
      /\ DlNew' = DlNew
      /\ Cardinality(DlCounted') = Cardinality(DlCounted) - 1 /\ Cardinality(DlCounted) \in Nat
  BY <1>1, DlHeadLeaves
<1> HIDE DEF h
<1>3. /\ DlSending = {} /\ DlSending' = {h} /\ DlPushing' = DlPushing /\ dlWorker'.op = "sending"
      /\ dlWorker'.msg = h
  BY <1>1 DEF DlSending, DlPushing
<1>4. DlTypes'
  BY <1>1, <1>2 DEF DlTypes
<1>5. DlPlaces'
  BY <1>1, <1>2, <1>3 DEF DlPlaces, DlTypes
<1>6. DlCount'
  BY <1>1, <1>2, <1>3 DEF DlCount, DlOwed
<1>7. DlShows'
  BY <1>1 DEF DlShows
<1>8. ASSUME DlOrder PROVE DlOrder'
  <2>1. DlChain(DlSet(dlOut), {}, DlSet(dlQueue), DlPushing, DlNew) /\ DlRising(dlQueue)
    BY <1>3, <1>8, DlOrderMeans
  <2>2. DlChain(DlSet(dlOut), {h}, DlSet(dlQueue'), DlPushing, DlNew)
    BY <1>2, <2>1, DlChainMoves
  <2> QED BY <1>1, <1>2, <1>3, <1>8, <2>2, DlOrderMeans, DlOrderMeansNext
<1> QED
  BY <1>4, <1>5, <1>6, <1>7, <1>8 DEF DlInv

\* The worker sends what it took.
LEMMA DlWorkerSendKeeps ==
    ASSUME DlInv, DelayWorkerSend, DlPlain' => DlPlain
    PROVE  DlInv'
<1> DEFINE m == dlWorker.msg
<1>1. /\ DlTypes /\ DlPlaces /\ DlCount /\ DlShows /\ dlWorker.op = "sending"
      /\ dlAt' = [dlAt EXCEPT ![m] = "sent"] /\ dlOut' = Append(dlOut, m)
      /\ dlWorker' = [op |-> "counting", msg |-> 0] /\ dlWorker'.op = "counting"
      /\ UNCHANGED <<dlMode, dlGo, dlQueue, dlPending, dlShown, dlLoop, dlCtl>>
  BY DEF DlInv, DelayWorkerSend, DelaySend
<1>2. DlSending = {m} /\ DlSending' = {} /\ DlPushing' = DlPushing /\ DlOwed' = DlOwed
  BY <1>1 DEF DlSending, DlPushing, DlOwed
<1>3. m \in DelayMsg /\ dlAt[m] = "taken" /\ dlGo[m] = "none"
  BY <1>1, <1>2 DEF DlPlaces, DlTypes
<1>4. dlOut \in Seq(DelayMsg) /\ DlDistinct(dlOut) /\ m \notin DlSet(dlOut)
  BY <1>1, <1>3 DEF DlTypes, DlPlaces
<1>5. /\ dlOut' \in Seq(DelayMsg) /\ DlDistinct(dlOut') /\ DlSet(dlOut') = DlSet(dlOut) \cup {m}
      /\ DlRising(dlOut) /\ DlBefore(DlSet(dlOut), {m}) => DlRising(dlOut')
  BY <1>1, <1>3, <1>4, DlAddLast
<1>6. DlTypes'
  BY <1>1, <1>5 DEF DlTypes
<1>7. DlPlaces'
  BY <1>1, <1>2, <1>3, <1>5 DEF DlPlaces, DlTypes
<1>8. DlCounted' = DlCounted /\ DlNew' = DlNew
  BY <1>1, <1>3 DEF DlCounted, DlNew, DlTypes
<1>9. DlCount' /\ DlShows'
  BY <1>1, <1>2, <1>8 DEF DlCount, DlShows
<1>10. ASSUME DlOrder PROVE DlOrder'
  <2>1. DlChain(DlSet(dlOut), {m}, DlSet(dlQueue), DlPushing, DlNew) /\ DlRising(dlOut)
    BY <1>2, <1>10, DlOrderMeans
  <2>2. DlChain(DlSet(dlOut'), {}, DlSet(dlQueue), DlPushing, DlNew) /\ DlBefore(DlSet(dlOut), {m})
    <3> HIDE DEF m
    <3>1. /\ DlChain(DlSet(dlOut) \cup {m}, {}, DlSet(dlQueue), DlPushing, DlNew)
          /\ DlBefore(DlSet(dlOut), {m})
      BY <2>1, DlChainMoves, Zenon
    <3> QED BY <1>5, <3>1
  <2> QED BY <1>1, <1>2, <1>5, <1>8, <1>10, <2>1, <2>2, DlOrderMeans, DlOrderMeansNext
<1> QED
  BY <1>6, <1>7, <1>9, <1>10 DEF DlInv

\* The worker counts down what it sent, or ends with done.
LEMMA DlWorkerCountKeeps ==
    ASSUME DlInv, DelayWorkerCount \/ DelayWorkerDone, DlPlain' => DlPlain
    PROVE  DlInv'
<1>1. /\ DlTypes /\ DlPlaces /\ DlCount /\ DlShows
      /\ UNCHANGED <<dlMode, dlAt, dlGo, dlQueue, dlLoop, dlOut, dlCtl>>
  BY DEF DlInv, DelayWorkerCount, DelayWorkerDone
<1>2. /\ dlWorker' \in [op : {"showing", "idle", "gone"}, msg : {0}]
      /\ dlWorker.op \in {"counting", "showing", "idle"}
      /\ dlWorker'.op = "showing" => dlWorker.op = "counting" /\ dlPending' = dlPending - 1
      /\ dlWorker'.op = "idle" => dlWorker.op = "showing" /\ dlPending' = dlPending /\ dlShown' = dlPending
      /\ dlWorker'.op = "gone" => dlWorker.op = "idle" /\ dlPending' = dlPending /\ dlShown' = dlShown
  BY <1>1 DEF DelayWorkerCount, DelayWorkerDone, DelayIdle
<1>3. dlWorker'.op \in {"showing", "idle", "gone"}
  BY <1>2
<1>4. /\ DlSending' = {} /\ DlSending = {} /\ DlPushing' = DlPushing /\ DlNew' = DlNew
      /\ DlCounted' = DlCounted
  BY <1>1, <1>2, <1>3 DEF DlSending, DlPushing, DlNew, DlCounted
<1>5. DlTypes'
  BY <1>1, <1>2, <1>3 DEF DlTypes
<1>6. DlPlaces'
  BY <1>1, <1>4 DEF DlPlaces
<1>7. DlCount'
  <2>1. Cardinality(DlCounted) \in Nat
    BY DlCardinal DEF DlCounted
  <2> QED BY <1>1, <1>2, <1>3, <1>4, <2>1 DEF DlCount, DlOwed
<1>8. DlShows'
  BY <1>1, <1>2, <1>3 DEF DlShows
<1>9. DlOrder => DlOrder'
  BY <1>1, <1>4, DlOrderMeans, DlOrderMeansNext
<1> QED
  BY <1>5, <1>6, <1>7, <1>8, <1>9 DEF DlInv

\* A control message arrives.
LEMMA DlControlKeeps ==
    ASSUME DlInv, NEW kind \in {"reset", "flush"}, DelayControl(kind), DlPlain' => DlPlain,
           kind = "flush" => ~DlPlain'
    PROVE  DlInv'
<1>1. /\ DlTypes /\ DlPlaces /\ DlCount /\ DlShows /\ dlLoop.op = "idle"
      /\ UNCHANGED <<dlMode, dlAt, dlGo, dlQueue, dlPending, dlShown, dlWorker, dlOut>>
      /\ dlLoop' \in [op : {"idle", kind}, msg : {0}]
  BY DEF DlInv, DelayControl, DelayIdle
<1>2. dlLoop'.op \in {"idle", kind}
  BY <1>1
<1>3. dlCtl' \in [count : Nat, bypassed : BOOLEAN]
  <2>1. dlCtl.count \in Nat /\ dlCtl.count + 1 \in Nat
    BY <1>1 DEF DlTypes
  <2>2. (dlCtl.bypassed \/ kind = "flush") \in BOOLEAN
    OBVIOUS
  <2> QED BY <2>1, <2>2 DEF DelayControl
<1>4. /\ DlSending' = DlSending /\ DlPushing' = {} /\ DlPushing = {} /\ DlNew' = DlNew
      /\ DlCounted' = DlCounted /\ DlOwed' = DlOwed
  BY <1>1, <1>2 DEF DlSending, DlPushing, DlNew, DlCounted, DlOwed
<1>5. DlTypes'
  BY <1>1, <1>3 DEF DlTypes
<1>6. DlPlaces'
  BY <1>1, <1>2, <1>4 DEF DlPlaces
<1>7. DlCount' /\ DlShows'
  BY <1>1, <1>4 DEF DlCount, DlShows
<1>8. DlOrder /\ kind # "flush" => DlOrder'
  BY <1>1, <1>2, <1>4, DlOrderMeans, DlOrderMeansNext
<1> QED
  BY <1>5, <1>6, <1>7, <1>8 DEF DlInv

\* A flush or a reset empties the queue.
LEMMA DlDrainKeeps ==
    ASSUME DlInv, DelayDrain, DlPlain' => DlPlain
    PROVE  DlInv'
<1>1. /\ DlTypes /\ DlPlaces /\ DlCount /\ DlShows /\ dlLoop.op \in {"reset", "flush"}
      /\ UNCHANGED <<dlMode, dlGo, dlWorker, dlCtl>>
  BY DEF DlInv, DelayDrain
<1>2. CASE dlQueue = <<>>
  <2>1. /\ dlLoop' = [op |-> "idle", msg |-> 0] /\ dlLoop'.op = "idle" /\ dlShown' = dlPending
        /\ UNCHANGED <<dlQueue, dlAt, dlOut, dlPending>>
    BY <1>2 DEF DelayDrain, DelayIdle
  <2>2. /\ DlSending' = DlSending /\ DlPushing' = {} /\ DlPushing = {} /\ DlNew' = DlNew
        /\ DlCounted' = DlCounted /\ DlOwed' = DlOwed
    BY <1>1, <2>1 DEF DlSending, DlPushing, DlNew, DlCounted, DlOwed
  <2>3. DlTypes'
    BY <1>1, <2>1 DEF DlTypes
  <2>4. DlPlaces'
    BY <1>1, <2>1, <2>2 DEF DlPlaces
  <2>5. DlCount' /\ DlShows'
    BY <1>1, <2>1, <2>2 DEF DlCount, DlShows
  <2>6. DlOrder => DlOrder'
    BY <1>1, <2>1, <2>2, DlOrderMeans, DlOrderMeansNext
  <2> QED BY <2>3, <2>4, <2>5, <2>6 DEF DlInv
<1>3. CASE dlQueue # <<>>
  <2> DEFINE h == Head(dlQueue)
             v == IF dlLoop.op = "flush" THEN "sent" ELSE "discarded"
  <2>1. /\ dlQueue' = Tail(dlQueue) /\ dlPending' = dlPending - 1
        /\ dlAt' = [dlAt EXCEPT ![h] = v] /\ dlLoop' = dlLoop /\ dlShown' = dlShown
        /\ dlOut' = IF dlLoop.op = "flush" THEN Append(dlOut, h) ELSE dlOut
    BY <1>1, <1>3 DEF DelayDrain, DelaySend
  <2>2. /\ h \in DelayMsg /\ dlAt[h] = "queued" /\ dlGo[h] = "none"
        /\ dlQueue' \in Seq(DelayMsg) /\ DlDistinct(dlQueue')
        /\ DlSet(dlQueue) = {h} \cup DlSet(dlQueue') /\ h \notin DlSet(dlQueue')
        /\ DlRising(dlQueue) => DlRising(dlQueue')
        /\ dlAt' \in [DelayMsg -> {"new", "held", "queued", "taken", "sent", "discarded"}]
        /\ DlNew' = DlNew
        /\ Cardinality(DlCounted') = Cardinality(DlCounted) - 1 /\ Cardinality(DlCounted) \in Nat
    BY <1>1, <1>3, <2>1, DlHeadLeaves
  <2> HIDE DEF h
  <2>3. /\ DlSending' = DlSending /\ DlPushing' = {} /\ DlPushing = {} /\ DlOwed' = DlOwed
        /\ DlOwed \in Int
    BY <1>1, <2>1 DEF DlSending, DlPushing, DlOwed
  <2>4. DlCount' /\ DlShows'
    BY <1>1, <2>1, <2>2, <2>3 DEF DlCount, DlShows
  <2>5. CASE dlLoop.op = "flush"
    <3>1. /\ dlAt' = [dlAt EXCEPT ![h] = "sent"] /\ dlOut' = Append(dlOut, h)
          /\ dlOut \in Seq(DelayMsg) /\ DlDistinct(dlOut) /\ h \notin DlSet(dlOut)
      BY <1>1, <2>1, <2>2, <2>5 DEF DlTypes, DlPlaces
    <3>2. /\ dlOut' \in Seq(DelayMsg) /\ DlDistinct(dlOut') /\ DlSet(dlOut') = DlSet(dlOut) \cup {h}
      BY <2>2, <3>1, DlAddLast
    <3>3. DlTypes'
      BY <1>1, <2>1, <2>2, <3>2 DEF DlTypes
    <3>4. DlPlaces'
      BY <1>1, <2>1, <2>2, <2>3, <2>5, <3>1, <3>2 DEF DlPlaces, DlTypes
    <3>5. ~DlPlain'
      BY <2>5 DEF DlInv, DlOrder
    <3> QED BY <2>4, <3>3, <3>4, <3>5 DEF DlInv
  <2>6. CASE dlLoop.op = "reset"
    <3>1. dlAt' = [dlAt EXCEPT ![h] = "discarded"] /\ dlOut' = dlOut
      BY <2>1, <2>6
    <3>2. DlTypes'
      BY <1>1, <2>1, <2>2, <3>1 DEF DlTypes
    <3>3. DlPlaces'
      BY <1>1, <2>1, <2>2, <2>3, <2>6, <3>1 DEF DlPlaces, DlTypes
    <3>4. ASSUME DlOrder PROVE DlOrder'
      <4>1. DlChain(DlSet(dlOut), DlSending, DlSet(dlQueue'), DlPushing, DlNew)
        BY <2>2, <3>4, DlOrderMeans, DlChainMoves
      <4> QED BY <1>1, <2>1, <2>2, <2>3, <3>1, <3>4, <4>1, DlOrderMeans, DlOrderMeansNext
    <3> QED BY <2>4, <3>2, <3>3, <3>4 DEF DlInv
  <2> QED BY <1>1, <2>5, <2>6
<1> QED
  BY <1>2, <1>3

\* Stop and the steps that only change who is running.
LEMMA DlOthersKeep ==
    ASSUME DlInv, UNCHANGED <<dlMode, dlAt, dlGo, dlQueue, dlPending, dlShown, dlLoop, dlWorker,
                              dlOut, dlCtl>>
    PROVE  DlInv'
BY DEF DlInv, DlTypes, DlPlaces, DlCount, DlCounted, DlOwed, DlShows, DlPlain, DlOrder,
       DlSending, DlPushing, DlNew

\* Every step keeps the invariant of the delay node.
LEMMA DlNextInv == DlInv /\ [DelayNext]_delayVars => DlInv'
<1> SUFFICES ASSUME DlInv, [DelayNext]_delayVars PROVE DlInv'
  OBVIOUS
<1>1. CASE UNCHANGED delayVars
  BY <1>1, DlOthersKeep DEF delayVars
<1>2. CASE DelayNext
  <2>1. /\ DlPlain' => DlPlain
        /\ \A m \in DelayMsg : DelayHandleTimed(m) => ~DlPlain'
        /\ DelayControl("flush") => ~DlPlain'
    BY <1>2, DlPlainOnlyEnds DEF DlInv
  <2>2. ASSUME NEW m \in DelayMsg,
               DelayHandleTimed(m) \/ DelayHandleDrop(m) \/ DelayHandleOther(m) \/ DelayHandleQueue(m)
        PROVE  DlInv'
    BY <2>1, <2>2, DlTimedKeeps, DlDropKeeps, DlArriveKeeps
  <2>3. ASSUME NEW m \in DelayMsg, DelayWake(m) \/ DelayUncount(m) \/ DelayExit(m)
        PROVE  DlInv'
    BY <2>1, <2>3, DlWakeKeeps, DlLeaveKeeps
  <2>4. ASSUME NEW kind \in {"reset", "flush"}, DelayControl(kind) PROVE DlInv'
    BY <2>1, <2>4, DlControlKeeps
  <2>5. CASE DelayCooled \/ DelayStop \/ DelayStopped
    BY <2>5, DlOthersKeep DEF DelayCooled, DelayStop, DelayStopped
  <2>6. CASE DelayGo \/ DelayEvict \/ DelayPush \/ DelayAdd \/ DelayShow \/ DelayDrain
    BY <2>1, <2>6, DlGoKeeps, DlEvictKeeps, DlPushKeeps, DlAddShowKeeps, DlDrainKeeps
  <2>7. CASE DelayWorkerTick \/ DelayWorkerSend \/ DelayWorkerCount \/ DelayWorkerDone
    BY <2>1, <2>7, DlTickKeeps, DlWorkerSendKeeps, DlWorkerCountKeeps
  <2> QED BY <1>2, <2>2, <2>3, <2>4, <2>5, <2>6, <2>7 DEF DelayNext, DelayProgress
<1> QED
  BY <1>1, <1>2

\* The invariant says what DelaySound does.
LEMMA DlInvSound == DlInv => DelaySound
<1> SUFFICES ASSUME DlInv PROVE DelaySound
  OBVIOUS
<1>1. DelayStatusSettles
  <2> SUFFICES ASSUME DelayQuiet
               PROVE  /\ dlShown = dlPending
                      /\ dlPending = Cardinality({m \in DelayMsg : dlAt[m] \in {"held", "queued"}})
    BY DEF DelayStatusSettles
  <2>1. /\ dlLoop.op = "idle" /\ dlWorker.op \in {"none", "idle", "gone"}
        /\ \A m \in DelayMsg : dlGo[m] \in {"none", "waiting", "done"}
    BY DEF DelayQuiet, DelayIdle
  <2>2. dlShown = dlPending
    BY <2>1 DEF DlInv, DlShows
  <2>3. DlOwed = 0 /\ DlCounted = {m \in DelayMsg : dlAt[m] \in {"held", "queued"}}
    BY <2>1 DEF DlOwed, DlCounted
  <2>4. Cardinality(DlCounted) \in Nat
    BY DlCardinal DEF DlCounted
  <2> QED BY <2>2, <2>3, <2>4 DEF DlInv, DlCount
<1>2. DelayDelivery
  <2>1. DlDistinct(dlOut)
    BY DEF DlInv, DlPlaces
  <2>2. DlPlain => DlRising(dlOut)
    BY DEF DlInv, DlOrder
  <2> QED BY <2>1, <2>2, Zenon DEF DelayDelivery, DlDistinct, DlRising, DlPlain
<1> QED
  BY <1>1, <1>2 DEF DelaySound

(***************************************************************************)
(* The delay node settles and delivers: however the message loop, the      *)
(* goroutines of the held messages, the rate worker and Stop interleave,   *)
(* for any number of messages and any queue length, once all have settled  *)
(* the editor shows the number of messages held, no message is sent twice, *)
(* and the rate queue keeps the order of arrival (delay.go: HandleMessage, *)
(* scheduleAfter, rateWorker, updateStatus).                               *)
(***************************************************************************)
THEOREM DelayIsSound == DelaySpec => []DelaySound
BY DlInitInv, DlNextInv, DlInvSound, PTL DEF DelaySpec

-----------------------------------------------------------------------------
(***************************************************************************)
(* The state machine.                                                      *)
(***************************************************************************)

SmTransition == [from : SmStates, to : SmStates]

(* The types, with the history over an opaque set. *)
SmTypes ==
    /\ smPhase \in {"new", "arming", "running", "stopping", "cancelled", "stopped"}
    /\ smCur \in SmStates
    /\ smArming \subseteq SmDelays
    /\ smTimers \in [SmDelays -> {"none", "armed", "expired"}]
    /\ smStored \in SmStates \cup {NoState, SmGone}
    /\ smShown \in SmStates \cup {NoState}
    /\ smHistory \in Seq(SmTransition) /\ Len(smHistory) <= SmHistCap
    /\ smLoose \in [SmDelays -> 0 .. 1] /\ smWaiting \in [SmDelays -> 0 .. SmLate]
    /\ smPersist \in {"off", "on", "failing"}
    /\ smCount \in 0 .. SmMsgs

(* Nothing happens to a node before Start: no timer is armed, so that none   *)
(* waits for the mutex, and no transition is recorded.                       *)
SmUntouched ==
    smPhase = "new" => /\ smHistory = <<>>
                       /\ smTimers = [d \in SmDelays |-> "none"]
                       /\ smLoose = [d \in SmDelays |-> 0]
                       /\ smWaiting = [d \in SmDelays |-> 0]

(* Start arms a delay once: only then a timer can get lost from n.timers. *)
SmArmedOnce == \A d \in smArming : smLoose[d] = 0

(* The history as a chain of transitions that ends in state s. *)
SmChain(h, s) ==
    \A i \in 1 .. Len(h) :
        /\ h[i].from # h[i].to
        /\ h[i].to = IF i = Len(h) THEN s ELSE h[i + 1].from

SmInv ==
    /\ SmTypes /\ SmUntouched /\ SmArmedOnce
    /\ smPhase # "new" => smShown = smCur
    /\ SmChain(smHistory, smCur)
    /\ (smPersist = "on" /\ smHistory # <<>>) => smStored = smCur
    /\ SmTimersCover

\* A state machine starts in its initial or its stored state.
LEMMA SmInitInv == SmInit => SmInv
<1> SUFFICES ASSUME SmInit PROVE SmInv
  OBVIOUS
<1>1. SmTypes
  <2>1. smHistory \in Seq(SmTransition) /\ Len(smHistory) <= SmHistCap
    BY SmAssumption DEF SmInit
  <2>2. /\ smLoose \in [SmDelays -> 0 .. 1] /\ smWaiting \in [SmDelays -> 0 .. SmLate]
        /\ smCount \in 0 .. SmMsgs
    BY SmAssumption DEF SmInit
  <2> QED BY <2>1, <2>2, SmAssumption DEF SmInit, SmTypes
<1> QED
  BY <1>1, SmAssumption DEF SmInit, SmInv, SmUntouched, SmArmedOnce, SmChain, SmTimersCover, SmAlive

(* Recording a transition keeps the chain, also when the oldest entry has to *)
(* go.                                                                       *)
LEMMA SmChainGrows ==
    ASSUME NEW h \in Seq(SmTransition), NEW from \in SmStates, NEW to \in SmStates,
           from # to, SmChain(h, from), NEW cap \in Nat \ {0}, Len(h) <= cap
    PROVE  LET g == Append(IF Len(h) >= cap THEN Tail(h) ELSE h, [from |-> from, to |-> to])
           IN  g \in Seq(SmTransition) /\ Len(g) <= cap /\ g # <<>> /\ SmChain(g, to)
<1> DEFINE e == [from |-> from, to |-> to]
           k == IF Len(h) >= cap THEN Tail(h) ELSE h
           g == Append(k, e)
<1>1. e \in SmTransition /\ e.from = from /\ e.to = to
  BY DEF SmTransition
<1>2. k \in Seq(SmTransition) /\ Len(k) < cap /\ SmChain(k, from)
  <2>1. CASE Len(h) >= cap
    <3>1. Len(h) \in Nat /\ Len(h) > 0 /\ h # <<>>
      BY <2>1
    <3>2. /\ Tail(h) \in Seq(SmTransition) /\ Len(Tail(h)) = Len(h) - 1
          /\ \A i \in 1 .. Len(Tail(h)) : Tail(h)[i] = h[i + 1]
      BY <3>1
    <3> DEFINE t == Tail(h)
    <3>3. SmChain(t, from)
      <4> HIDE DEF t
      <4>0. /\ Len(t) \in Nat /\ Len(t) = Len(h) - 1
            /\ \A j \in 1 .. Len(t) : t[j] = h[j + 1]
        BY <3>1, <3>2 DEF t
      <4> SUFFICES ASSUME NEW i \in 1 .. Len(t)
                   PROVE  t[i].from # t[i].to /\ t[i].to = IF i = Len(t) THEN from ELSE t[i + 1].from
        BY DEF SmChain
      <4>1. i + 1 \in 1 .. Len(h) /\ (i = Len(t) <=> i + 1 = Len(h))
        BY <3>1, <4>0
      <4>2. i # Len(t) => i + 1 \in 1 .. Len(t)
        BY <4>0
      <4> QED BY <4>0, <4>1, <4>2 DEF SmChain
    <3> QED BY <2>1, <3>1, <3>2, <3>3
  <2>2. CASE ~(Len(h) >= cap)
    BY <2>2
  <2> QED BY <2>1, <2>2
<1> HIDE DEF e, k
<1>3. /\ g \in Seq(SmTransition) /\ Len(g) = Len(k) + 1 /\ Len(k) \in Nat
      /\ g[Len(g)] = e /\ \A i \in 1 .. Len(k) : g[i] = k[i]
  BY <1>1, <1>2
<1> HIDE DEF g
<1>4. SmChain(g, to)
  <2> SUFFICES ASSUME NEW i \in 1 .. Len(g)
               PROVE  g[i].from # g[i].to /\ g[i].to = IF i = Len(g) THEN to ELSE g[i + 1].from
    BY DEF SmChain
  <2>1. CASE i = Len(g)
    BY <1>1, <1>3, <2>1
  <2>2. CASE i # Len(g)
    <3>1. i \in 1 .. Len(k)
      BY <1>3, <2>2
    <3>2. CASE i = Len(k)
      BY <1>1, <1>2, <1>3, <2>2, <3>1, <3>2 DEF SmChain
    <3>3. CASE i # Len(k)
      <4>1. i + 1 \in 1 .. Len(k)
        BY <1>3, <3>1, <3>3
      <4> QED BY <1>2, <1>3, <2>2, <3>1, <3>3, <4>1 DEF SmChain
    <3> QED BY <3>2, <3>3
  <2> QED BY <2>1, <2>2
<1>5. Len(g) <= cap /\ g # <<>>
  BY <1>2, <1>3
<1> QED
  BY <1>3, <1>4, <1>5 DEF g, k, e

(* What a candidate leads to. *)
LEMMA SmTarget ==
    ASSUME NEW cands \in SmCandidates, NEW i \in Eligible(cands)
    PROVE  cands[i].target \in SmStates
<1> DEFINE C == [target : SmStates, guarded : BOOLEAN]
<1>1. cands \in Seq(C) /\ i \in 1 .. Len(cands)
  BY DEF SmCandidates, Eligible
<1>2. cands[i] \in C
  <2> HIDE DEF C
  <2> QED BY <1>1
<1> QED BY <1>2

(* Taking a candidate, from an event or from a timer. *)
LEMMA SmTakeKeeps ==
    ASSUME SmInv, NEW cands \in SmCandidates, SmTake(cands), smPhase # "new",
           UNCHANGED <<smPhase, smArming, smLoose, smPersist>>,
           smWaiting' \in [SmDelays -> 0 .. SmLate], smCount' \in 0 .. SmMsgs
    PROVE  SmInv'
<1>1. CASE SmSame
  BY <1>1 DEF SmSame, SmInv, SmTypes, SmUntouched, SmArmedOnce, SmChain, SmTimersCover, SmAlive, ActiveDelays
<1>2. ASSUME NEW to \in SmStates, to # smCur, SmChange(to) PROVE SmInv'
  <2>1. /\ smHistory' \in Seq(SmTransition) /\ Len(smHistory') <= SmHistCap
        /\ smHistory' # <<>> /\ SmChain(smHistory', to)
    BY <1>2, SmChainGrows, SmAssumption DEF SmInv, SmTypes, SmChange, SmRecord
  <2>2. smTimers' = [d \in SmDelays |-> IF d \in ActiveDelays(to) THEN "armed" ELSE "none"]
    BY <1>2 DEF SmChange, SmRearm
  <2>3. SmTypes'
    BY <1>2, <2>1, <2>2 DEF SmInv, SmTypes, SmChange
  <2>4. SmTimersCover'
    BY <1>2, <2>2 DEF SmTimersCover, SmChange, ActiveDelays
  <2> QED BY <1>2, <2>1, <2>3, <2>4 DEF SmInv, SmUntouched, SmArmedOnce, SmChange
<1>3. SmSame \/ \E to \in SmStates : to # smCur /\ SmChange(to)
  BY SmTarget DEF SmTake
<1> QED
  BY <1>1, <1>2, <1>3

\* Every step keeps the invariant of the state machine.
LEMMA SmNextInv == SmInv /\ [SmNext]_smVars => SmInv'
<1> SUFFICES ASSUME SmInv, [SmNext]_smVars PROVE SmInv'
  OBVIOUS
<1>1. CASE SmStart
  <2>1. smCur' \in SmStates
    BY <1>1, SmAssumption DEF SmStart, SmInv, SmTypes
  <2>2. smArming' \subseteq SmDelays
    BY <1>1 DEF SmStart, ActiveDelays
  <2>3. SmTypes'
    BY <1>1, <2>1, <2>2 DEF SmStart, SmInv, SmTypes
  <2>4. smHistory' = <<>>
    BY <1>1 DEF SmStart, SmInv, SmUntouched
  <2> QED BY <1>1, <2>3, <2>4 DEF SmStart, SmInv, SmUntouched, SmArmedOnce, SmChain, SmTimersCover, ActiveDelays
<1>2. CASE SmArm
  <2>1. smLoose' \in [SmDelays -> 0 .. 1] /\ smTimers' \in [SmDelays -> {"none", "armed", "expired"}]
    BY <1>2 DEF SmArm, SmInv, SmTypes, SmArmedOnce
  <2>2. SmTypes' /\ SmArmedOnce'
    BY <1>2, <2>1 DEF SmArm, SmInv, SmTypes, SmArmedOnce
  <2>3. SmTimersCover'
    BY <1>2 DEF SmArm, SmInv, SmTypes, SmTimersCover, SmAlive, ActiveDelays
  <2> QED BY <1>2, <2>2, <2>3 DEF SmArm, SmInv, SmUntouched, SmChain
<1>3. CASE SmStop
  BY <1>3 DEF SmStop, SmInv, SmTypes, SmUntouched, SmArmedOnce, SmChain, SmTimersCover, SmAlive, ActiveDelays
<1>4. ASSUME NEW d \in SmDelays, SmExpire(d) PROVE SmInv'
  <2>1. /\ smLoose' \in [SmDelays -> 0 .. 1] /\ smTimers' \in [SmDelays -> {"none", "armed", "expired"}]
        /\ smWaiting' \in [SmDelays -> 0 .. SmLate]
    <3>1. smLoose' \in [SmDelays -> 0 .. 1] /\ smTimers' \in [SmDelays -> {"none", "armed", "expired"}]
      <4>1. smLoose[d] \in 0 .. 1 /\ (smLoose[d] > 0 => smLoose[d] - 1 = 0)
        BY DEF SmInv, SmTypes
      <4>2. smLoose' = smLoose \/ smLoose' = [smLoose EXCEPT ![d] = 0]
        BY <1>4, <4>1 DEF SmExpire
      <4>3. smLoose' \in [SmDelays -> 0 .. 1]
        BY <4>2 DEF SmInv, SmTypes
      <4>4. smTimers' = smTimers \/ smTimers' = [smTimers EXCEPT ![d] = "expired"]
        BY <1>4 DEF SmExpire
      <4>5. smTimers' \in [SmDelays -> {"none", "armed", "expired"}]
        BY <4>4 DEF SmInv, SmTypes
      <4> QED BY <4>3, <4>5
    <3>2. smWaiting[d] \in Nat /\ smWaiting[d] + 1 <= SmLate
      BY <1>4, SmAssumption DEF SmExpire, SmInv, SmTypes
    <3>3. smWaiting' \in [SmDelays -> 0 .. SmLate]
      BY <1>4, <3>2, SmAssumption DEF SmExpire, SmInv, SmTypes
    <3> QED BY <3>1, <3>3
  <2>2. SmTypes' /\ SmArmedOnce'
    BY <1>4, <2>1 DEF SmExpire, SmInv, SmTypes, SmArmedOnce
  <2>3. SmTimersCover'
    BY <1>4 DEF SmExpire, SmInv, SmTypes, SmTimersCover, SmAlive, ActiveDelays
  <2>4. smPhase # "new"
    BY <1>4 DEF SmExpire, SmInv, SmUntouched
  <2> QED BY <1>4, <2>2, <2>3, <2>4 DEF SmExpire, SmInv, SmUntouched, SmChain
<1>5. ASSUME NEW d \in SmDelays, SmHandleAfterTimer(d) PROVE SmInv'
  <2>1. SmAfter[smCur][d] \in SmCandidates
    BY SmAssumption DEF SmInv, SmTypes
  <2>2. smPhase # "new"
    BY <1>5 DEF SmHandleAfterTimer, SmInv, SmUntouched
  <2>3. smWaiting' \in [SmDelays -> 0 .. SmLate] /\ smCount' \in 0 .. SmMsgs
    BY <1>5, SmAssumption DEF SmHandleAfterTimer, SmInv, SmTypes
  <2> QED BY <1>5, <2>1, <2>2, <2>3, SmTakeKeeps DEF SmHandleAfterTimer
<1>6. ASSUME NEW ev \in SmEvents, SmHandleMessage(ev) PROVE SmInv'
  <2>1. SmOn[smCur][ev] \in SmCandidates
    BY SmAssumption DEF SmInv, SmTypes
  <2>2. smWaiting' \in [SmDelays -> 0 .. SmLate] /\ smCount' \in 0 .. SmMsgs
    BY <1>6, SmAssumption DEF SmHandleMessage, SmInv, SmTypes
  <2> QED BY <1>6, <2>1, <2>2, SmTakeKeeps DEF SmHandleMessage
<1>7. CASE UNCHANGED smVars
  BY <1>7 DEF smVars, SmInv, SmTypes, SmUntouched, SmArmedOnce, SmChain, SmTimersCover, SmAlive, ActiveDelays
<1> QED
  BY <1>1, <1>2, <1>3, <1>4, <1>5, <1>6, <1>7 DEF SmNext

SmPanicType == smPanicked \in BOOLEAN

\* Whether the machine stopped for a panic is a Boolean.
LEMMA SmPanicMoves ==
    /\ SmInit => SmPanicType
    /\ SmPanicType /\ [SmNext]_smVars => SmPanicType'
<1>1. SmInit => SmPanicType
  BY DEF SmInit, SmPanicType
<1>2. SmPanicType /\ [SmNext]_smVars => SmPanicType'
  BY Zenon DEF SmNext, smVars, SmStart, SmArm, SmStop, SmExpire, SmHandleAfterTimer,
     SmHandleMessage, SmTake, SmPanicType
<1> QED
  BY <1>1, <1>2

\* What the invariant says of the machine, and its types.
LEMMA SmInvIsSound == SmInv /\ SmPanicType => SmSound /\ SmTypeOK
<1> SUFFICES ASSUME SmInv, SmPanicType PROVE SmSound /\ SmTypeOK
  OBVIOUS
<1>1. SmSound
  BY DEF SmInv, SmSound, SmCoherent, SmChain
<1>2. SmTypeOK
  BY Zenon DEF SmInv, SmTypes, SmTypeOK, SmTransition, SmPanicType
<1> QED
  BY <1>1, <1>2

(* State, status, persisted state and history of a state machine agree and   *)
(* no state is without its timers, for every machine definition: whatever    *)
(* Start, events, late timers and Stop interleave.                           *)
THEOREM MachineSound == SmSpec => [](SmSound /\ SmTypeOK)
BY SmInitInv, SmNextInv, SmPanicMoves, SmInvIsSound, PTL DEF SmSpec

-----------------------------------------------------------------------------
(***************************************************************************)
(* Catch and status nodes.                                                 *)
(***************************************************************************)

(* Messages no catch node has seen, and those one may have seen. *)
ObFresh == {m \in ObMsg : ~m.caught /\ m.catches = 0}
ObGood == {m \in ObMsg : m.catches <= 1 /\ (~m.caught => m.catches = 0)}

ObStates == [at : {"idle", "wantError", "inError", "wantStatus", "inStatus"},
             msg : ObGood, errors : SUBSET Nat, statuses : SUBSET Nat, nested : BOOLEAN]

(* Only an error about a message nobody caught is in a fan-out of errors,    *)
(* also while the blink of a catch node fans out inside it.                  *)
ObReporter(r) ==
    /\ r \in ObStates
    /\ r.at \in {"wantError", "inError"} \/ r.nested = TRUE => r.msg \in ObFresh

ObTables ==
    /\ obSeq \in [ObKinds -> Nat]
    /\ obListeners \in [ObKinds -> SUBSET Nat]
    /\ obWriter \in [ObKinds -> {"none", "waiting", "holding"}]
    /\ obDeploy \in [op : {"none", "start", "stop", "rewire"}, kind : ObKinds,
                     at : {"idle", "remove", "add", "show", "showing"}]

ObReporters ==
    /\ obThread \in [ObThreads -> ObStates]
    /\ \A t \in ObThreads : ObReporter(obThread[t])
    /\ obBranch \in Seq(ObGood)

(* A writer waits for or holds the table the deploy is about to change. *)
ObWriterKnown ==
    \A k \in ObKinds : obWriter[k] # "none"
                           => obDeploy.kind = k /\ obDeploy.at \in {"remove", "add"}

ObOne(k) == \E l \in Nat : obListeners[k] = {l}

(* The registrations, also in the middle of an operation on an observer. *)
ObRegistered ==
    \A k \in ObKinds :
        /\ ~(obDeploy.kind = k /\ obDeploy.at \in {"remove", "add"})
               => IF obStarted[k] = TRUE THEN ObOne(k) ELSE obListeners[k] = {}
        /\ (obDeploy.kind = k /\ obDeploy.at = "remove")
               => obDeploy.op \in {"stop", "rewire"}
        /\ (obDeploy.kind = k /\ obDeploy.at = "add")
               => obListeners[k] = {}

ObDeploys ==
    /\ ObTables /\ ObWriterKnown /\ ObRegistered
    /\ obStarted \in [ObKinds -> BOOLEAN]

(* What an observer shows is about a message like any other. *)
ObTexts == [text : {"none", "idle", "blink"}, msg : ObGood]
ObShows == obShown \in [ObKinds -> ObTexts]

ObInv == ObDeploys /\ ObReporters /\ ObShows

(* The messages of the observers. *)
LEMMA ObMessages ==
    /\ ObNew \in ObFresh
    /\ ObFresh \subseteq ObGood
    /\ \A m \in ObGood : makeErrorFunc(m) => m \in ObFresh
    /\ \A m \in ObFresh : [m EXCEPT !.catches = @ + 1, !.caught = TRUE] \in ObGood
    /\ \A m \in ObGood : m.gen \in 0 .. ObGens
    /\ \A g \in 1 .. ObGens : [ObNew EXCEPT !.gen = g] \in ObFresh
<1>1. ObNew \in ObMsg /\ ObNew.caught = FALSE /\ ObNew.catches = 0
  BY ObAssumption DEF ObNew, ObMsg
<1>2. ASSUME NEW g \in 1 .. ObGens, NEW n, n = [ObNew EXCEPT !.gen = g]
      PROVE  n \in ObMsg /\ n.caught = FALSE /\ n.catches = 0
  <2>1. n = [gen |-> g, catches |-> 0, caught |-> FALSE]
    BY <1>2 DEF ObNew
  <2>2. g \in 0 .. ObGens
    BY ObAssumption
  <2> QED BY <2>1, <2>2 DEF ObMsg
<1>3. ASSUME NEW m \in ObMsg, m.catches = 0,
             NEW n, n = [m EXCEPT !.catches = @ + 1, !.caught = TRUE]
      PROVE  n \in ObMsg /\ n.caught = TRUE /\ n.catches = 1
  <2>1. m = [gen |-> m.gen, catches |-> m.catches, caught |-> m.caught] /\ m.gen \in 0 .. ObGens
    BY DEF ObMsg
  <2>2. n = [gen |-> m.gen, catches |-> 1, caught |-> TRUE]
    <3>1. m.catches + 1 = 1
      BY <1>3
    <3>2. n = [m EXCEPT !.catches = 1, !.caught = TRUE]
      BY <1>3, <3>1, Zenon
    <3>3. DOMAIN m = {"gen", "catches", "caught"} /\ m = [f \in DOMAIN m |-> m[f]]
      BY <2>1
    <3> QED BY <3>2, <3>3
  <2> QED BY <2>1, <2>2 DEF ObMsg
<1>4. \A m \in ObMsg : m.gen \in 0 .. ObGens
  BY DEF ObMsg
<1>5. ObNew \in ObFresh /\ \A g \in 1 .. ObGens : [ObNew EXCEPT !.gen = g] \in ObFresh
  BY <1>1, <1>2 DEF ObFresh
<1>6. \A m \in ObFresh : [m EXCEPT !.catches = @ + 1, !.caught = TRUE] \in ObGood
  <2> TAKE m \in ObFresh
  <2> DEFINE n == [m EXCEPT !.catches = @ + 1, !.caught = TRUE]
  <2>1. m \in ObMsg /\ m.catches = 0
    BY DEF ObFresh
  <2>2. n \in ObMsg /\ n.caught = TRUE /\ n.catches = 1
    BY <1>3, <2>1, Zenon
  <2> HIDE DEF n
  <2>3. n \in ObGood
    BY <2>2 DEF ObGood
  <2> QED BY <2>3 DEF n
<1>7. ObFresh \subseteq ObGood /\ \A m \in ObGood : makeErrorFunc(m) => m \in ObFresh
  BY DEF ObFresh, ObGood, makeErrorFunc
<1>8. \A m \in ObGood : m.gen \in 0 .. ObGens
  BY <1>4 DEF ObGood
<1> QED
  BY <1>5, <1>6, <1>7, <1>8

\* A goroutine that reports nothing.
LEMMA ObIdleReports == ObReporter(ObIdle)
BY ObMessages DEF ObReporter, ObIdle, ObStates

\* Before the first deploy nobody is registered.
LEMMA ObInitInv == ObInit => ObInv
<1> SUFFICES ASSUME ObInit PROVE ObInv
  OBVIOUS
<1>1. ObReporters
  BY ObIdleReports DEF ObInit, ObReporters, ObReporter
<1>2. ObDeploys
  BY DEF ObInit, ObDeploys, ObTables, ObWriterKnown, ObRegistered, ObNoOp, ObKinds
<1>3. ObShows
  <2>1. ObText("none", ObNew) \in ObTexts
    BY ObMessages DEF ObText, ObTexts
  <2> QED BY <2>1 DEF ObInit, ObShows
<1> QED
  BY <1>1, <1>2, <1>3 DEF ObInv

(* A thread moves on and leaves the channel alone. *)
LEMMA ObThreadMoves ==
    ASSUME ObReporters, NEW t \in ObThreads, NEW r, ObReporter(r),
           obThread' = [obThread EXCEPT ![t] = r]
    PROVE  /\ obThread' \in [ObThreads -> ObStates]
           /\ \A u \in ObThreads : ObReporter(obThread'[u])
<1>1. \A u \in ObThreads : obThread'[u] = IF u = t THEN r ELSE obThread[u]
  BY DEF ObReporters
<1>2. r \in ObStates
  BY DEF ObReporter
<1>3. obThread' \in [ObThreads -> ObStates]
  BY <1>2 DEF ObReporters
<1>4. ASSUME NEW u \in ObThreads PROVE ObReporter(obThread'[u])
  BY <1>1, Zenon DEF ObReporters
<1> QED
  BY <1>3, <1>4

(* makeErrorFunc and makeStatusFunc. *)
LEMMA ObReportMoves ==
    ASSUME ObReporters, NEW t \in ObThreads, NEW kind \in ObKinds, NEW m \in ObGood,
           ObReport(t, kind, m)
    PROVE  /\ obThread' \in [ObThreads -> ObStates]
           /\ \A u \in ObThreads : ObReporter(obThread'[u])
<1> DEFINE r == IF kind = "catch" /\ ~makeErrorFunc(m) THEN ObIdle
                ELSE [ObIdle EXCEPT !.at = IF kind = "catch" THEN "wantError" ELSE "wantStatus",
                                    !.msg = m]
<1>1. obThread' = [obThread EXCEPT ![t] = r]
  BY DEF ObReport
<1>2. ObReporter(r)
  BY ObMessages, ObIdleReports DEF ObReporter, ObIdle, ObStates, ObKinds
<1> HIDE DEF r
<1> QED
  BY <1>1, <1>2, ObThreadMoves

(* What is put into the branch's channel. *)
LEMMA ObSendKeeps ==
    ASSUME obBranch \in Seq(ObGood), NEW m \in ObGood, ObSend(m)
    PROVE  obBranch' \in Seq(ObGood)
BY DEF ObSend

\* A node begins to report.
LEMMA ObEnterMoves ==
    ASSUME ObInv, NEW t \in ObThreads, ObEnter(t) PROVE ObReporters'
<1>1. /\ ObReporter(obThread[t]) /\ obThread[t] \in ObStates
      /\ obListeners["catch"] \in SUBSET Nat /\ obListeners["status"] \in SUBSET Nat
  BY DEF ObInv, ObReporters, ObDeploys, ObTables, ObKinds
<1>2. CASE /\ obThread[t].at = "wantError"
           /\ obThread' = [obThread EXCEPT ![t].at = "inError", ![t].errors = obListeners["catch"]]
  <2> DEFINE r == [obThread[t] EXCEPT !.at = "inError", !.errors = obListeners["catch"]]
  <2>1. ObReporter(r)
    BY <1>1, <1>2 DEF ObReporter, ObStates
  <2>2. obThread' = [obThread EXCEPT ![t] = r]
    BY <1>2 DEF ObInv, ObReporters
  <2> HIDE DEF r
  <2> QED BY <2>1, <2>2, ObThreadMoves DEF ObInv, ObReporters, ObEnter
<1>3. CASE /\ obThread[t].at = "wantStatus"
           /\ obThread' = [obThread EXCEPT ![t].at = "inStatus", ![t].statuses = obListeners["status"]]
  <2> DEFINE r == [obThread[t] EXCEPT !.at = "inStatus", !.statuses = obListeners["status"]]
  <2>1. ObReporter(r)
    BY <1>1, <1>3 DEF ObReporter, ObStates
  <2>2. obThread' = [obThread EXCEPT ![t] = r]
    BY <1>3 DEF ObInv, ObReporters
  <2> HIDE DEF r
  <2> QED BY <2>1, <2>2, ObThreadMoves DEF ObInv, ObReporters, ObEnter
<1> QED
  BY <1>2, <1>3 DEF ObEnter

\* An error goes to a catch node at most once.
LEMMA ObErrorMoves ==
    ASSUME ObInv, NEW t \in ObThreads, handleError(t) PROVE ObReporters'
<1>0. ObReporters /\ ObReporter(obThread[t]) /\ obThread[t] \in ObStates /\ obBranch \in Seq(ObGood)
  BY DEF ObInv, ObReporters
<1>1. PICK l \in obThread[t].errors :
         \/ /\ obThread' = [obThread EXCEPT ![t].errors = @ \ {l}]
            /\ UNCHANGED <<obBranch, obShown>>
         \/ /\ ObSend([obThread[t].msg EXCEPT !.catches = @ + 1, !.caught = TRUE])
            /\ blink("catch", obThread[t].msg)
            /\ obThread' = [obThread EXCEPT ![t].errors = @ \ {l}, ![t].at = "wantStatus",
                                            ![t].nested = TRUE]
  BY DEF handleError
<1>2. obThread[t].at = "inError"
  BY DEF handleError
<1>3. CASE obThread' = [obThread EXCEPT ![t].errors = @ \ {l}] /\ UNCHANGED obBranch
  <2> DEFINE r == [obThread[t] EXCEPT !.errors = @ \ {l}]
  <2>1. ObReporter(r)
    BY <1>0, <1>2 DEF ObReporter, ObStates
  <2>2. obThread' = [obThread EXCEPT ![t] = r]
    BY <1>0, <1>3 DEF ObReporters
  <2> HIDE DEF r
  <2> QED BY <1>0, <1>3, <2>1, <2>2, ObThreadMoves DEF ObReporters
<1>4. CASE /\ ObSend([obThread[t].msg EXCEPT !.catches = @ + 1, !.caught = TRUE])
           /\ obThread' = [obThread EXCEPT ![t].errors = @ \ {l}, ![t].at = "wantStatus",
                                           ![t].nested = TRUE]
  <2> DEFINE r == [obThread[t] EXCEPT !.errors = @ \ {l}, !.at = "wantStatus", !.nested = TRUE]
  <2>1. ObReporter(r)
    BY <1>0, <1>2 DEF ObReporter, ObStates
  <2>2. obThread' = [obThread EXCEPT ![t] = r]
    BY <1>0, <1>4 DEF ObReporters
  <2>3. [obThread[t].msg EXCEPT !.catches = @ + 1, !.caught = TRUE] \in ObGood
    BY <1>0, <1>2, ObMessages DEF ObReporter
  <2> HIDE DEF r
  <2> QED BY <1>0, <1>4, <2>1, <2>2, <2>3, ObSendKeeps, ObThreadMoves DEF ObReporters
<1> QED
  BY <1>1, <1>3, <1>4

\* A status is told to the listeners that are there.
LEMMA ObStatusMoves ==
    ASSUME ObInv, NEW t \in ObThreads, handleStatus(t) PROVE ObReporters'
<1>0. ObReporters /\ ObReporter(obThread[t]) /\ obThread[t] \in ObStates /\ obBranch \in Seq(ObGood)
  BY DEF ObInv, ObReporters
<1>1. PICK l \in obThread[t].statuses :
         /\ obThread' = [obThread EXCEPT ![t].statuses = @ \ {l}]
         /\ \/ UNCHANGED <<obBranch, obTold, obShown>>
            \/ /\ obThread[t].msg.gen < ObGens
               /\ ObSend([ObNew EXCEPT !.gen = obThread[t].msg.gen + 1])
  BY DEF handleStatus
<1> DEFINE r == [obThread[t] EXCEPT !.statuses = @ \ {l}]
<1>2. ObReporter(r)
  BY <1>0 DEF ObReporter, ObStates
<1>3. obThread' = [obThread EXCEPT ![t] = r]
  BY <1>0, <1>1 DEF ObReporters
<1>4. obBranch' \in Seq(ObGood)
  <2>1. ASSUME obThread[t].msg.gen < ObGens
        PROVE  [ObNew EXCEPT !.gen = obThread[t].msg.gen + 1] \in ObGood
    <3>1. obThread[t].msg.gen \in 0 .. ObGens
      BY <1>0, ObMessages DEF ObStates
    <3>2. obThread[t].msg.gen + 1 \in 1 .. ObGens
      BY <2>1, <3>1, ObAssumption
    <3> QED BY <3>2, ObMessages
  <2> QED BY <1>0, <1>1, <2>1, ObSendKeeps
<1> HIDE DEF r
<1> QED
  BY <1>0, <1>2, <1>3, <1>4, ObThreadMoves DEF ObReporters

\* A report ends.
LEMMA ObLeaveMoves ==
    ASSUME ObInv, NEW t \in ObThreads, ObLeave(t) PROVE ObReporters'
<1>0. ObReporters /\ ObReporter(obThread[t]) /\ obThread[t] \in ObStates
  BY DEF ObInv, ObReporters
<1> DEFINE r == [obThread[t] EXCEPT !.at = "inError", !.nested = FALSE]
<1>1. \/ obThread' = [obThread EXCEPT ![t] = ObIdle]
      \/ obThread' = [obThread EXCEPT ![t] = r] /\ obThread[t].nested = TRUE
  BY <1>0 DEF ObLeave, ObReporters, ObStates
<1>2. obThread[t].nested = TRUE => ObReporter(r)
  BY <1>0 DEF ObReporter, ObStates
<1> HIDE DEF r
<1> QED
  BY <1>0, <1>1, <1>2, ObIdleReports, ObThreadMoves DEF ObReporters, ObLeave

(* A deploy changes a listener table. *)
LEMMA ObChangeKeeps ==
    ASSUME ObDeploys, ObChange PROVE ObDeploys'
<1> DEFINE k == obDeploy.kind
<1>1. /\ k \in ObKinds /\ obDeploy.at \in {"remove", "add"} /\ obWriter[k] = "holding"
      /\ obDeploy.op \in {"none", "start", "stop", "rewire"}
  BY DEF ObChange, ObDeploys, ObTables, ObWriterKnown
<1>2. CASE obDeploy.at = "remove"
  <2>1. /\ obListeners' = [obListeners EXCEPT ![k] = {}]
        /\ obStarted' = [obStarted EXCEPT ![k] = obDeploy.op # "stop"]
        /\ obDeploy' = IF obDeploy.op = "stop" THEN ObNoOp ELSE [obDeploy EXCEPT !.at = "add"]
        /\ obWriter' = [obWriter EXCEPT ![k] = "none"] /\ obSeq' = obSeq
    BY <1>2 DEF ObChange
  <2>2. (obDeploy.op = "stop" => obDeploy'.at = "idle")
        /\ (obDeploy.op # "stop" => obDeploy'.at = "add" /\ obDeploy'.kind = k)
        /\ obDeploy' \in [op : {"none", "start", "stop", "rewire"}, kind : ObKinds,
                          at : {"idle", "remove", "add", "show", "showing"}]
    BY <1>1, <2>1 DEF ObDeploys, ObTables, ObNoOp, ObKinds
  <2>3. ObTables'
    BY <1>1, <2>1, <2>2 DEF ObDeploys, ObTables
  <2>4. ObWriterKnown'
    BY <1>1, <2>1 DEF ObDeploys, ObTables, ObWriterKnown
  <2>5. obStarted' \in [ObKinds -> BOOLEAN]
    BY <1>1, <2>1 DEF ObDeploys
  <2>6. ASSUME NEW j \in ObKinds, j # k
        PROVE  obStarted'[j] = obStarted[j] /\ obListeners'[j] = obListeners[j]
    BY <1>1, <2>1, <2>6 DEF ObDeploys, ObTables
  <2>7. obListeners'[k] = {} /\ (obDeploy.op = "stop" => obStarted'[k] = FALSE)
    BY <1>1, <2>1 DEF ObDeploys, ObTables
  <2>8. ObRegistered'
    BY <1>1, <2>2, <2>6, <2>7 DEF ObDeploys, ObRegistered, ObOne
  <2> QED BY <2>3, <2>4, <2>5, <2>8 DEF ObDeploys
<1>3. CASE obDeploy.at = "add"
  <2>1. /\ obListeners' = [obListeners EXCEPT ![k] = @ \cup {obSeq[k] + 1}]
        /\ obStarted' = [obStarted EXCEPT ![k] = TRUE]
        /\ obDeploy' = IF obDeploy.op = "start" THEN [obDeploy EXCEPT !.at = "show"] ELSE ObNoOp
        /\ obWriter' = [obWriter EXCEPT ![k] = "none"] /\ obSeq' = [obSeq EXCEPT ![k] = @ + 1]
    BY <1>3 DEF ObChange
  <2>2. /\ obDeploy'.at \in {"idle", "show"}
        /\ obDeploy' \in [op : {"none", "start", "stop", "rewire"}, kind : ObKinds,
                          at : {"idle", "remove", "add", "show", "showing"}]
    BY <1>1, <2>1 DEF ObDeploys, ObTables, ObNoOp, ObKinds
  <2>3. obSeq[k] + 1 \in Nat /\ obListeners[k] = {} /\ obListeners'[k] = {obSeq[k] + 1}
    BY <1>1, <1>3, <2>1 DEF ObDeploys, ObTables, ObRegistered
  <2>4. obSeq' \in [ObKinds -> Nat] /\ obListeners' \in [ObKinds -> SUBSET Nat]
    BY <1>1, <2>1, <2>3 DEF ObDeploys, ObTables
  <2>5. ObTables'
    BY <1>1, <2>1, <2>2, <2>4 DEF ObDeploys, ObTables
  <2>6. ObWriterKnown'
    BY <1>1, <2>1 DEF ObDeploys, ObTables, ObWriterKnown
  <2>7. obStarted' \in [ObKinds -> BOOLEAN] /\ obStarted'[k] = TRUE
    BY <1>1, <2>1 DEF ObDeploys
  <2>8. ASSUME NEW j \in ObKinds, j # k
        PROVE  obStarted'[j] = obStarted[j] /\ obListeners'[j] = obListeners[j]
    BY <1>1, <2>1, <2>8 DEF ObDeploys, ObTables
  <2>9. \E l \in Nat : obListeners'[k] = {l}
    BY <2>3
  <2>10. ObRegistered'
    BY <1>1, <2>2, <2>7, <2>8, <2>9 DEF ObDeploys, ObRegistered, ObOne
  <2> QED BY <2>5, <2>6, <2>7, <2>10 DEF ObDeploys
<1> QED
  BY <1>1, <1>2, <1>3

\* An observer shows its idle text or a blink.
LEMMA ObShownKeeps ==
    ASSUME ObInv, [ObNext]_obVars PROVE ObShows'
<1>0. obDeploy.kind \in ObKinds /\ "catch" \in ObKinds /\ "status" \in ObKinds
  BY DEF ObInv, ObDeploys, ObTables, ObKinds
<1>1. \/ obShown' = obShown
      \/ \E k \in ObKinds : obShown' = [obShown EXCEPT ![k] = ObText("idle", ObNew)]
      \/ \E k \in ObKinds : obShown' = [obShown EXCEPT ![k] = ObText("blink", ObNew)]
      \/ \E k \in ObKinds : \E t \in ObThreads :
           obShown' = [obShown EXCEPT ![k] = ObText("blink", obThread[t].msg)]
  BY <1>0, Zenon DEF ObNext, obVars, ObWorkerReports, ObReset, ObBranchHandles, ObEnter, handleError,
     handleStatus, ObLeave, ObOperation, ObLock, ObChange, ObShow, blink
<1>2. \A text \in {"idle", "blink"} : \A m \in ObGood : ObText(text, m) \in ObTexts
  BY DEF ObText, ObTexts
<1>3. ObNew \in ObGood /\ \A t \in ObThreads : obThread[t].msg \in ObGood
  BY ObMessages DEF ObInv, ObReporters, ObStates
<1>4. \/ obShown' = obShown
      \/ \E k \in ObKinds : \E x \in ObTexts : obShown' = [obShown EXCEPT ![k] = x]
  BY <1>1, <1>2, <1>3, Zenon
<1> QED
  BY <1>4 DEF ObInv, ObShows

\* Every step keeps the invariant of the observers.
LEMMA ObNextInv == ObInv /\ [ObNext]_obVars => ObInv'
<1> SUFFICES ASSUME ObInv, [ObNext]_obVars PROVE ObDeploys' /\ ObReporters'
  BY ObShownKeeps DEF ObInv
<1> DEFINE tables == <<obListeners, obSeq, obStarted, obWriter, obDeploy>>
<1>0. /\ ObDeploys /\ ObReporters
      /\ "worker" \in ObThreads /\ "branch" \in ObThreads /\ "deploy" \in ObThreads
      /\ "reset" \in ObThreads /\ \A k \in ObKinds : obShown[k].msg \in ObGood
      /\ "catch" \in ObKinds /\ "status" \in ObKinds
      /\ ObNew \in ObGood
  BY ObMessages DEF ObInv, ObThreads, ObKinds, ObShows, ObTexts
<1>a. ASSUME UNCHANGED tables PROVE ObDeploys'
  BY <1>0, <1>a DEF ObDeploys, ObTables, ObWriterKnown, ObRegistered, ObOne
<1>b. ASSUME UNCHANGED <<obThread, obBranch>> PROVE ObReporters'
  BY <1>0, <1>b DEF ObReporters
<1>1. ASSUME NEW k \in ObKinds, ObWorkerReports(k) PROVE ObDeploys' /\ ObReporters'
  <2>1. ObReporters'
    BY <1>0, <1>1, ObReportMoves DEF ObWorkerReports, ObReporters
  <2> QED BY <1>1, <1>a, <2>1 DEF ObWorkerReports, ObInv
<1>2. ASSUME NEW k \in ObKinds, ObReset(k) PROVE ObDeploys' /\ ObReporters'
  <2>1. ObReporters'
    <3>1. CASE k = "catch"
      BY <1>0, <1>2, <3>1, ObReportMoves DEF ObReset, ObReporters
    <3>2. CASE k # "catch"
      BY <1>2, <1>b, <3>2 DEF ObReset
    <3> QED BY <3>1, <3>2
  <2> QED BY <1>2, <1>a, <2>1 DEF ObReset
<1>3. ASSUME NEW k \in ObKinds \cup {"none"}, ObBranchHandles(k) PROVE ObDeploys' /\ ObReporters'
  <2>1. Head(obBranch) \in ObGood /\ obBranch' \in Seq(ObGood)
    BY <1>0, <1>3 DEF ObReporters, ObBranchHandles
  <2>2. CASE k \in ObKinds
    <3>1. ObReporters'
      BY <1>0, <1>3, <2>1, <2>2, ObReportMoves DEF ObBranchHandles, ObReporters
    <3> QED BY <1>3, <1>a, <3>1 DEF ObBranchHandles, ObInv
  <2>3. CASE k \notin ObKinds
    <3>1. ObReporters'
      BY <1>0, <1>3, <2>1, <2>3 DEF ObBranchHandles, ObReporters
    <3> QED BY <1>3, <1>a, <3>1 DEF ObBranchHandles, ObInv
  <2> QED BY <2>2, <2>3
<1>4. ASSUME NEW t \in ObThreads, ObEnter(t) PROVE ObDeploys' /\ ObReporters'
  BY <1>4, <1>a, ObEnterMoves DEF ObEnter, ObInv
<1>5. ASSUME NEW t \in ObThreads, handleError(t) PROVE ObDeploys' /\ ObReporters'
  BY <1>5, <1>a, ObErrorMoves DEF handleError, ObInv
<1>6. ASSUME NEW t \in ObThreads, handleStatus(t) PROVE ObDeploys' /\ ObReporters'
  BY <1>6, <1>a, ObStatusMoves DEF handleStatus, ObInv
<1>7. ASSUME NEW t \in ObThreads, ObLeave(t) PROVE ObDeploys' /\ ObReporters'
  BY <1>7, <1>a, ObLeaveMoves DEF ObLeave, ObInv
<1>8. ASSUME NEW op \in {"start", "stop", "rewire"}, NEW k \in ObKinds, ObOperation(op, k)
      PROVE  ObDeploys' /\ ObReporters'
  <2>1. ObTables' /\ ObWriterKnown'
    BY <1>0, <1>8 DEF ObOperation, ObDeploys, ObTables, ObWriterKnown, ObNoOp
  <2>2. ObRegistered'
    <3>1. /\ obDeploy' = [op |-> op, kind |-> k, at |-> IF obListeners[k] # {} THEN "remove" ELSE "add"]
          /\ UNCHANGED <<obListeners, obStarted>>
          /\ op = "start" => obStarted[k] = FALSE
          /\ obDeploy.at = "idle"
      BY <1>0, <1>8 DEF ObOperation, ObNoOp, ObDeploys
    <3> QED BY <1>0, <3>1 DEF ObDeploys, ObRegistered, ObOne
  <2>3. ObDeploys'
    BY <1>0, <1>8, <2>1, <2>2 DEF ObOperation, ObDeploys
  <2> QED BY <1>8, <1>b, <2>3 DEF ObOperation, ObInv
<1>9. CASE ObLock
  <2>1. ObDeploys'
    BY <1>0, <1>9 DEF ObLock, ObDeploys, ObTables, ObWriterKnown, ObRegistered, ObOne
  <2> QED BY <1>9, <1>b, <2>1 DEF ObLock, ObInv
<1>10. CASE ObChange
  BY <1>0, <1>10, <1>b, ObChangeKeeps DEF ObChange, ObInv
<1>11. CASE ObShow
  <2>1. ObReporters'
    <3>1. CASE ObReport("deploy", "status", ObNew)
      BY <1>0, <1>11, <3>1, ObReportMoves DEF ObReporters, ObShow
    <3>2. CASE UNCHANGED obThread
      BY <1>11, <1>b, <3>2 DEF ObShow
    <3> QED BY <1>11, <3>1, <3>2 DEF ObShow
  <2>2. /\ obDeploy.at \notin {"remove", "add"}
        /\ obDeploy'.at \notin {"remove", "add"}
        /\ obDeploy' \in [op : {"none", "start", "stop", "rewire"}, kind : ObKinds,
                          at : {"idle", "remove", "add", "show", "showing"}]
    BY <1>0, <1>11 DEF ObShow, ObDeploys, ObTables, ObNoOp
  <2>3. ObDeploys'
    BY <1>0, <1>11, <2>2 DEF ObShow, ObDeploys, ObTables, ObWriterKnown, ObRegistered, ObOne
  <2> QED BY <2>1, <2>3 DEF ObInv
<1>12. CASE UNCHANGED obVars
  BY <1>12, <1>a, <1>b DEF obVars, ObInv
<1> QED
  BY <1>1, <1>2, <1>3, <1>4, <1>5, <1>6, <1>7, <1>8, <1>9, <1>10, <1>11, <1>12 DEF ObNext

(* Between deploy operations every started observer has one listener and the *)
(* others none, and no message passes two catch nodes, for any number of     *)
(* reports and deploys and any capacity of the channel.                      *)
THEOREM ObserversSound == ObSpec => []ObSound
<1>1. ObSpec => []ObInv
  BY ObInitInv, ObNextInv, PTL DEF ObSpec
<1>2. ObInv => ObSound
  <2> SUFFICES ASSUME ObInv PROVE ObListenersExact /\ ObCaughtOnce
    BY DEF ObSound
  <2>1. ObListenersExact
    <3> SUFFICES ASSUME obDeploy = ObNoOp, NEW k \in ObKinds
                 PROVE  Cardinality(obListeners[k]) = IF obStarted[k] THEN 1 ELSE 0
      BY DEF ObListenersExact
    <3>1. IF obStarted[k] = TRUE THEN ObOne(k) ELSE obListeners[k] = {}
      BY DEF ObInv, ObDeploys, ObRegistered, ObNoOp
    <3>2. obStarted[k] \in BOOLEAN
      BY DEF ObInv, ObDeploys
    <3> QED BY <3>1, <3>2, FS_EmptySet, FS_Singleton DEF ObOne
  <2>2. ObCaughtOnce
    <3>1. obBranch \in Seq(ObGood)
      BY DEF ObInv, ObReporters
    <3>2. \A i \in 1 .. Len(obBranch) : obBranch[i] \in ObGood
      BY <3>1
    <3> QED BY <3>2 DEF ObCaughtOnce, ObGood
  <2> QED BY <2>1, <2>2
<1> QED
  BY <1>1, <1>2, PTL

-----------------------------------------------------------------------------
(***************************************************************************)
(* The tail of file-read.                                                  *)
(***************************************************************************)

(* file-read. *)

FtByte == [id : Nat, nl : BOOLEAN]
FtIds(s) == [i \in 1 .. Len(s) |-> s[i].id]
FtPrefix(s, c) == [i \in 1 .. c |-> s[i].id]

(* At the position c of the file, what was sent ends, and a line does. *)
FtExact(c) ==
    /\ c \in 0 .. Len(ftFile)
    /\ ftSent = FtPrefix(ftFile, c)
    /\ (ftCfg.delim # "none" /\ c > 0) => ftFile[c].nl = TRUE

(* ... or will, once the data at hand are sent. *)
FtExactAfter(data, c) ==
    /\ c \in 0 .. Len(ftFile)
    /\ ftSent \o FtIds(data) = FtPrefix(ftFile, c)
    /\ (ftCfg.delim # "none" /\ c > 0) => ftFile[c].nl = TRUE

FtTypes ==
    /\ ftFile \in Seq(FtByte) /\ ftNext \in Nat /\ ftSent \in Seq(Nat)
    /\ ftCursor \in Nat \cup {FtAbsent}
    /\ ftOut \in [step : {"idle", "open"}, data : Seq({"c", "n"})]
    /\ ftRead.step \in {"idle", "load", "open", "save", "send"}
    /\ ftRead \in [step : {"idle", "load", "open", "save", "send"}, size : Nat, cursor : Nat,
                   reset : BOOLEAN, data : Seq(FtByte)]

(* The stored cursor: exact, or beyond the end of a truncated file of      *)
(* which nothing was sent.                                                 *)
FtAtCursor ==
    /\ FtStored <= Len(ftFile) => FtExact(FtStored)
    /\ FtStored > Len(ftFile) => ftSent = <<>>

FtReading ==
    /\ ftRead.step # "send" => FtAtCursor
    /\ ftRead.step = "load" => /\ ftRead.size <= Len(ftFile) /\ ftRead.data = <<>>
                               /\ FtStored > ftRead.size => FtStored > Len(ftFile)
    /\ ftRead.step = "open" => /\ FtExact(ftRead.cursor) /\ ftRead.cursor < Len(ftFile)
                               /\ (ftRead.reset = FALSE) => ftRead.cursor = FtStored
    /\ ftRead.step \in {"save", "send"} => FtExactAfter(ftRead.data, ftRead.cursor)
    /\ ftRead.step = "send" => ftCursor = ftRead.cursor

FtTails == ftCfg.fromStart /\ ~ftLost

FtInv == FtTypes /\ (FtTails => FtReading)

\* A set of numbers with a bound has a largest one.
LEMMA FtLargest ==
    ASSUME NEW n \in Nat, NEW E, E \subseteq 1 .. n, E # {}
    PROVE  \E i \in E : \A j \in E : j <= i
<1> DEFINE T == {n - i : i \in E}
<1>1. T \subseteq Nat /\ T # {}
  <2>1. \A i \in E : n - i \in Nat
    OBVIOUS
  <2> QED BY <2>1
<1>2. PICK x \in T : \A y \in T : ~(<<y, x>> \in OpToRel(<, Nat))
  BY <1>1, NatLessThanWellFounded, WFMin
<1>3. \A y \in T : ~(y < x)
  BY <1>1, <1>2 DEF OpToRel
<1>4. PICK i \in E : x = n - i
  OBVIOUS
<1>5. ASSUME NEW j \in E PROVE j <= i
  <2>1. n - j \in T
    OBVIOUS
  <2> QED BY <1>3, <1>4, <2>1
<1> QED
  BY <1>5

\* Every byte of the file has a number of its own.
LEMMA FtByteId == \A x \in FtByte : x.id \in Nat
BY DEF FtByte

\* The numbers of a part of the file.
LEMMA FtIdsType ==
    ASSUME NEW s \in Seq(FtByte)
    PROVE  /\ FtIds(s) \in Seq(Nat) /\ Len(FtIds(s)) = Len(s)
           /\ \A i \in 1 .. Len(s) : FtIds(s)[i] = s[i].id
           /\ FtIds(s) = [i \in DOMAIN s |-> s[i].id]
<1>1. Len(s) \in Nat /\ DOMAIN s = 1 .. Len(s) /\ \A i \in 1 .. Len(s) : s[i] \in FtByte
  OBVIOUS
<1>2. \A i \in 1 .. Len(s) : s[i].id \in Nat
  BY <1>1, FtByteId
<1> QED
  BY <1>1, <1>2 DEF FtIds

\* What was tailed stays a prefix when the file grows.
LEMMA FtGrows ==
    ASSUME NEW s \in Seq(FtByte), NEW t \in Seq(FtByte), NEW u, u = s \o t
    PROVE  /\ u \in Seq(FtByte) /\ Len(u) >= Len(s)
           /\ \A c \in 0 .. Len(s) : FtPrefix(u, c) = FtPrefix(s, c) /\ (c > 0 => u[c] = s[c])
<1>1. /\ u \in Seq(FtByte) /\ Len(s) \in Nat /\ Len(t) \in Nat /\ Len(u) = Len(s) + Len(t)
      /\ \A i \in 1 .. Len(s) : u[i] = s[i]
  OBVIOUS
<1>2. ASSUME NEW c \in 0 .. Len(s) PROVE FtPrefix(u, c) = FtPrefix(s, c) /\ (c > 0 => u[c] = s[c])
  <2>1. \A i \in 1 .. c : i \in 1 .. Len(s)
    BY <1>1
  <2>2. c > 0 => c \in 1 .. Len(s)
    BY <1>1
  <2> QED BY <1>1, <2>1, <2>2 DEF FtPrefix
<1> QED
  BY <1>1, <1>2

(* d is what the file s has from the position c on, perhaps not all of it. *)
FtFrom(s, c, d) ==
    /\ d \in Seq(FtByte) /\ c + Len(d) <= Len(s)
    /\ \A i \in 1 .. Len(d) : d[i] = s[c + i]

\* What is read from the cursor on continues what was emitted.
LEMMA FtReadOn ==
    ASSUME NEW s \in Seq(FtByte), NEW c \in Nat, NEW d, FtFrom(s, c, d)
    PROVE  /\ FtPrefix(s, c) \o FtIds(d) = FtPrefix(s, c + Len(d))
           /\ d # <<>> => d[Len(d)] = s[c + Len(d)]
<1> DEFINE a == FtPrefix(s, c)
           b == FtIds(d)
           p == FtPrefix(s, c + Len(d))
<1>1. Len(d) \in Nat /\ Len(s) \in Nat
  BY DEF FtFrom
<1>2. \A i \in 1 .. Len(s) : s[i].id \in Nat
  <2>1. \A i \in 1 .. Len(s) : s[i] \in FtByte
    OBVIOUS
  <2> QED BY <2>1, FtByteId
<1>3. c + Len(d) <= Len(s) /\ c <= Len(s)
  BY <1>1 DEF FtFrom
<1>4. a \in Seq(Nat) /\ Len(a) = c /\ \A i \in 1 .. c : a[i] = s[i].id
  BY <1>1, <1>2, <1>3 DEF FtPrefix
<1>5. b \in Seq(Nat) /\ Len(b) = Len(d) /\ \A i \in 1 .. Len(d) : b[i] = d[i].id
  BY FtIdsType DEF FtFrom
<1>6. p \in Seq(Nat) /\ Len(p) = c + Len(d) /\ \A i \in 1 .. c + Len(d) : p[i] = s[i].id
  BY <1>1, <1>2, <1>3 DEF FtPrefix
<1> HIDE DEF a, b, p
<1>7. /\ a \o b \in Seq(Nat) /\ Len(a \o b) = c + Len(d)
      /\ \A i \in 1 .. c + Len(d) : (a \o b)[i] = IF i <= c THEN a[i] ELSE b[i - c]
  <2>1. /\ a \o b \in Seq(Nat) /\ Len(a \o b) = Len(a) + Len(b)
        /\ \A i \in 1 .. Len(a) + Len(b) : (a \o b)[i] = IF i <= Len(a) THEN a[i] ELSE b[i - Len(a)]
    <3>1. a \in Seq(Nat) /\ b \in Seq(Nat)
      BY <1>4, <1>5
    <3> QED BY <3>1
  <2> QED BY <1>4, <1>5, <2>1
<1>8. ASSUME NEW i \in 1 .. c + Len(d) PROVE (a \o b)[i] = p[i]
  <2>1. CASE i <= c
    <3>1. i \in 1 .. c
      BY <1>1, <2>1
    <3> QED BY <1>4, <1>6, <1>7, <2>1, <3>1
  <2>2. CASE ~(i <= c)
    <3>1. i - c \in 1 .. Len(d) /\ c + (i - c) = i
      BY <1>1, <2>2
    <3>2. d[i - c] = s[i]
      BY <3>1 DEF FtFrom
    <3> QED BY <1>5, <1>6, <1>7, <2>2, <3>1, <3>2
  <2> QED BY <2>1, <2>2
<1>9. a \o b = p
  BY <1>6, <1>7, <1>8, SeqEqual
<1>10. ASSUME d # <<>> PROVE d[Len(d)] = s[c + Len(d)]
  <2>1. Len(d) \in 1 .. Len(d)
    BY <1>1, <1>10 DEF FtFrom
  <2> QED BY <2>1 DEF FtFrom
<1> QED
  BY <1>9, <1>10 DEF a, b, p

\* A read that ends inside a line stops behind its last newline.
LEMMA FtTrims ==
    ASSUME NEW buf \in Seq(FtByte)
    PROVE  /\ trimToLastLine(buf) \in Seq(FtByte) /\ Len(trimToLastLine(buf)) <= Len(buf)
           /\ \A i \in 1 .. Len(trimToLastLine(buf)) : trimToLastLine(buf)[i] = buf[i]
           /\ trimToLastLine(buf) # <<>> =>
                 trimToLastLine(buf)[Len(trimToLastLine(buf))].nl = TRUE
<1> DEFINE ends == {i \in DOMAIN buf : buf[i].nl}
           last == CHOOSE i \in ends : \A j \in ends : j <= i
           t == trimToLastLine(buf)
<1>1. CASE ends = {}
  <2>1. t = <<>>
    BY <1>1 DEF trimToLastLine
  <2> QED BY <2>1
<1>2. CASE ends # {}
  <2>1. t = SubSeq(buf, 1, last)
    BY <1>2, Zenon DEF trimToLastLine
  <2>2. Len(buf) \in Nat /\ DOMAIN buf = 1 .. Len(buf)
    OBVIOUS
  <2>3. ends \subseteq 1 .. Len(buf)
    BY <2>2
  <2>4. \E i \in ends : \A j \in ends : j <= i
    <3> HIDE DEF ends
    <3> QED BY <1>2, <2>2, <2>3, FtLargest
  <2>5. last \in ends
    <3> HIDE DEF ends
    <3> QED BY <2>4
  <2>6. last \in 1 .. Len(buf) /\ buf[last].nl = TRUE
    <3>1. last \in 1 .. Len(buf) /\ buf[last].nl
      BY <2>3, <2>5
    <3>2. buf[last] \in FtByte
      BY <2>2, <3>1
    <3> QED BY <3>1, <3>2 DEF FtByte
  <2> HIDE DEF last
  <2>7. /\ SubSeq(buf, 1, last) \in Seq(FtByte) /\ Len(SubSeq(buf, 1, last)) = last
        /\ \A i \in 1 .. last : SubSeq(buf, 1, last)[i] = buf[i]
    BY <2>2, <2>6
  <2> QED BY <2>1, <2>2, <2>6, <2>7
<1> QED
  BY <1>1, <1>2

\* Nothing is read or emitted.
LEMMA FtInitInv == FtInit => FtInv
<1> SUFFICES ASSUME FtInit PROVE FtInv
  OBVIOUS
<1>1. /\ ftRead \in [step : {"idle", "load", "open", "save", "send"}, size : Nat, cursor : Nat,
                    reset : BOOLEAN, data : Seq(FtByte)]
      /\ ftRead.step = "idle"
  BY DEF FtInit, FtIdle
<1>2. FtTypes
  BY <1>1 DEF FtInit, FtTypes, FtNoData
<1>3. FtStored = 0 /\ Len(ftFile) = 0 /\ ftSent = <<>>
  BY DEF FtStored, FtInit
<1>4. FtPrefix(ftFile, 0) = <<>>
  BY DEF FtPrefix
<1>5. FtReading
  BY <1>1, <1>3, <1>4 DEF FtReading, FtAtCursor, FtExact
<1> QED
  BY <1>2, <1>5 DEF FtInv

\* A writer opens the file, and may truncate it.
LEMMA FtOpenKeeps == ASSUME FtInv, NEW chunk \in FtChunks, FtOpen(chunk) PROVE FtInv'
<1>1. FtTypes /\ UNCHANGED <<ftCfg, ftNext, ftCursor, ftRead>>
  BY DEF FtInv, FtOpen
<1>2. CASE UNCHANGED <<ftFile, ftOut, ftSent, ftLost>>
  <2>1. FtTypes' /\ (FtTails' <=> FtTails) /\ (FtReading' <=> FtReading)
    BY <1>1, <1>2 DEF FtTypes, FtTails, FtReading, FtAtCursor, FtExact, FtExactAfter, FtStored, FtPrefix
  <2> QED BY <2>1 DEF FtInv
<1>3. CASE ftOut' = [step |-> "open", data |-> chunk] /\ UNCHANGED <<ftFile, ftSent, ftLost>>
  <2>1. FtTypes'
    BY <1>1, <1>3, FtAssumption DEF FtTypes
  <2>2. (FtTails' <=> FtTails) /\ (FtReading' <=> FtReading)
    BY <1>1, <1>3 DEF FtTails, FtReading, FtAtCursor, FtExact, FtExactAfter, FtStored, FtPrefix
  <2> QED BY <2>1, <2>2 DEF FtInv
<1>4. CASE /\ ftOut' = [step |-> "open", data |-> chunk] /\ ftFile' = <<>> /\ ftSent' = <<>>
           /\ ftLost' = (ftRead.step # "idle" /\ (ftLost \/ ftFile # <<>>))
  <2>1. FtTypes'
    BY <1>1, <1>4, FtAssumption DEF FtTypes
  <2>2. /\ Len(ftFile') = 0 /\ FtPrefix(ftFile', 0) = <<>> /\ FtStored' = FtStored /\ FtStored \in Nat
        /\ ftSent' = <<>> /\ ftRead' = ftRead
    BY <1>1, <1>4 DEF FtPrefix, FtStored, FtTypes
  <2>3. FtAtCursor'
    BY <2>2 DEF FtAtCursor, FtExact
  <2>4. CASE ftRead.step = "idle"
    BY <1>1, <2>1, <2>3, <2>4 DEF FtInv, FtReading
  <2>5. ASSUME FtTails', ftRead.step # "idle" PROVE FtReading'
    <3>1. ~ftLost /\ ftFile = <<>> /\ ftCfg.fromStart
      BY <1>1, <1>4, <2>5, Zenon DEF FtTails
    <3>2. FtReading /\ ftFile' = ftFile
      BY <1>4, <3>1 DEF FtInv, FtTails
    <3>3. ASSUME ftRead.step \in {"save", "send"} PROVE FtExactAfter(ftRead.data, ftRead.cursor)'
      <4>1. FtExactAfter(ftRead.data, ftRead.cursor)
        BY <3>2, <3>3 DEF FtReading
      <4>2. ftRead.cursor = 0 /\ ftSent \o FtIds(ftRead.data) = <<>> /\ ftSent \in Seq(Nat)
        BY <2>2, <3>2, <4>1 DEF FtExactAfter, FtTypes, FtInv
      <4>3. FtIds(ftRead.data) \in Seq(Nat)
        BY <1>1, FtIdsType DEF FtTypes
      <4>4. ftSent = <<>>
        <5> DEFINE e == FtIds(ftRead.data)
        <5> HIDE DEF e
        <5>1. e \in Seq(Nat) /\ ftSent \o e = <<>>
          BY <4>2, <4>3 DEF e
        <5>2. Len(ftSent) + Len(e) = 0 /\ Len(ftSent) \in Nat /\ Len(e) \in Nat
          BY <4>2, <5>1
        <5>3. Len(ftSent) = 0
          BY <5>2
        <5> QED BY <4>2, <5>3, EmptySeq
      <4>5. ftSent' = ftSent /\ ftFile' = ftFile /\ ftCfg' = ftCfg /\ ftRead' = ftRead
        BY <1>1, <1>4, <3>2, <4>4
      <4> QED BY <4>1, <4>5 DEF FtExactAfter, FtPrefix, FtIds
    <3>4. ftRead.step # "open"
      BY <2>2, <3>2 DEF FtReading, FtTypes, FtExact
    <3> QED
      BY <1>1, <2>2, <2>3, <3>2, <3>3, <3>4 DEF FtReading
  <2> QED BY <1>1, <2>1, <2>4, <2>5 DEF FtInv
<1> QED
  BY <1>2, <1>3, <1>4 DEF FtOpen

\* A writer appends its payload.
LEMMA FtWriteKeeps == FtInv /\ FtWrite => FtInv'
<1> SUFFICES ASSUME FtInv, FtWrite PROVE FtInv'
  OBVIOUS
<1> DEFINE t == [i \in 1 .. Len(ftOut.data) |-> [id |-> ftNext + i, nl |-> ftOut.data[i] = "n"]]
<1>1. /\ FtTypes /\ UNCHANGED <<ftCfg, ftCursor, ftRead, ftSent>> /\ ftOut' = FtNoData
      /\ ftFile' = ftFile \o t /\ ftNext' = ftNext + Len(ftOut.data)
      /\ ftOut.data \in Seq({"c", "n"}) /\ Len(ftOut.data) \in Nat /\ ftNext \in Nat
      /\ ftFile \in Seq(FtByte)
  BY DEF FtInv, FtWrite, FtTypes
<1>2. t \in Seq(FtByte)
  <2>1. \A i \in 1 .. Len(ftOut.data) : [id |-> ftNext + i, nl |-> ftOut.data[i] = "n"] \in FtByte
    BY <1>1 DEF FtByte
  <2> QED BY <1>1, <2>1
<1> HIDE DEF t
<1>3. /\ ftFile' \in Seq(FtByte) /\ Len(ftFile') >= Len(ftFile)
      /\ \A c \in 0 .. Len(ftFile) : /\ FtPrefix(ftFile', c) = FtPrefix(ftFile, c)
                                     /\ c > 0 => ftFile'[c] = ftFile[c]
  BY <1>1, <1>2, FtGrows
<1>4. FtTypes'
  BY <1>1, <1>3 DEF FtTypes, FtNoData
<1>5. Len(ftFile) \in Nat /\ Len(ftFile') \in Nat /\ FtStored' = FtStored /\ FtStored \in Nat
  BY <1>1, <1>3 DEF FtStored, FtTypes
<1>6. ASSUME NEW c, FtExact(c) PROVE c \in 0 .. Len(ftFile') /\ ftSent = FtPrefix(ftFile', c)
                                   /\ ((ftCfg.delim # "none" /\ c > 0) => ftFile'[c].nl = TRUE)
  BY <1>3, <1>5, <1>6 DEF FtExact
<1>7. ASSUME NEW c, NEW d, FtExactAfter(d, c)
      PROVE  /\ c \in 0 .. Len(ftFile') /\ ftSent \o FtIds(d) = FtPrefix(ftFile', c)
             /\ ((ftCfg.delim # "none" /\ c > 0) => ftFile'[c].nl = TRUE)
  BY <1>3, <1>5, <1>7 DEF FtExactAfter
<1>8. ASSUME FtTails' PROVE FtReading'
  <2>1. /\ FtTails
        /\ ~(ftCursor # FtAbsent /\ ftCursor > Len(ftFile) /\ Len(ftFile') >= ftCursor)
    BY <1>1, <1>8, Zenon DEF FtTails, FtWrite
  <2>2. FtReading
    BY <2>1 DEF FtInv
  <2>3. FtStored > Len(ftFile) => FtStored > Len(ftFile')
    BY <1>1, <1>5, <2>1 DEF FtStored, FtTypes
  <2>4. ftRead.step # "send" => FtAtCursor'
    <3>1. CASE FtStored <= Len(ftFile)
      BY <1>1, <1>5, <1>6, <2>2, <3>1 DEF FtReading, FtAtCursor, FtExact, FtPrefix
    <3>2. CASE FtStored > Len(ftFile)
      BY <1>1, <1>5, <2>2, <2>3, <3>2 DEF FtReading, FtAtCursor
    <3> QED BY <1>5, <3>1, <3>2
  <2>5. ftRead.step = "load" => /\ ftRead.size <= Len(ftFile') /\ ftRead.data = <<>>
                                /\ FtStored > ftRead.size => FtStored > Len(ftFile')
    BY <1>1, <1>3, <1>5, <2>2, <2>3 DEF FtReading, FtTypes
  <2>6. ftRead.step = "open" => /\ FtExact(ftRead.cursor)' /\ ftRead.cursor < Len(ftFile')
                                /\ (ftRead.reset = FALSE) => ftRead.cursor = FtStored
    BY <1>1, <1>3, <1>5, <1>6, <2>2 DEF FtReading, FtTypes, FtExact, FtPrefix
  <2>7. ftRead.step \in {"save", "send"} => FtExactAfter(ftRead.data, ftRead.cursor)'
    <3> SUFFICES ASSUME ftRead.step \in {"save", "send"}
                 PROVE  FtExactAfter(ftRead.data, ftRead.cursor)'
      OBVIOUS
    <3>1. FtExactAfter(ftRead.data, ftRead.cursor)
      BY <2>2 DEF FtReading
    <3>2. /\ ftRead.cursor \in 0 .. Len(ftFile')
          /\ ftSent \o FtIds(ftRead.data) = FtPrefix(ftFile', ftRead.cursor)
          /\ ((ftCfg.delim # "none" /\ ftRead.cursor > 0) => ftFile'[ftRead.cursor].nl = TRUE)
      BY <1>7, <3>1
    <3> QED BY <1>1, <3>2, Zenon DEF FtExactAfter
  <2> QED BY <1>1, <1>5, <2>2, <2>4, <2>5, <2>6, <2>7 DEF FtReading
<1> QED
  BY <1>4, <1>8 DEF FtInv

(* A step of the reader that leaves file, cursor and what was sent alone. *)
LEMMA FtStepKeeps ==
    ASSUME UNCHANGED <<ftCfg, ftFile, ftSent, ftCursor>>
    PROVE  /\ FtStored' = FtStored /\ (FtAtCursor' <=> FtAtCursor)
           /\ \A c : FtExact(c)' <=> FtExact(c)
           /\ \A d, c : FtExactAfter(d, c)' <=> FtExactAfter(d, c)
BY DEF FtStored, FtAtCursor, FtExact, FtExactAfter, FtPrefix, FtIds

\* Between two polls the cursor is all there is.
LEMMA FtIdleIs ==
    /\ FtIdle \in [step : {"idle", "load", "open", "save", "send"}, size : Nat, cursor : Nat,
                   reset : BOOLEAN, data : Seq(FtByte)]
    /\ FtIdle.step = "idle" /\ FtIdle.data = <<>>
BY DEF FtIdle

\* The poll compares the size with the cursor.
LEMMA FtStatKeeps == FtInv /\ FtStat => FtInv'
<1> SUFFICES ASSUME FtInv, FtStat PROVE FtInv'
  OBVIOUS
<1>1. /\ FtTypes /\ UNCHANGED <<ftCfg, ftFile, ftNext, ftOut, ftCursor, ftSent, ftLost>>
      /\ ftRead.step = "idle"
  BY DEF FtInv, FtStat
<1>2. FtTails' => FtReading
  BY <1>1 DEF FtTails, FtInv
<1>3. CASE ftRead' = ftRead
  BY <1>1, <1>2, <1>3, FtStepKeeps DEF FtInv, FtTypes, FtReading
<1>4. CASE ftRead' = [FtIdle EXCEPT !.step = "load", !.size = Len(ftFile)]
  <2>1. /\ ftRead'.step = "load" /\ ftRead'.size = Len(ftFile) /\ ftRead'.data = <<>>
        /\ ftRead' \in [step : {"idle", "load", "open", "save", "send"}, size : Nat, cursor : Nat,
                        reset : BOOLEAN, data : Seq(FtByte)]
    <3>1. Len(ftFile) \in Nat
      BY <1>1 DEF FtTypes
    <3>2. ftRead' = [step |-> "load", size |-> Len(ftFile), cursor |-> 0, reset |-> FALSE, data |-> <<>>]
      BY <1>4, Zenon DEF FtIdle
    <3> QED BY <3>1, <3>2
  <2>2. FtTypes'
    BY <1>1, <2>1 DEF FtTypes
  <2>3. ASSUME FtReading PROVE FtReading'
    <3>1. FtAtCursor' /\ FtStored' = FtStored
      BY <1>1, <2>3, FtStepKeeps DEF FtReading
    <3> QED BY <1>1, <2>1, <2>2, <3>1 DEF FtReading, FtTypes
  <2> QED BY <1>2, <2>2, <2>3 DEF FtInv
<1> QED
  BY <1>3, <1>4 DEF FtStat

\* A file that became shorter is read from the start.
LEMMA FtResetKeeps == FtInv /\ FtResetCursor => FtInv'
<1> SUFFICES ASSUME FtInv, FtResetCursor PROVE FtInv'
  OBVIOUS
<1>1. /\ FtTypes /\ UNCHANGED <<ftCfg, ftFile, ftNext, ftOut, ftRead, ftLost>>
      /\ ftRead.step = "idle" /\ ftCursor' = FtAbsent /\ ftSent' = <<>>
  BY DEF FtInv, FtResetCursor
<1>2. FtTypes'
  BY <1>1 DEF FtTypes
<1>3. FtStored' = 0 /\ FtPrefix(ftFile', 0) = <<>> /\ Len(ftFile') \in Nat
  BY <1>1 DEF FtStored, FtPrefix, FtTypes
<1>4. FtReading'
  BY <1>1, <1>3 DEF FtReading, FtAtCursor, FtExact
<1> QED
  BY <1>2, <1>4 DEF FtInv

\* The poll loads its cursor.
LEMMA FtLoadKeeps == FtInv /\ FtLoad => FtInv'
<1> SUFFICES ASSUME FtInv, FtLoad PROVE FtInv'
  OBVIOUS
<1> DEFINE reset == loadCursor > ftRead.size
           cursor == IF reset THEN 0 ELSE loadCursor
<1>1. /\ FtTypes /\ UNCHANGED <<ftCfg, ftFile, ftNext, ftOut, ftCursor, ftSent, ftLost>>
      /\ ftRead.step = "load" /\ ftRead.size \in Nat /\ loadCursor \in Nat /\ Len(ftFile) \in Nat
      /\ cursor \in Nat /\ reset \in BOOLEAN
  BY DEF FtInv, FtLoad, FtTypes, loadCursor
<1>2. ASSUME FtTails'
      PROVE  /\ FtReading /\ FtAtCursor' /\ FtStored' = FtStored /\ loadCursor = FtStored
             /\ FtExact(cursor) /\ cursor <= ftRead.size /\ ftRead.size <= Len(ftFile)
             /\ (reset = FALSE) => cursor = FtStored
  <2>1. FtReading /\ loadCursor = FtStored
    BY <1>1, <1>2 DEF FtTails, FtInv, loadCursor, FtStored
  <2>2. FtAtCursor /\ FtAtCursor' /\ FtStored' = FtStored
    BY <1>1, <2>1, FtStepKeeps DEF FtReading
  <2>3. FtPrefix(ftFile, 0) = <<>>
    BY DEF FtPrefix
  <2>4. CASE loadCursor > ftRead.size
    BY <1>1, <2>1, <2>2, <2>3, <2>4 DEF FtReading, FtAtCursor, FtExact
  <2>5. CASE ~(loadCursor > ftRead.size)
    BY <1>1, <2>1, <2>2, <2>5 DEF FtReading, FtAtCursor
  <2> QED BY <2>4, <2>5
<1>3. CASE cursor # ftRead.size /\ ftRead' = [ftRead EXCEPT !.step = "open", !.cursor = cursor, !.reset = reset]
  <2> HIDE DEF cursor, reset
  <2>1. /\ ftRead'.step = "open" /\ ftRead'.cursor = cursor /\ ftRead'.reset = reset
        /\ ftRead' \in [step : {"idle", "load", "open", "save", "send"}, size : Nat, cursor : Nat,
                        reset : BOOLEAN, data : Seq(FtByte)]
    BY <1>1, <1>3 DEF FtTypes
  <2>2. FtTypes'
    BY <1>1, <2>1 DEF FtTypes
  <2>3. ASSUME FtTails' PROVE FtReading'
    <3>1. /\ FtExact(cursor) /\ cursor < Len(ftFile) /\ FtAtCursor' /\ FtStored' = FtStored
          /\ (reset = FALSE) => cursor = FtStored
      <4>1. cursor <= ftRead.size /\ ftRead.size <= Len(ftFile) /\ cursor # ftRead.size
        BY <1>2, <1>3, <2>3
      <4>2. cursor < Len(ftFile)
        BY <1>1, <4>1
      <4> QED BY <1>2, <2>3, <4>2, Zenon
    <3>2. FtExact(ftRead.cursor)'
      BY <1>1, <2>1, <3>1 DEF FtExact, FtPrefix
    <3> QED BY <1>1, <2>1, <3>1, <3>2 DEF FtReading
  <2> QED BY <2>2, <2>3 DEF FtInv
<1>4. CASE cursor = ftRead.size /\ reset /\ ftRead' = [ftRead EXCEPT !.step = "save", !.cursor = 0]
  <2> HIDE DEF reset
  <2>1. /\ ftRead'.step = "save" /\ ftRead'.cursor = 0 /\ ftRead'.data = ftRead.data
        /\ ftRead' \in [step : {"idle", "load", "open", "save", "send"}, size : Nat, cursor : Nat,
                        reset : BOOLEAN, data : Seq(FtByte)]
    BY <1>1, <1>4 DEF FtTypes
  <2>2. FtTypes'
    BY <1>1, <2>1 DEF FtTypes
  <2>3. ASSUME FtTails' PROVE FtReading'
    <3>1. FtExact(0) /\ FtAtCursor'
      BY <1>1, <1>2, <1>4, <2>3 DEF reset
    <3>2. ftRead.data = <<>>
      BY <1>1, <1>2, <2>3 DEF FtReading
    <3>3. ftSent \o FtIds(ftRead.data) = ftSent
      <4>1. FtIds(<<>>) = <<>> /\ ftSent \in Seq(Nat)
        BY <1>1 DEF FtIds, FtTypes
      <4> QED BY <3>2, <4>1
    <3>4. FtExactAfter(ftRead.data, ftRead.cursor)'
      BY <1>1, <2>1, <3>1, <3>3 DEF FtExact, FtExactAfter, FtPrefix, FtIds
    <3> QED BY <2>1, <3>1, <3>4 DEF FtReading
  <2> QED BY <2>2, <2>3 DEF FtInv
<1>5. CASE ftRead' = FtIdle
  BY <1>1, <1>2, <1>5, FtIdleIs DEF FtInv, FtReading, FtTypes
<1> QED
  BY <1>3, <1>4, <1>5 DEF FtLoad

\* The poll reads to the end of the file.
LEMMA FtReadAllKeeps == FtInv /\ FtReadAll => FtInv'
<1> SUFFICES ASSUME FtInv, FtReadAll PROVE FtInv'
  OBVIOUS
<1> DEFINE c == ftRead.cursor
           buf == IF c >= Len(ftFile) THEN <<>> ELSE SubSeq(ftFile, c + 1, Len(ftFile))
           data == IF ftCfg.delim = "none" THEN buf ELSE trimToLastLine(buf)
<1>1. /\ FtTypes /\ UNCHANGED <<ftCfg, ftFile, ftNext, ftOut, ftCursor, ftSent>>
      /\ ftRead.step = "open" /\ c \in Nat /\ Len(ftFile) \in Nat /\ ftFile \in Seq(FtByte)
  BY DEF FtInv, FtReadAll, FtTypes
<1>2. /\ buf \in Seq(FtByte)
      /\ c < Len(ftFile) => Len(buf) = Len(ftFile) - c /\ \A i \in 1 .. Len(buf) : buf[i] = ftFile[c + i]
  <2>1. CASE c >= Len(ftFile)
    BY <1>1, <2>1
  <2>2. CASE c < Len(ftFile)
    <3> HIDE DEF c
    <3>1. buf = SubSeq(ftFile, c + 1, Len(ftFile))
      BY <1>1, <2>2
    <3>2. /\ SubSeq(ftFile, c + 1, Len(ftFile)) \in Seq(FtByte)
          /\ Len(SubSeq(ftFile, c + 1, Len(ftFile))) = Len(ftFile) - c
          /\ \A i \in 1 .. Len(ftFile) - c : SubSeq(ftFile, c + 1, Len(ftFile))[i] = ftFile[c + i]
      BY <1>1, <2>2
    <3> HIDE DEF buf
    <3> QED BY <3>1, <3>2
  <2> QED BY <1>1, <2>1, <2>2
<1> HIDE DEF buf, c
<1>3. /\ data \in Seq(FtByte) /\ Len(data) <= Len(buf) /\ \A i \in 1 .. Len(data) : data[i] = buf[i]
      /\ ftCfg.delim # "none" /\ data # <<>> => data[Len(data)].nl = TRUE
  <2>1. CASE ftCfg.delim = "none"
    <3>1. data = buf
      BY <2>1
    <3>2. Len(buf) \in Nat
      BY <1>2
    <3> QED BY <1>2, <2>1, <3>1, <3>2
  <2>2. CASE ftCfg.delim # "none"
    <3>1. data = trimToLastLine(buf)
      BY <2>2
    <3> HIDE DEF data
    <3> QED BY <1>2, <3>1, FtTrims
  <2> QED BY <2>1, <2>2
<1> HIDE DEF data
<1>4. ASSUME c < Len(ftFile) PROVE FtFrom(ftFile, c, data)
  <2>1. Len(data) \in Nat /\ Len(buf) \in Nat
    BY <1>2, <1>3
  <2>2. c + Len(data) <= Len(ftFile)
    BY <1>1, <1>2, <1>3, <1>4, <2>1
  <2>3. ASSUME NEW i \in 1 .. Len(data) PROVE data[i] = ftFile[c + i]
    <3>1. i \in 1 .. Len(buf)
      BY <1>3, <2>1
    <3> QED BY <1>2, <1>3, <1>4, <3>1
  <2> QED BY <1>3, <2>2, <2>3 DEF FtFrom
<1>5. CASE ftRead' = FtIdle /\ ftLost' = (ftLost \/ ftRead.reset)
  <2>1. FtTypes'
    BY <1>1, <1>5, FtIdleIs DEF FtTypes
  <2>2. ASSUME FtTails' PROVE FtReading'
    <3>1. FtReading
      BY <1>1, <1>5, <2>2, Zenon DEF FtInv, FtTails
    <3> QED BY <1>1, <1>5, <3>1, FtStepKeeps, FtIdleIs DEF FtReading
  <2> QED BY <2>1, <2>2 DEF FtInv
<1>6. CASE /\ ~(data = <<>> /\ ftCfg.delim # "none") /\ ftLost' = ftLost
           /\ ftRead' = [ftRead EXCEPT !.step = "save", !.data = data, !.cursor = c + Len(data)]
  <2>0. c + Len(data) \in Nat
    BY <1>1, <1>3
  <2>1. /\ ftRead'.step = "save" /\ ftRead'.data = data /\ ftRead'.cursor = c + Len(data)
        /\ ftRead' \in [step : {"idle", "load", "open", "save", "send"}, size : Nat, cursor : Nat,
                        reset : BOOLEAN, data : Seq(FtByte)]
    BY <1>1, <1>3, <1>6, <2>0 DEF FtTypes
  <2>2. FtTypes'
    BY <1>1, <2>1 DEF FtTypes
  <2>3. ASSUME FtTails' PROVE FtReading'
    <3>1. FtReading
      BY <1>1, <1>6, <2>3 DEF FtInv, FtTails
    <3>2. FtExact(c) /\ c < Len(ftFile) /\ FtAtCursor'
      BY <1>1, <3>1, FtStepKeeps DEF FtReading, c
    <3>3. FtFrom(ftFile, c, data)
      BY <1>4, <3>2
    <3>4. /\ ftSent \o FtIds(data) = FtPrefix(ftFile, c + Len(data))
          /\ data # <<>> => data[Len(data)] = ftFile[c + Len(data)]
      BY <1>1, <3>2, <3>3, FtReadOn DEF FtExact
    <3>5. ftCfg.delim # "none" => ftFile[c + Len(data)].nl = TRUE
      BY <1>3, <1>6, <3>4
    <3>6. c + Len(data) \in 0 .. Len(ftFile)
      BY <1>1, <2>0, <3>3 DEF FtFrom
    <3>7. FtExactAfter(ftRead.data, ftRead.cursor)'
      BY <1>1, <2>1, <3>4, <3>5, <3>6 DEF FtExactAfter, FtPrefix, FtIds
    <3> QED BY <2>1, <3>2, <3>7 DEF FtReading
  <2> QED BY <2>2, <2>3 DEF FtInv
<1> QED
  BY <1>5, <1>6 DEF FtReadAll, data, buf, c

\* The cursor is stored before the message is sent.
LEMMA FtSaveKeeps == FtInv /\ FtSave => FtInv'
<1> SUFFICES ASSUME FtInv, FtSave PROVE FtInv'
  OBVIOUS
<1>1. /\ FtTypes /\ UNCHANGED <<ftCfg, ftFile, ftNext, ftOut, ftSent, ftLost>>
      /\ ftRead.step = "save" /\ ftCursor' = ftRead.cursor /\ ftRead.cursor \in Nat
  BY DEF FtInv, FtSave, FtTypes
<1>2. /\ ftRead'.step = "send" /\ ftRead'.data = ftRead.data /\ ftRead'.cursor = ftRead.cursor
      /\ ftRead' \in [step : {"idle", "load", "open", "save", "send"}, size : Nat, cursor : Nat,
                      reset : BOOLEAN, data : Seq(FtByte)]
  BY <1>1 DEF FtTypes, FtSave
<1>3. FtTypes'
  BY <1>1, <1>2 DEF FtTypes
<1>4. ASSUME FtTails' PROVE FtReading'
  <2>1. FtExactAfter(ftRead.data, ftRead.cursor)
    BY <1>1, <1>4 DEF FtInv, FtTails, FtReading
  <2>2. FtExactAfter(ftRead.data, ftRead.cursor)'
    BY <1>1, <1>2, <2>1 DEF FtExactAfter, FtPrefix, FtIds
  <2> QED BY <1>1, <1>2, <2>2 DEF FtReading
<1> QED
  BY <1>3, <1>4 DEF FtInv

\* The message is sent.
LEMMA FtSendKeeps == FtInv /\ FtSend => FtInv'
<1> SUFFICES ASSUME FtInv, FtSend PROVE FtInv'
  OBVIOUS
<1>1. /\ FtTypes /\ UNCHANGED <<ftCfg, ftFile, ftNext, ftOut, ftCursor, ftLost>>
      /\ ftRead.step = "send" /\ ftRead' = FtIdle /\ ftRead.data \in Seq(FtByte) /\ ftSent \in Seq(Nat)
  BY DEF FtInv, FtSend, FtTypes
<1>2. ftSent' = ftSent \o FtIds(ftRead.data) /\ FtIds(ftRead.data) \in Seq(Nat)
  BY <1>1, FtIdsType DEF FtSend
<1>3. ftSent' \in Seq(Nat)
  <2> DEFINE e == FtIds(ftRead.data)
  <2> HIDE DEF e
  <2>1. e \in Seq(Nat) /\ ftSent' = ftSent \o e
    BY <1>2 DEF e
  <2> QED BY <1>1, <2>1
<1>4. FtTypes'
  BY <1>1, <1>3, FtIdleIs DEF FtTypes
<1>5. ASSUME FtTails' PROVE FtReading'
  <2>1. FtExactAfter(ftRead.data, ftRead.cursor) /\ ftCursor = ftRead.cursor
    BY <1>1, <1>5 DEF FtInv, FtTails, FtReading
  <2>2. FtStored' = ftRead.cursor /\ FtStored' \in Nat /\ Len(ftFile) \in Nat
    BY <1>1, <2>1 DEF FtStored, FtTypes, FtAbsent
  <2>3. FtExact(FtStored)'
    BY <1>1, <1>2, <2>1, <2>2 DEF FtExactAfter, FtExact, FtPrefix
  <2>4. FtStored' <= Len(ftFile')
    BY <1>1, <2>1, <2>2 DEF FtExactAfter
  <2> QED BY <1>1, <2>2, <2>3, <2>4, FtIdleIs DEF FtReading, FtAtCursor
<1> QED
  BY <1>4, <1>5 DEF FtInv

\* The process stops between any two of these steps.
LEMMA FtCrashKeeps == FtInv /\ FtCrash => FtInv'
<1> SUFFICES ASSUME FtInv, FtCrash PROVE FtInv'
  OBVIOUS
<1>1. /\ FtTypes /\ UNCHANGED <<ftCfg, ftFile, ftNext, ftCursor, ftSent>>
      /\ ftOut' = FtNoData /\ ftRead' = FtIdle /\ ftLost' = (ftLost \/ ftRead.step = "send")
  BY DEF FtInv, FtCrash
<1>2. FtTypes'
  BY <1>1, FtIdleIs DEF FtTypes, FtNoData
<1>3. ASSUME FtTails' PROVE FtReading'
  <2>1. FtReading /\ ftRead.step # "send"
    BY <1>1, <1>3, Zenon DEF FtInv, FtTails
  <2> QED BY <1>1, <2>1, FtStepKeeps, FtIdleIs DEF FtReading
<1> QED
  BY <1>2, <1>3 DEF FtInv

\* Every step keeps the invariant of the tail.
LEMMA FtNextInv == FtInv /\ [FtNext]_ftVars => FtInv'
<1> SUFFICES ASSUME FtInv, [FtNext]_ftVars PROVE FtInv'
  OBVIOUS
<1>1. CASE UNCHANGED ftVars
  <2>1. UNCHANGED <<ftCfg, ftFile, ftSent, ftCursor, ftNext, ftOut, ftRead, ftLost>>
    BY <1>1 DEF ftVars
  <2>2. FtTypes' /\ (FtTails' <=> FtTails)
    BY <2>1 DEF FtInv, FtTypes, FtTails
  <2>3. FtReading => FtReading'
    BY <2>1, FtStepKeeps DEF FtReading
  <2> QED BY <2>2, <2>3 DEF FtInv
<1>2. CASE FtNext
  BY <1>2, FtOpenKeeps, FtWriteKeeps, FtStatKeeps, FtResetKeeps, FtLoadKeeps, FtReadAllKeeps,
     FtSaveKeeps, FtSendKeeps, FtCrashKeeps DEF FtNext, FtProgress
<1> QED
  BY <1>1, <1>2

\* The invariant says what FtTailExact does.
LEMMA FtInvExact == FtInv => FtTailExact
<1> SUFFICES ASSUME FtInv, ftCfg.fromStart, ~ftLost, ftRead.step = "idle", FtStored <= Len(ftFile)
             PROVE  /\ ftSent = [i \in 1 .. FtStored |-> ftFile[i].id]
                    /\ (ftCfg.delim # "none" /\ FtStored > 0) => ftFile[FtStored].nl
  BY DEF FtTailExact
<1>1. FtExact(FtStored)
  BY DEF FtInv, FtTails, FtReading, FtAtCursor
<1> QED
  BY <1>1 DEF FtExact, FtPrefix

(***************************************************************************)
(* An incremental file-read sends every byte before its cursor once and in *)
(* order, and whole lines only, for any payloads, any number of writes,    *)
(* reads and crashes and however they interleave (file_read.go, cursor.go).*)
(***************************************************************************)
THEOREM TailIsExact == FtSpec => []FtTailExact
BY FtInitInv, FtNextInv, FtInvExact, PTL DEF FtSpec

-----------------------------------------------------------------------------
(***************************************************************************)
(* file-watch.                                                             *)
(***************************************************************************)

FwSteps == {"wait", "coalesce", "send", "save", "ended"}
FwStamps == [FwFiles -> Int]

FwTypes ==
    /\ fwNode \in {"new", "baseline", "run", "stopping", "stopped"}
    /\ fwClock \in Nat /\ fwEvents \in BOOLEAN
    /\ fwFolder \in FwStamps /\ fwMap \in FwStamps /\ fwTold \in FwStamps
    /\ fwLoop \in [step : FwSteps, scan : FwStamps]

(* When there is a map, and when there is a scan.                         *)
FwPhases ==
    /\ fwNode = "new" => fwMap = FwAbsent
    /\ fwNode \in {"new", "baseline"} => fwLoop.step = "wait"
    /\ fwNode = "run" => fwLoop.step # "ended"
    /\ fwLoop.step \in {"send", "save"} => fwNode \in {"run", "stopping"}
    /\ fwNode \in {"run", "stopping"} => \A f \in FwFiles : fwMap[f] >= 0
    /\ fwMap # FwAbsent => \A f \in FwFiles : fwMap[f] >= 0

(* A file is there with a time, or not there; a scan says the same.       *)
FwAges(f) ==
    /\ 0 <= fwFolder[f]
    /\ fwLoop.step \in {"send", "save"} => 0 <= fwLoop.scan[f]

(* What is known of a file none of whose changes was missed.              *)
FwKnown(f) ==
    /\ fwNode = "stopped" /\ fwMap # FwAbsent => fwMap[f] = fwFolder[f] /\ fwTold[f] = fwFolder[f]
    /\ fwNode = "baseline" /\ fwMap # FwAbsent => fwTold[f] = fwMap[f]
    /\ fwNode = "baseline" /\ fwMap # FwAbsent /\ fwEvents = FALSE => fwMap[f] = fwFolder[f]
    /\ fwNode = "run" /\ fwLoop.step \in {"wait", "coalesce", "send"} => fwTold[f] = fwMap[f]
    /\ fwNode = "run" /\ fwLoop.step = "wait" /\ fwEvents = FALSE => fwMap[f] = fwFolder[f]
    /\ fwNode = "run" /\ fwLoop.step = "save" => fwTold[f] = fwLoop.scan[f]
    /\ fwNode = "run" /\ fwLoop.step \in {"send", "save"} /\ fwEvents = FALSE
         => fwLoop.scan[f] = fwFolder[f]

FwInv ==
    /\ FwTypes /\ FwPhases
    /\ \A f \in FwFiles : FwAges(f) /\ (f \notin fwMissed => FwKnown(f))

(* Nothing that is told of matters to a node that has no watcher.         *)
FwWatching == fwMode # "read"

\* The absent map.
LEMMA FwAbsentIs == FwAbsent \in FwStamps /\ \A f \in FwFiles : FwAbsent[f] = -1
BY DEF FwAbsent, FwStamps

\* The loop at rest.
LEMMA FwIdleIs == FwIdle \in [step : FwSteps, scan : FwStamps] /\ FwIdle.step = "wait"
BY FwAbsentIs DEF FwIdle, FwSteps

\* A node that has not started has no map.
LEMMA FwInitInv == FwInit => FwInv
<1> SUFFICES ASSUME FwInit PROVE FwInv
  OBVIOUS
<1>2. FwTypes /\ FwPhases
  <2>1. [f \in FwFiles |-> 0] \in FwStamps
    BY DEF FwStamps
  <2>2. FwTypes
    BY <2>1, FwAbsentIs, FwIdleIs DEF FwInit, FwTypes
  <2>3. FwPhases
    BY FwIdleIs DEF FwInit, FwPhases
  <2> QED BY <2>2, <2>3
<1>3. \A f \in FwFiles : FwAges(f) /\ FwKnown(f)
  BY FwAbsentIs, FwIdleIs DEF FwInit, FwAges, FwKnown
<1> QED
  BY <1>2, <1>3 DEF FwInv

\* A file is written or removed: it is reported, or missed.
LEMMA FwChangeKeeps ==
    ASSUME FwInv, NEW g \in FwFiles, FwChange(g)
    PROVE  FwInv'
<1>1. /\ fwClock' = fwClock + 1 /\ fwNode' = fwNode /\ fwMap' = fwMap
      /\ fwLoop' = fwLoop /\ fwTold' = fwTold
  BY DEF FwChange
<1>2. PICK kind \in {"create", "write", "remove"} :
        /\ fwFolder' = [fwFolder EXCEPT ![g] = IF kind = "remove" THEN 0 ELSE fwClock']
        /\ LET seen == fwNode \in {"baseline", "run"} /\ kind \in fwMask
           IN  /\ fwEvents' = (fwEvents \/ seen)
               /\ fwMissed' = IF seen THEN fwMissed ELSE fwMissed \cup {g}
  BY DEF FwChange
<1> DEFINE Seen == fwNode \in {"baseline", "run"} /\ kind \in fwMask
<1>3. /\ fwEvents' \in BOOLEAN
      /\ Seen => fwEvents' = TRUE /\ fwMissed' = fwMissed
      /\ ~Seen => fwEvents' = fwEvents /\ fwMissed' = fwMissed \cup {g}
  <2>1. fwEvents \in BOOLEAN
    BY DEF FwInv, FwTypes
  <2>2. fwEvents' = (fwEvents \/ Seen) /\ fwMissed' = IF Seen THEN fwMissed ELSE fwMissed \cup {g}
    BY <1>2, Zenon
  <2> QED BY <2>1, <2>2, Zenon
<1>4. /\ fwFolder' \in FwStamps /\ fwFolder'[g] >= 0
      /\ \A f \in FwFiles : f # g => fwFolder'[f] = fwFolder[f]
  <2>1. fwFolder \in [FwFiles -> Int] /\ fwClock' \in Nat
    BY <1>1 DEF FwInv, FwTypes, FwStamps
  <2> QED BY <1>2, <2>1 DEF FwStamps
<1>5. FwTypes' /\ FwPhases'
  <2>1. FwTypes'
    BY <1>1, <1>3, <1>4 DEF FwInv, FwTypes
  <2>2. FwPhases'
    BY <1>1 DEF FwInv, FwPhases, FwAbsent
  <2> QED BY <2>1, <2>2
<1>6. ASSUME NEW f \in FwFiles PROVE FwAges(f)'
  <2>1. FwAges(f)
    BY DEF FwInv
  <2>2. 0 <= fwFolder'[f]
    BY <1>4, <2>1 DEF FwAges
  <2> QED BY <1>1, <2>1, <2>2 DEF FwAges
<1>7. ASSUME NEW f \in FwFiles, f \notin fwMissed' PROVE FwKnown(f)'
  <2>1. FwKnown(f)
    BY <1>3, <1>7 DEF FwInv
  <2>2. CASE Seen
    <3>1. fwEvents' # FALSE /\ fwNode \in {"baseline", "run"}
      BY <1>3, <2>2
    <3> QED BY <1>1, <2>1, <3>1 DEF FwKnown, FwAbsent
  <2>3. CASE ~Seen
    <3>1. fwFolder'[f] = fwFolder[f] /\ fwEvents' = fwEvents
      BY <1>3, <1>4, <1>7, <2>3
    <3> QED BY <1>1, <2>1, <3>1 DEF FwKnown, FwAbsent
  <2> QED BY <2>2, <2>3
<1> QED
  BY <1>5, <1>6, <1>7 DEF FwInv

\* Start adds the watch.
LEMMA FwStartKeeps ==
    ASSUME FwInv, FwWatching, FwStart
    PROVE  FwInv'
<1>1. /\ fwNode \in {"new", "stopped"} /\ fwNode' = "baseline" /\ fwLoop' = FwIdle /\ fwEvents' = FALSE
      /\ fwFolder' = fwFolder /\ fwClock' = fwClock /\ fwMap' = fwMap /\ fwTold' = fwTold
      /\ fwMissed' = fwMissed
  BY DEF FwStart, FwWatching
<1>2. FwTypes' /\ FwPhases'
  BY <1>1, FwIdleIs DEF FwInv, FwTypes, FwPhases, FwAbsent
<1>3. ASSUME NEW f \in FwFiles PROVE FwAges(f)'
  BY <1>1, FwIdleIs DEF FwInv, FwAges
<1>4. ASSUME NEW f \in FwFiles, f \notin fwMissed PROVE FwKnown(f)'
  BY <1>1, <1>4, FwIdleIs DEF FwInv, FwKnown, FwPhases, FwAbsent
<1> QED
  BY <1>1, <1>2, <1>3, <1>4 DEF FwInv

\* initDirCursor.
LEMMA FwBaselineKeeps ==
    ASSUME FwInv, FwBaseline
    PROVE  FwInv'
<1>1. /\ fwNode = "baseline" /\ fwNode' = "run" /\ fwLoop' = fwLoop /\ fwEvents' = fwEvents
      /\ fwFolder' = fwFolder /\ fwClock' = fwClock /\ fwLoop.step = "wait"
  BY DEF FwBaseline, FwInv, FwPhases
<1>2. /\ fwMap' \in FwStamps /\ fwTold' \in FwStamps /\ fwClock \in Nat
      /\ \A f \in FwFiles : /\ fwMap'[f] >= 0 /\ FwAges(f)'
                            /\ f \notin fwMissed' => fwTold'[f] = fwMap'[f]
                                                  /\ (fwEvents = FALSE => fwMap'[f] = fwFolder[f])
  <2>0. /\ fwClock \in Nat /\ \A f \in FwFiles : FwAges(f) /\ fwFolder[f] \in Int /\ fwMap[f] \in Int
        /\ fwFolder \in FwStamps
    BY DEF FwInv, FwTypes, FwStamps
  <2>1. CASE fwMap # FwAbsent
    <3>1. fwMap' = fwMap /\ fwTold' = fwTold /\ fwMissed' = fwMissed
      BY <2>1 DEF FwBaseline
    <3>2. fwMap \in FwStamps /\ fwTold \in FwStamps
      BY DEF FwInv, FwTypes
    <3>3. ASSUME NEW f \in FwFiles
          PROVE  /\ fwMap[f] >= 0 /\ FwAges(f)'
                 /\ f \notin fwMissed => fwTold[f] = fwMap[f] /\ (fwEvents = FALSE => fwMap[f] = fwFolder[f])
      BY <1>1, <2>0, <2>1, <3>1 DEF FwInv, FwPhases, FwAges, FwKnown
    <3> QED BY <2>0, <3>1, <3>2, <3>3
  <2>2. CASE fwMap = FwAbsent /\ fwFromStart
    <3>1. /\ fwMap' = [f \in FwFiles |-> 0] /\ fwTold' = fwMap'
          /\ fwMissed' = {f \in FwFiles : fwFolder[f] # 0}
      BY <2>2 DEF FwBaseline
    <3>2. fwMap' \in FwStamps
      BY <3>1 DEF FwStamps
    <3>3. ASSUME NEW f \in FwFiles PROVE fwMap'[f] = 0 /\ (f \notin fwMissed' => fwFolder[f] = 0)
      BY <3>1
    <3>4. ASSUME NEW f \in FwFiles PROVE FwAges(f)'
      BY <1>1, <2>0, <3>3 DEF FwAges
    <3> QED BY <2>0, <3>1, <3>2, <3>3, <3>4
  <2>3. CASE fwMap = FwAbsent /\ ~fwFromStart
    <3>1. fwMap' = fwFolder /\ fwTold' = fwMap'
      BY <2>3 DEF FwBaseline, scanFolder
    <3>2. ASSUME NEW f \in FwFiles PROVE fwMap'[f] >= 0 /\ FwAges(f)'
      BY <1>1, <2>0, <3>1 DEF FwAges
    <3> QED BY <2>0, <3>1, <3>2
  <2> QED BY <2>1, <2>2, <2>3
<1>3. FwTypes' /\ FwPhases'
  BY <1>1, <1>2 DEF FwInv, FwTypes, FwPhases
<1>4. ASSUME NEW f \in FwFiles, f \notin fwMissed' PROVE FwKnown(f)'
  BY <1>1, <1>2, <1>4 DEF FwKnown
<1> QED
  BY <1>2, <1>3, <1>4 DEF FwInv

(* The node is not watching any more: what was told is compared with what *)
(* is there.                                                              *)
LEMMA FwEndKeeps ==
    ASSUME FwInv, fwNode' = "stopped", fwLoop'.step \in {"wait", "ended"},
           fwLoop' \in [step : FwSteps, scan : FwStamps],
           fwMissed' = FwWrong,
           UNCHANGED <<fwFolder, fwClock, fwEvents, fwMap, fwTold>>
    PROVE  FwInv'
<1>1. FwTypes' /\ FwPhases'
  BY DEF FwInv, FwTypes, FwPhases, FwAbsent
<1>2. ASSUME NEW f \in FwFiles PROVE FwAges(f)'
  BY DEF FwInv, FwAges
<1>3. ASSUME NEW f \in FwFiles, f \notin fwMissed' PROVE FwKnown(f)'
  BY <1>3 DEF FwKnown, FwWrong
<1> QED
  BY <1>1, <1>2, <1>3 DEF FwInv

\* Stop closes the watcher.
LEMMA FwStopKeeps ==
    ASSUME FwInv, FwWatching, FwStop
    PROVE  FwInv'
<1>1. /\ fwNode = "run" /\ fwNode' = "stopping" /\ fwLoop' = fwLoop /\ fwEvents' = fwEvents
      /\ fwFolder' = fwFolder /\ fwClock' = fwClock /\ fwMap' = fwMap /\ fwTold' = fwTold
  BY DEF FwStop, FwWatching
<1>2. FwTypes' /\ FwPhases'
  BY <1>1 DEF FwInv, FwTypes, FwPhases, FwAbsent
<1>3. ASSUME NEW f \in FwFiles PROVE FwAges(f)' /\ FwKnown(f)'
  BY <1>1 DEF FwInv, FwAges, FwKnown
<1> QED
  BY <1>2, <1>3 DEF FwInv

\* A report wakes the loop, or done does.
LEMMA FwWaitKeeps ==
    ASSUME FwInv, FwWait
    PROVE  FwInv'
<1>1. /\ fwNode \in {"run", "stopping"} /\ fwLoop.step = "wait"
      /\ fwNode' = fwNode /\ fwFolder' = fwFolder /\ fwClock' = fwClock /\ fwMap' = fwMap
      /\ fwTold' = fwTold /\ fwMissed' = fwMissed
  BY DEF FwWait, FwLoops
<1>2. fwLoop \in [step : FwSteps, scan : FwStamps] /\ fwEvents \in BOOLEAN
  BY DEF FwInv, FwTypes
<1>3. /\ fwLoop' \in [step : FwSteps, scan : FwStamps] /\ fwEvents' \in BOOLEAN
      /\ fwLoop'.step \in {"coalesce", "ended"} /\ (fwNode = "run" => fwLoop'.step = "coalesce")
  BY <1>2 DEF FwWait, FwSteps
<1>4. FwTypes' /\ FwPhases'
  BY <1>1, <1>3 DEF FwInv, FwTypes, FwPhases, FwAbsent
<1>5. ASSUME NEW f \in FwFiles PROVE FwAges(f)'
  BY <1>1, <1>3 DEF FwInv, FwAges
<1>6. ASSUME NEW f \in FwFiles, f \notin fwMissed PROVE FwKnown(f)'
  BY <1>1, <1>3, <1>6 DEF FwInv, FwKnown
<1> QED
  BY <1>1, <1>4, <1>5, <1>6 DEF FwInv

\* The folder is scanned after the burst was thrown away.
LEMMA FwScanKeeps ==
    ASSUME FwInv, FwScan
    PROVE  FwInv'
<1>1. /\ fwNode \in {"run", "stopping"} /\ fwLoop.step = "coalesce"
      /\ fwNode' = fwNode /\ fwFolder' = fwFolder /\ fwClock' = fwClock /\ fwMap' = fwMap
      /\ fwTold' = fwTold /\ fwMissed' = fwMissed
      /\ fwLoop' = [step |-> "send", scan |-> fwFolder]
  BY DEF FwScan, FwLoops, scanFolder
<1>2. fwEvents' \in BOOLEAN
  BY DEF FwScan, FwInv, FwTypes
<1>3. fwFolder \in FwStamps /\ fwClock \in Nat /\ \A f \in FwFiles : fwFolder[f] \in Int /\ fwMap[f] \in Int
  BY DEF FwInv, FwTypes, FwStamps
<1>4. /\ fwLoop' \in [step : FwSteps, scan : FwStamps] /\ fwLoop'.step = "send"
      /\ fwLoop'.scan = fwFolder
  BY <1>1, <1>3 DEF FwSteps
<1>5. FwTypes' /\ FwPhases'
  BY <1>1, <1>2, <1>4 DEF FwInv, FwTypes, FwPhases, FwAbsent
<1>6. ASSUME NEW f \in FwFiles PROVE FwAges(f)'
  BY <1>1, <1>3, <1>4 DEF FwInv, FwAges
<1>7. ASSUME NEW f \in FwFiles, f \notin fwMissed PROVE FwKnown(f)'
  BY <1>1, <1>4, <1>7 DEF FwInv, FwKnown
<1> QED
  BY <1>1, <1>5, <1>6, <1>7 DEF FwInv

(* The tick is over before the map is stored, and every file the map or   *)
(* the messages are wrong about is missed.                                *)
LEMMA FwGiveUpKeeps ==
    ASSUME FwInv, fwNode \in {"run", "stopping"}, fwEvents' \in BOOLEAN, fwLoop' = FwIdle,
           fwMissed' = fwMissed \cup FwWrong, UNCHANGED <<fwNode, fwFolder, fwClock, fwMap, fwTold>>
    PROVE  FwInv'
<1>1. FwTypes' /\ FwPhases'
  BY FwIdleIs DEF FwInv, FwTypes, FwPhases, FwAbsent
<1>2. ASSUME NEW f \in FwFiles PROVE FwAges(f)'
  BY FwIdleIs DEF FwInv, FwAges
<1>3. ASSUME NEW f \in FwFiles, f \notin fwMissed' PROVE FwKnown(f)'
  <2>1. fwFolder[f] = fwMap[f] /\ fwFolder[f] = fwTold[f]
    BY <1>3 DEF FwWrong
  <2> QED BY <2>1, FwIdleIs DEF FwKnown
<1> QED
  BY <1>1, <1>2, <1>3 DEF FwInv

\* A failed scan finds no file, or nothing at all.
LEMMA FwScanFailsKeeps ==
    ASSUME FwInv, FwScanFails
    PROVE  FwInv'
<1>1. /\ fwNode \in {"run", "stopping"} /\ fwLoop.step = "coalesce"
      /\ fwNode' = fwNode /\ fwFolder' = fwFolder /\ fwClock' = fwClock /\ fwMap' = fwMap
      /\ fwTold' = fwTold
  BY DEF FwScanFails, FwLoops
<1>2. fwEvents' \in BOOLEAN
  BY DEF FwScanFails, FwInv, FwTypes
<1>3. CASE fwLoop' = FwIdle /\ fwMissed' = fwMissed \cup FwWrong
  BY <1>1, <1>2, <1>3, FwGiveUpKeeps
<1>4. CASE /\ fwLoop' = [step |-> "send", scan |-> [f \in FwFiles |-> 0]]
           /\ fwMissed' = fwMissed \cup {f \in FwFiles : fwFolder[f] # 0}
  <2>1. /\ fwLoop' \in [step : FwSteps, scan : FwStamps] /\ fwLoop'.step = "send"
        /\ \A f \in FwFiles : fwLoop'.scan[f] = 0
    BY <1>4 DEF FwSteps, FwStamps
  <2>2. FwTypes' /\ FwPhases'
    BY <1>1, <1>2, <2>1 DEF FwInv, FwTypes, FwPhases, FwAbsent
  <2>3. ASSUME NEW f \in FwFiles PROVE FwAges(f)'
    BY <1>1, <2>1 DEF FwInv, FwAges
  <2>4. ASSUME NEW f \in FwFiles, f \notin fwMissed' PROVE FwKnown(f)'
    <3>1. f \notin fwMissed /\ fwFolder[f] = 0
      BY <1>4, <2>4
    <3> QED BY <1>1, <2>1, <3>1 DEF FwInv, FwKnown
  <2> QED BY <2>2, <2>3, <2>4 DEF FwInv
<1> QED
  BY <1>3, <1>4 DEF FwScanFails

(* A file that is neither sent nor missed has not changed since the map   *)
(* was stored.                                                            *)
LEMMA FwNoDifference ==
    ASSUME FwInv, fwLoop.step = "send", NEW f \in FwFiles,
           f \notin FwDiff(fwLoop.scan, fwMap), f \notin FwUntold(fwLoop.scan, fwMap)
    PROVE  fwLoop.scan[f] = fwMap[f]
<1>1. /\ 0 <= fwLoop.scan[f] /\ fwMap[f] >= 0
      /\ fwLoop.scan[f] \in Int /\ fwMap[f] \in Int
  BY DEF FwInv, FwAges, FwTypes, FwStamps, FwPhases
<1>2. /\ ~(fwLoop.scan[f] > 0 /\ fwMap[f] <= 0)
      /\ ~(fwLoop.scan[f] > 0 /\ fwMap[f] > 0 /\ FwLater(fwLoop.scan[f], fwMap[f]))
      /\ ~(fwLoop.scan[f] = 0 /\ fwMap[f] > 0 /\ "remove" \in fwMask)
  BY DEF FwDiff
<1>3. /\ ~(fwLoop.scan[f] = 0 /\ fwMap[f] > 0 /\ "remove" \notin fwMask)
      /\ ~(/\ fwLoop.scan[f] > 0 /\ fwMap[f] > 0 /\ fwLoop.scan[f] # fwMap[f]
           /\ ~FwLater(fwLoop.scan[f], fwMap[f]))
  BY DEF FwUntold
<1> QED
  BY <1>1, <1>2, <1>3

\* The differences are sent.
LEMMA FwSendKeeps ==
    ASSUME FwInv, FwSend
    PROVE  FwInv'
<1>1. /\ fwNode \in {"run", "stopping"} /\ fwLoop.step = "send"
      /\ fwNode' = fwNode /\ fwFolder' = fwFolder /\ fwClock' = fwClock /\ fwMap' = fwMap
      /\ fwEvents' = fwEvents /\ fwMissed' = fwMissed \cup FwUntold(fwLoop.scan, fwMap)
      /\ fwLoop' = [fwLoop EXCEPT !.step = "save"]
      /\ fwTold' = [f \in FwFiles |-> IF f \in FwDiff(fwLoop.scan, fwMap) THEN fwLoop.scan[f]
                                      ELSE fwTold[f]]
  BY DEF FwSend, FwLoops
<1>2. fwLoop \in [step : FwSteps, scan : FwStamps] /\ fwTold \in FwStamps
  BY DEF FwInv, FwTypes
<1>3. /\ fwLoop' \in [step : FwSteps, scan : FwStamps] /\ fwLoop'.step = "save"
      /\ fwLoop'.scan = fwLoop.scan
  BY <1>1, <1>2 DEF FwSteps
<1>4. fwTold' \in FwStamps
  BY <1>1, <1>2 DEF FwStamps
<1>5. FwTypes' /\ FwPhases'
  BY <1>1, <1>3, <1>4 DEF FwInv, FwTypes, FwPhases, FwAbsent
<1>6. ASSUME NEW f \in FwFiles PROVE FwAges(f)'
  BY <1>1, <1>3 DEF FwInv, FwAges
<1>7. ASSUME NEW f \in FwFiles, f \notin fwMissed', fwNode = "run" PROVE fwTold'[f] = fwLoop.scan[f]
  <2>1. CASE f \in FwDiff(fwLoop.scan, fwMap)
    BY <1>1, <2>1
  <2>2. CASE f \notin FwDiff(fwLoop.scan, fwMap)
    <3>1. fwLoop.scan[f] = fwMap[f]
      BY <1>1, <1>7, <2>2, FwNoDifference
    <3>2. fwTold[f] = fwMap[f]
      BY <1>1, <1>7 DEF FwInv, FwKnown
    <3> QED BY <1>1, <2>2, <3>1, <3>2
  <2> QED BY <2>1, <2>2
<1>8. ASSUME NEW f \in FwFiles, f \notin fwMissed' PROVE FwKnown(f)'
  <2>1. FwKnown(f)
    BY <1>1, <1>8 DEF FwInv
  <2> QED BY <1>1, <1>3, <1>7, <1>8, <2>1 DEF FwKnown
<1> QED
  BY <1>5, <1>6, <1>8 DEF FwInv

\* The map of the scan is stored.
LEMMA FwSaveKeeps ==
    ASSUME FwInv, FwSave
    PROVE  FwInv'
<1>1. /\ fwNode \in {"run", "stopping"} /\ fwLoop.step = "save"
      /\ fwNode' = fwNode /\ fwFolder' = fwFolder /\ fwClock' = fwClock /\ fwMap' = fwLoop.scan
      /\ fwEvents' = fwEvents
      /\ fwMissed' = {f \in fwMissed : fwFolder[f] # fwLoop.scan[f] \/ fwFolder[f] # fwTold[f]}
      /\ fwLoop' = FwIdle /\ fwTold' = fwTold
  BY DEF FwSave, FwLoops
<1>2. fwLoop \in [step : FwSteps, scan : FwStamps]
  BY DEF FwInv, FwTypes
<1>3. fwLoop.scan \in FwStamps
  BY <1>2
<1>4. \A f \in FwFiles : fwLoop.scan[f] >= 0
  BY <1>1, <1>3 DEF FwInv, FwAges, FwStamps
<1>5. FwTypes' /\ FwPhases'
  BY <1>1, <1>3, <1>4, FwIdleIs DEF FwInv, FwTypes, FwPhases
<1>6. ASSUME NEW f \in FwFiles PROVE FwAges(f)'
  BY <1>1, FwIdleIs DEF FwInv, FwAges
<1>7. ASSUME NEW f \in FwFiles, f \notin fwMissed' PROVE FwKnown(f)'
  <2>1. CASE f \notin fwMissed
    <3>1. FwKnown(f)
      BY <2>1 DEF FwInv
    <3> QED BY <1>1, <3>1, FwIdleIs DEF FwKnown
  <2>2. CASE f \in fwMissed
    <3>1. fwFolder[f] = fwLoop.scan[f] /\ fwFolder[f] = fwTold[f]
      BY <1>1, <1>7, <2>2
    <3> QED BY <1>1, <3>1, FwIdleIs DEF FwKnown
  <2> QED BY <2>1, <2>2
<1> QED
  BY <1>5, <1>6, <1>7 DEF FwInv

\* The map of the scan is not stored.
LEMMA FwSaveFailsKeeps ==
    ASSUME FwInv, FwSaveFails
    PROVE  FwInv'
<1>1. /\ fwNode \in {"run", "stopping"} /\ fwLoop.step = "save"
      /\ fwNode' = fwNode /\ fwFolder' = fwFolder /\ fwClock' = fwClock /\ fwMap' = fwMap
      /\ fwEvents' = fwEvents /\ fwMissed' = fwMissed \cup {f \in FwFiles : fwMap[f] # fwLoop.scan[f]}
      /\ fwLoop' = FwIdle /\ fwTold' = fwTold
  BY DEF FwSaveFails, FwLoops
<1>2. FwTypes' /\ FwPhases'
  BY <1>1, FwIdleIs DEF FwInv, FwTypes, FwPhases, FwAbsent
<1>3. ASSUME NEW f \in FwFiles PROVE FwAges(f)'
  BY <1>1, FwIdleIs DEF FwInv, FwAges
<1>4. ASSUME NEW f \in FwFiles, f \notin fwMissed' PROVE FwKnown(f)'
  <2>1. FwKnown(f) /\ fwMap[f] = fwLoop.scan[f]
    BY <1>1, <1>4 DEF FwInv
  <2> QED BY <1>1, <2>1, FwIdleIs DEF FwKnown
<1> QED
  BY <1>2, <1>3, <1>4 DEF FwInv

\* Every step keeps the invariant of the watch.
LEMMA FwNextInv ==
    ASSUME FwWatching, FwInv, [FwNext]_fwVars
    PROVE  FwInv'
<1>1. CASE UNCHANGED fwVars
  BY <1>1 DEF fwVars, FwInv, FwTypes, FwPhases, FwAbsent, FwAges, FwKnown
<1>2. CASE \E f \in FwFiles : FwChange(f)
  BY <1>2, FwChangeKeeps
<1>3. CASE FwStart
  BY <1>3, FwStartKeeps
<1>4. CASE FwStop
  BY <1>4, FwStopKeeps
<1>5. CASE FwCrash
  BY <1>5, FwEndKeeps, FwIdleIs DEF FwCrash
<1>6. CASE FwHandleMessage
  BY <1>6 DEF FwHandleMessage, FwWatching
<1>7. CASE FwBaseline
  BY <1>7, FwBaselineKeeps
<1>8. CASE FwStopped
  <2>1. fwLoop' = fwLoop /\ fwLoop.step = "ended" /\ fwLoop \in [step : FwSteps, scan : FwStamps]
    BY <1>8 DEF FwStopped, FwInv, FwTypes
  <2> QED BY <1>8, <2>1, FwEndKeeps DEF FwStopped
<1>9. CASE FwStartFails
  <2>1. fwLoop' = fwLoop /\ fwLoop.step = "wait" /\ fwLoop \in [step : FwSteps, scan : FwStamps]
    BY <1>9 DEF FwStartFails, FwInv, FwTypes, FwPhases
  <2> QED BY <1>9, <2>1, FwEndKeeps DEF FwStartFails
<1>10. CASE FwWait \/ FwScan \/ FwScanFails
  BY <1>10, FwWaitKeeps, FwScanKeeps, FwScanFailsKeeps
<1>11. CASE FwSend \/ FwSave \/ FwSaveFails
  BY <1>11, FwSendKeeps, FwSaveKeeps, FwSaveFailsKeeps
<1>12. CASE FwLoadFails
  <2>1. fwEvents' = fwEvents /\ fwEvents \in BOOLEAN
    BY <1>12 DEF FwLoadFails, FwInv, FwTypes
  <2> QED BY <1>12, <2>1, FwGiveUpKeeps DEF FwLoadFails, FwLoops
<1> QED
  BY <1>1, <1>2, <1>3, <1>4, <1>5, <1>6, <1>7, <1>8, <1>9, <1>10, <1>11, <1>12
  DEF FwNext, FwProgress, FwFailure

(* file-watch: at rest the stored map, the last message and the folder     *)
(* agree on every file but those with a change that was missed in one of   *)
(* the ways FwMapCurrent names, however reports are thrown away, the       *)
(* folder changes during a scan, scans and the store fail and the process  *)
(* dies (file_watch.go).                                                   *)
THEOREM WatchIsCurrent == FwSpec => []FwMapCurrent
<1> DEFINE I == FwWatching => FwInv
<1>1. FwInit => I
  BY FwInitInv
<1>2. I /\ [FwNext]_fwVars => I'
  <2> SUFFICES ASSUME I, [FwNext]_fwVars PROVE I'
    OBVIOUS
  <2>1. fwMode' = fwMode
    BY DEF FwNext, fwVars, FwChange, FwStart, FwStop, FwCrash, FwHandleMessage, FwProgress,
           FwBaseline, FwStopped, FwWait, FwScan, FwSend, FwSave, FwFailure, FwStartFails,
           FwScanFails, FwLoadFails, FwSaveFails
  <2> QED BY <2>1, FwNextInv DEF FwWatching
<1>3. I => FwMapCurrent
  <2> SUFFICES ASSUME I, FwTellsNow, fwLoop.step = "wait", ~fwEvents, NEW f \in FwFiles \ fwMissed
               PROVE  fwMap[f] = fwFolder[f] /\ fwTold[f] = fwFolder[f]
    BY DEF FwMapCurrent
  <2>1. FwInv /\ fwNode = "run"
    BY DEF FwTellsNow, FwWatching
  <2>2. fwEvents = FALSE
    BY <2>1 DEF FwInv, FwTypes
  <2> QED BY <2>1, <2>2 DEF FwInv, FwKnown
<1> QED
  BY <1>1, <1>2, <1>3, PTL DEF FwSpec

-----------------------------------------------------------------------------
(***************************************************************************)
(* tcp-request.                                                            *)
(***************************************************************************)

TrConn == [dest : TrDests, open : BOOLEAN, peer : BOOLEAN, in : Seq(TrIds), owed : Seq(TrIds)]
TrCallStates == [pc : {"idle", "acquire", "dial", "store", "write", "read", "good", "bad"},
                 dest : TrDests, conn : Nat, outer : Nat, reused : BOOLEAN,
                 second : BOOLEAN, got : Seq(TrIds)]

TrTypes ==
    /\ trKeep \in BOOLEAN /\ trTerm \in TrTerms
    /\ trConns \in Seq(TrConn) /\ trCached \in 0 .. Len(trConns)
    /\ trCall \in TrCallStates
    /\ trCall.conn \in 0 .. Len(trConns) /\ trCall.outer \in 0 .. Len(trConns)
    /\ trCall.pc \in {"store", "write", "read", "good", "bad"} => trCall.conn # 0
    /\ trCount \in 0 .. TrCalls /\ (trCall.pc # "idle" => trCount # 0)
    /\ trOut \in [TrIds -> [end : {"none", "ok", "error"}, from : Seq(TrIds)]]

TrOpen(c) == trConns[c].open = TRUE

(* Whom the open sockets belong to, at every step of a call. *)
TrHeld ==
    /\ \A c \in 1 .. Len(trConns) : TrOpen(c) =>
           \/ c = trCached
           \/ c = trCall.conn /\ trCall.pc \in {"store", "write", "read", "good", "bad"}
    /\ trCall.pc \in {"dial", "store"} => trCached = 0
    /\ trCall.pc = "store" => trKeep = TRUE
    /\ trCall.pc = "acquire" /\ trCall.second = TRUE => trCached = 0
    /\ trCall.pc \in {"write", "read", "good", "bad"} =>
           /\ trCached \in {0, trCall.conn}
           /\ trKeep = TRUE /\ TrOpen(trCall.conn) => trCached = trCall.conn
    /\ trKeep = FALSE => trCached = 0 /\ trCall.reused = FALSE /\ trCall.second = FALSE
    /\ trTerm = "close" => trKeep = FALSE

(* What a connection may still deliver: nothing, or the answer to call i. *)
TrClean(r) == r.in = <<>> /\ r.owed = <<>>
TrOnly(r, i) ==
    TrClean(r) \/ (r.in = <<i>> /\ r.owed = <<>>) \/ (r.in = <<>> /\ r.owed = <<i>>)

(* All answers in s are answers to call i. *)
TrMine(s, i) == \A k \in 1 .. Len(s) : s[k] = i

(* A connection that may be used again has nothing to deliver, and one that  *)
(* is being read only the answer to the call that reads it.                  *)
TrOwn ==
    (trTerm # "time" /\ trBudget.secondFailed = FALSE) =>
        /\ (trCached # 0 /\ TrOpen(trCached)
              /\ ~(trCached = trCall.conn /\ trCall.pc \in {"read", "bad"}))
               => TrClean(trConns[trCached])
        /\ (trCall.pc \in {"store", "write"} /\ TrOpen(trCall.conn))
               => TrClean(trConns[trCall.conn])
        /\ (trCall.pc = "read" /\ TrOpen(trCall.conn))
               => TrOnly(trConns[trCall.conn], trCount)
        /\ trCall.pc = "good"
               => TrMine(trCall.got, trCount)
        /\ \A i \in TrIds : TrMine(trOut[i].from, i)

TrBudgetType == trBudget \in [faults : 0 .. TrFaults, secondFailed : BOOLEAN]

TrInv == TrTypes /\ TrHeld /\ TrOwn /\ TrBudgetType

-----------------------------------------------------------------------------
(* Operators on connections. *)

\* Nothing that is pending is of no other request.
LEMMA TrNoneIsMine == ASSUME NEW i PROVE TrMine(<<>>, i)
BY DEF TrMine

\* Queues of one request's bytes.
LEMMA TrSequences ==
    ASSUME NEW S, NEW s \in Seq(S), NEW i \in S
    PROVE  /\ Append(s, i) \in Seq(S) /\ (s = <<>> => Append(s, i) = <<i>>)
           /\ s # <<>> => s[1] \in S /\ <<s[1]>> \in Seq(S) /\ Tail(s) \in Seq(S)
<1>1. Append(s, i) \in Seq(S) /\ Append(<<>>, i) = <<i>>
  OBVIOUS
<1>2. ASSUME s # <<>> PROVE s[1] \in S /\ Tail(s) \in Seq(S)
  BY <1>2
<1>3. \A x \in S : <<x>> \in Seq(S)
  OBVIOUS
<1> QED
  BY <1>1, <1>2, <1>3

\* One connection of the table is replaced.
LEMMA TrSet ==
    ASSUME NEW S, NEW s \in Seq(S), NEW c \in 1 .. Len(s), NEW r \in S
    PROVE  /\ [s EXCEPT ![c] = r] \in Seq(S)
           /\ Len([s EXCEPT ![c] = r]) = Len(s)
           /\ [s EXCEPT ![c] = r][c] = r
           /\ \A d \in 1 .. Len(s) : d # c => [s EXCEPT ![c] = r][d] = s[d]
OBVIOUS

\* A closed connection is a connection.
LEMMA TrConnClosed ==
    ASSUME NEW r \in TrConn
    PROVE  [r EXCEPT !.open = FALSE] \in TrConn /\ [r EXCEPT !.open = FALSE].open = FALSE
BY DEF TrConn

\* A connection is closed, and everybody's claim to it is as before.
LEMMA TrCloses ==
    ASSUME NEW s \in Seq(TrConn), NEW c \in 0 .. Len(s)
    PROVE  /\ TrClose(s, c) \in Seq(TrConn) /\ Len(TrClose(s, c)) = Len(s)
           /\ \A d \in 1 .. Len(s) : TrClose(s, c)[d].open = TRUE
                                         => d # c /\ TrClose(s, c)[d] = s[d]
<1>1. CASE c = 0
  BY <1>1 DEF TrClose
<1>2. CASE c # 0
  <2> DEFINE r == [s[c] EXCEPT !.open = FALSE]
             t == [s EXCEPT ![c] = r]
  <2>1. c \in 1 .. Len(s) /\ s[c] \in TrConn
    BY <1>2
  <2>2. r \in TrConn /\ r.open = FALSE
    BY <2>1, TrConnClosed
  <2>3. TrClose(s, c) = t
    BY <1>2 DEF TrClose
  <2> HIDE DEF r
  <2>4. /\ t \in Seq(TrConn) /\ Len(t) = Len(s) /\ t[c] = r
        /\ \A d \in 1 .. Len(s) : d # c => t[d] = s[d]
    BY <2>1, <2>2, TrSet
  <2> HIDE DEF t
  <2> QED BY <2>2, <2>3, <2>4
<1> QED
  BY <1>1, <1>2

\* A handler that is not running holds no connection.
LEMMA TrNoCallIdle ==
    /\ TrNoCall \in TrCallStates /\ TrNoCall.pc = "idle" /\ TrNoCall.conn = 0
    /\ TrNoCall.outer = 0 /\ TrNoCall.reused = FALSE /\ TrNoCall.second = FALSE
BY TrAssumption DEF TrNoCall, TrCallStates

\* No request has been made.
LEMMA TrInitInv == TrInit => TrInv
<1> SUFFICES ASSUME TrInit PROVE TrInv
  OBVIOUS
<1>1. /\ TrNoCall \in TrCallStates /\ TrNoCall.pc = "idle" /\ TrNoCall.conn = 0
      /\ TrNoCall.outer = 0 /\ TrNoCall.reused = FALSE /\ TrNoCall.second = FALSE
  BY TrNoCallIdle
<1>2. trConns \in Seq(TrConn) /\ Len(trConns) = 0
  BY DEF TrInit
<1>3. trOut \in [TrIds -> [end : {"none", "ok", "error"}, from : Seq(TrIds)]]
  BY DEF TrInit
<1>4. TrTypes
  BY <1>1, <1>2, <1>3, TrAssumption DEF TrInit, TrTypes
<1>5. TrHeld
  BY <1>1, <1>2 DEF TrInit, TrHeld
<1>6. ASSUME NEW i \in TrIds PROVE TrMine(trOut[i].from, i)
  <2>1. trOut[i].from = <<>>
    BY DEF TrInit
  <2> QED BY <2>1, TrNoneIsMine
<1>7. TrOwn
  BY <1>1, <1>6 DEF TrInit, TrOwn
<1>8. TrBudgetType
  BY TrAssumption DEF TrInit, TrBudgetType
<1> QED
  BY <1>4, <1>5, <1>7, <1>8 DEF TrInv

(* The call ends: its record is reset and its outcome written down. *)
LEMMA TrEnds ==
    ASSUME TrTypes, trCall.pc # "idle", NEW how \in {"ok", "error"}, NEW from \in Seq(TrIds),
           TrEnd(how, from)
    PROVE  /\ trCall' \in TrCallStates /\ trCall'.pc = "idle" /\ trCall'.conn = 0
           /\ trCall'.outer = 0 /\ trCall'.reused = FALSE /\ trCall'.second = FALSE
           /\ trOut' \in [TrIds -> [end : {"none", "ok", "error"}, from : Seq(TrIds)]]
           /\ trCount \in TrIds /\ trOut'[trCount].from = from
           /\ \A i \in TrIds : i # trCount => trOut'[i] = trOut[i]
<1>1. trCall' = TrNoCall /\ trOut' = [trOut EXCEPT ![trCount] = [end |-> how, from |-> from]]
  BY DEF TrEnd
<1>2. trCount \in TrIds
  BY TrAssumption DEF TrTypes, TrIds
<1>3. [end |-> how, from |-> from] \in [end : {"none", "ok", "error"}, from : Seq(TrIds)]
  OBVIOUS
<1>4. trOut \in [TrIds -> [end : {"none", "ok", "error"}, from : Seq(TrIds)]]
  BY DEF TrTypes
<1>5. /\ TrNoCall \in TrCallStates /\ TrNoCall.pc = "idle" /\ TrNoCall.conn = 0
      /\ TrNoCall.outer = 0 /\ TrNoCall.reused = FALSE /\ TrNoCall.second = FALSE
  BY TrNoCallIdle
<1>6. /\ trOut' \in [TrIds -> [end : {"none", "ok", "error"}, from : Seq(TrIds)]]
      /\ trOut'[trCount] = [end |-> how, from |-> from]
      /\ \A i \in TrIds : i # trCount => trOut'[i] = trOut[i]
  BY <1>1, <1>2, <1>3, <1>4
<1> QED
  BY <1>1, <1>2, <1>5, <1>6

\* A message starts a request.
LEMMA TrHandleKeeps ==
    ASSUME TrInv, NEW dest \in TrDests, TrHandleMessage(dest) PROVE TrInv'
<1>1. /\ trCall' \in TrCallStates /\ trCall'.pc = "acquire" /\ trCall'.conn = 0
      /\ trCall'.outer = 0 /\ trCall'.reused = FALSE /\ trCall'.second = FALSE
  <2>1. trCall' = [TrNoCall EXCEPT !.pc = "acquire", !.dest = dest]
    BY DEF TrHandleMessage
  <2> QED BY <2>1, TrNoCallIdle DEF TrCallStates
<1>2. trCount' \in 0 .. TrCalls /\ trCount' # 0
  BY TrAssumption DEF TrHandleMessage, TrInv, TrTypes
<1>3. TrTypes' /\ TrBudgetType'
  BY <1>1, <1>2 DEF TrHandleMessage, TrInv, TrTypes, TrBudgetType
<1>4. TrHeld'
  BY <1>1 DEF TrHandleMessage, TrInv, TrHeld, TrOpen
<1>5. TrOwn'
  BY <1>1 DEF TrHandleMessage, TrInv, TrOwn, TrOpen, TrHeld, TrTypes
<1> QED
  BY <1>3, <1>4, <1>5 DEF TrInv

\* A request is refused because the node stops.
LEMMA TrRejectKeeps ==
    ASSUME TrInv, TrRejected PROVE TrInv'
<1>1. trCount \in Nat /\ trCount + 1 \in TrIds /\ trCount' \in 0 .. TrCalls
  BY TrAssumption DEF TrRejected, TrInv, TrTypes, TrIds
<1> DEFINE i0 == trCount + 1
           e == [trOut[i0] EXCEPT !.end = "error"]
<1>2. trOut \in [TrIds -> [end : {"none", "ok", "error"}, from : Seq(TrIds)]]
  BY DEF TrInv, TrTypes
<1>3. /\ e \in [end : {"none", "ok", "error"}, from : Seq(TrIds)]
      /\ e.from = trOut[i0].from
  BY <1>1, <1>2
<1>4. trOut' = [trOut EXCEPT ![i0] = e]
  BY <1>1, <1>2 DEF TrRejected
<1> HIDE DEF e
<1>5. /\ trOut' \in [TrIds -> [end : {"none", "ok", "error"}, from : Seq(TrIds)]]
      /\ \A i \in TrIds : trOut'[i].from = trOut[i].from
  BY <1>1, <1>2, <1>3, <1>4
<1>6. TrTypes' /\ TrBudgetType'
  BY <1>1, <1>5 DEF TrRejected, TrInv, TrTypes, TrBudgetType
<1>7. TrHeld'
  BY DEF TrRejected, TrInv, TrHeld, TrOpen
<1>8. TrOwn'
  BY <1>5 DEF TrRejected, TrInv, TrOwn, TrOpen
<1> QED
  BY <1>6, <1>7, <1>8 DEF TrInv

\* A kept connection is taken from the pool, or none is there.
LEMMA TrAcquireKeeps ==
    ASSUME TrInv, acquireConn PROVE TrInv'
<1>0. TrTypes /\ TrHeld /\ TrOwn /\ trCall.pc = "acquire" /\ trCall \in TrCallStates
  BY DEF TrInv, acquireConn, TrTypes
<1>1. CASE /\ trKeep /\ trCached # 0
           /\ trCall' = [trCall EXCEPT !.pc = "write", !.conn = trCached, !.reused = TRUE]
           /\ UNCHANGED <<trConns, trCached>>
  <2>1. /\ trCall' \in TrCallStates /\ trCall'.pc = "write" /\ trCall'.conn = trCached
        /\ trCall'.outer = trCall.outer /\ trCall'.reused = TRUE
        /\ trCall'.second = trCall.second
    <3>1. trCached \in Nat
      BY <1>0 DEF TrTypes
    <3> QED BY <1>0, <1>1, <3>1 DEF TrCallStates
  <2>2. TrTypes' /\ TrBudgetType'
    BY <1>0, <1>1, <2>1 DEF acquireConn, TrTypes, TrInv, TrBudgetType
  <2>3. TrHeld'
    BY <1>0, <1>1, <2>1 DEF acquireConn, TrHeld, TrOpen, TrTypes
  <2>4. TrOwn'
    BY <1>0, <1>1, <2>1 DEF acquireConn, TrOwn, TrOpen
  <2> QED BY <2>2, <2>3, <2>4 DEF TrInv
<1>2. CASE /\ trCall' = [trCall EXCEPT !.pc = "dial"]
           /\ trConns' = TrClose(trConns, trCached) /\ trCached' = 0
  <2>1. /\ trCall' \in TrCallStates /\ trCall'.pc = "dial" /\ trCall'.conn = trCall.conn
        /\ trCall'.outer = trCall.outer /\ trCall'.reused = trCall.reused
        /\ trCall'.second = trCall.second
    BY <1>0, <1>2 DEF TrCallStates
  <2>2. /\ trConns' \in Seq(TrConn) /\ Len(trConns') = Len(trConns)
        /\ \A d \in 1 .. Len(trConns) : trConns'[d].open = TRUE
                                         => d # trCached /\ trConns'[d] = trConns[d]
    BY <1>0, <1>2, TrCloses DEF TrTypes
  <2>3. TrTypes' /\ TrBudgetType'
    BY <1>0, <1>2, <2>1, <2>2 DEF acquireConn, TrTypes, TrInv, TrBudgetType
  <2>4. TrHeld'
    BY <1>0, <1>2, <2>1, <2>2 DEF acquireConn, TrHeld, TrOpen
  <2>5. TrOwn'
    BY <1>0, <1>2, <2>1 DEF acquireConn, TrOwn
  <2> QED BY <2>3, <2>4, <2>5 DEF TrInv
<1> QED
  BY <1>1, <1>2 DEF acquireConn

\* A new connection is made, or not.
LEMMA TrDialKeeps ==
    ASSUME TrInv, TrDial PROVE TrInv'
<1>0. TrTypes /\ TrHeld /\ TrOwn /\ TrBudgetType /\ trCall.pc = "dial" /\ trCall \in TrCallStates
  BY DEF TrInv, TrDial, TrTypes
<1>1. CASE /\ trConns' = Append(trConns, [dest |-> trCall.dest, open |-> TRUE, peer |-> TRUE,
                                          in |-> <<>>, owed |-> <<>>])
           /\ trCall' = [trCall EXCEPT !.pc = IF trKeep THEN "store" ELSE "write",
                                       !.conn = Len(trConns) + 1]
           /\ UNCHANGED <<trOut, trBudget>>
  <2> DEFINE r == [dest |-> trCall.dest, open |-> TRUE, peer |-> TRUE, in |-> <<>>, owed |-> <<>>]
             n == Len(trConns) + 1
  <2>1. r \in TrConn /\ TrClean(r)
    BY <1>0 DEF TrConn, TrCallStates, TrClean
  <2>2. trConns' = Append(trConns, r)
    BY <1>1
  <2> HIDE DEF r
  <2>3. /\ trConns' \in Seq(TrConn) /\ Len(trConns') = n /\ n \in Nat /\ trConns'[n] = r
        /\ Len(trConns) \in Nat
        /\ \A c \in 1 .. Len(trConns) : trConns'[c] = trConns[c]
    BY <1>0, <2>1, <2>2 DEF TrTypes
  <2>4. /\ trCall' \in TrCallStates /\ trCall'.conn = n
        /\ trCall'.pc = IF trKeep THEN "store" ELSE "write"
        /\ trCall'.outer = trCall.outer /\ trCall'.reused = trCall.reused
        /\ trCall'.second = trCall.second
    BY <1>0, <1>1, <2>3 DEF TrCallStates
  <2>5. TrTypes' /\ TrBudgetType'
    BY <1>0, <1>1, <2>3, <2>4 DEF TrDial, TrTypes, TrBudgetType
  <2>6. TrHeld'
    BY <1>0, <1>1, <2>3, <2>4 DEF TrDial, TrHeld, TrOpen, TrTypes
  <2>7. TrOwn'
    <3>1. /\ trCached' = 0 /\ trCall'.pc \in {"store", "write"} /\ TrClean(trConns'[trCall'.conn])
          /\ trTerm' = trTerm
      BY <1>0, <2>1, <2>3, <2>4 DEF TrDial, TrHeld
    <3> QED BY <1>0, <1>1, <3>1 DEF TrOwn
  <2> QED BY <2>5, <2>6, <2>7 DEF TrInv
<1>2. CASE /\ trBudget.faults > 0 /\ trBudget' = [trBudget EXCEPT !.faults = @ - 1]
           /\ TrEnd("error", <<>>) /\ UNCHANGED trConns
  <2>1. /\ trCall' \in TrCallStates /\ trCall'.pc = "idle" /\ trCall'.conn = 0
        /\ trCall'.outer = 0 /\ trCall'.reused = FALSE /\ trCall'.second = FALSE
        /\ trOut' \in [TrIds -> [end : {"none", "ok", "error"}, from : Seq(TrIds)]]
        /\ trCount \in TrIds /\ trOut'[trCount].from = <<>>
        /\ \A i \in TrIds : i # trCount => trOut'[i] = trOut[i]
    <3>1. <<>> \in Seq(TrIds)
      OBVIOUS
    <3> QED BY <1>0, <1>2, <3>1, TrEnds
  <2>2. TrBudgetType' /\ trBudget'.secondFailed = trBudget.secondFailed
    BY <1>0, <1>2, TrAssumption DEF TrBudgetType
  <2>3. TrTypes'
    BY <1>0, <1>2, <2>1 DEF TrDial, TrTypes
  <2>4. TrHeld'
    BY <1>0, <1>2, <2>1 DEF TrDial, TrHeld, TrOpen
  <2>5. TrOwn'
    <3>1. trCached' = 0 /\ trTerm' = trTerm /\ TrMine(trOut'[trCount].from, trCount)
      BY <1>0, <2>1, TrNoneIsMine DEF TrDial, TrHeld
    <3>2. ASSUME NEW i \in TrIds, TrMine(trOut[i].from, i) PROVE TrMine(trOut'[i].from, i)
      BY <2>1, <3>1, <3>2, Zenon
    <3> QED BY <1>0, <2>1, <2>2, <3>1, <3>2 DEF TrOwn
  <2> QED BY <2>2, <2>3, <2>4, <2>5 DEF TrInv
<1> QED
  BY <1>1, <1>2 DEF TrDial

\* A new connection is put in the pool.
LEMMA TrStoreKeeps ==
    ASSUME TrInv, TrStore PROVE TrInv'
<1>0. TrTypes /\ TrHeld /\ TrOwn /\ TrBudgetType /\ trCall.pc = "store" /\ trCall \in TrCallStates
  BY DEF TrInv, TrStore, TrTypes
<1>1. /\ trCall' \in TrCallStates /\ trCall'.pc = "write" /\ trCall'.conn = trCall.conn
      /\ trCall'.outer = trCall.outer /\ trCall'.reused = trCall.reused
      /\ trCall'.second = trCall.second
  BY <1>0 DEF TrStore, TrCallStates
<1>2. TrTypes' /\ TrBudgetType'
  BY <1>0, <1>1 DEF TrStore, TrTypes, TrBudgetType
<1>3. TrHeld'
  BY <1>0, <1>1 DEF TrStore, TrHeld, TrOpen
<1>4. TrOwn'
  BY <1>0, <1>1 DEF TrStore, TrOwn, TrOpen
<1> QED
  BY <1>2, <1>3, <1>4 DEF TrInv

(* A connection gets another record, open as before. *)
LEMMA TrPut ==
    ASSUME trConns \in Seq(TrConn), NEW c \in 1 .. Len(trConns), NEW q \in TrConn,
           q.open = trConns[c].open, trConns' = [trConns EXCEPT ![c] = q]
    PROVE  /\ trConns' \in Seq(TrConn) /\ Len(trConns') = Len(trConns) /\ trConns'[c] = q
           /\ \A d \in 1 .. Len(trConns) : /\ d # c => trConns'[d] = trConns[d]
                                           /\ trConns'[d].open = trConns[d].open
<1>1. /\ trConns' \in Seq(TrConn) /\ Len(trConns') = Len(trConns) /\ trConns'[c] = q
      /\ \A d \in 1 .. Len(trConns) : d # c => trConns'[d] = trConns[d]
  BY TrSet
<1> QED
  BY <1>1

(* The peer owes the answer to one more request. *)
LEMMA TrConnOwes ==
    ASSUME NEW r \in TrConn, NEW i \in TrIds
    PROVE  LET q == [r EXCEPT !.owed = Append(@, i)]
           IN  q \in TrConn /\ q.open = r.open /\ (TrClean(r) => TrOnly(q, i))
<1> DEFINE q == [r EXCEPT !.owed = Append(@, i)]
<1>1. Append(r.owed, i) \in Seq(TrIds) /\ (r.owed = <<>> => Append(r.owed, i) = <<i>>)
  <2>1. r.owed \in Seq(TrIds)
    BY DEF TrConn
  <2> QED BY <2>1, TrSequences
<1>2. q \in TrConn /\ q.open = r.open /\ q.in = r.in /\ q.owed = Append(r.owed, i)
  BY <1>1 DEF TrConn
<1> HIDE DEF q
<1>3. TrClean(r) => TrOnly(q, i)
  BY <1>1, <1>2 DEF TrClean, TrOnly
<1> QED
  BY <1>2, <1>3 DEF q

(* The peer answers. *)
LEMMA TrConnAnswers ==
    ASSUME NEW r \in TrConn, r.owed # <<>>
    PROVE  LET q == [r EXCEPT !.in = Append(@, Head(r.owed)), !.owed = Tail(@)]
           IN  /\ q \in TrConn /\ q.open = r.open
               /\ ~TrClean(r) /\ \A i : TrOnly(r, i) => TrOnly(q, i)
<1> DEFINE q == [r EXCEPT !.in = Append(@, Head(r.owed)), !.owed = Tail(@)]
<1>1. r.in \in Seq(TrIds) /\ r.owed \in Seq(TrIds)
  BY DEF TrConn
<1>2. Append(r.in, Head(r.owed)) \in Seq(TrIds) /\ Tail(r.owed) \in Seq(TrIds)
  BY <1>1
<1>3. q \in TrConn /\ q.open = r.open /\ q.in = Append(r.in, Head(r.owed)) /\ q.owed = Tail(r.owed)
  BY <1>2 DEF TrConn
<1> HIDE DEF q
<1>4. ASSUME NEW i, TrOnly(r, i) PROVE TrOnly(q, i)
  <2>1. r.in = <<>> /\ r.owed = <<i>>
    BY <1>4 DEF TrOnly, TrClean
  <2>2. q.in = <<i>> /\ q.owed = <<>>
    BY <1>3, <2>1
  <2> QED BY <2>2 DEF TrOnly
<1>5. ~TrClean(r)
  BY DEF TrClean
<1> QED
  BY <1>3, <1>4, <1>5 DEF q

(* A read returns whole answers, and where a terminator ends the response    *)
(* and one call only may be answered, that answer and nothing is left.       *)
LEMMA TrReads ==
    ASSUME NEW c \in TrConn, trTerm \in TrTerms, NEW r \in readResponse(c.in, c.peer)
    PROVE  /\ r.got \in Seq(TrIds) /\ r.rest \in Seq(TrIds)
           /\ [c EXCEPT !.in = r.rest] \in TrConn
           /\ [c EXCEPT !.in = r.rest].open = c.open
           /\ \A i : TrOnly(c, i) /\ trTerm # "time" =>
                 /\ TrMine(r.got, i)
                 /\ trTerm # "close" => TrClean([c EXCEPT !.in = r.rest])
<1>1. c.in \in Seq(TrIds) /\ c.owed \in Seq(TrIds) /\ <<>> \in Seq(TrIds)
  BY DEF TrConn
<1>2. CASE trTerm = "time"
  <2>1. r.got = c.in /\ r.rest = <<>>
    BY <1>2 DEF readResponse
  <2> QED BY <1>1, <1>2, <2>1 DEF TrConn
<1>3. CASE trTerm = "close"
  <2>1. r.got = c.in /\ r.rest = <<>>
    BY <1>3 DEF readResponse
  <2>2. ASSUME NEW i, TrOnly(c, i) PROVE TrMine(c.in, i)
    <3>1. c.in = <<>> \/ c.in = <<i>>
      BY <2>2 DEF TrOnly, TrClean
    <3> QED BY <3>1 DEF TrMine
  <2> QED BY <1>1, <1>3, <2>1, <2>2 DEF TrConn
<1>4. CASE trTerm \in {"exact", "delimiter"}
  <2>1. c.in # <<>> /\ r.got = <<c.in[1]>> /\ r.rest \in {Tail(c.in), <<>>}
    BY <1>4 DEF readResponse
  <2>2. c.in[1] \in TrIds /\ r.got \in Seq(TrIds) /\ r.rest \in Seq(TrIds)
    <3>1. PICK i \in TrIds : TRUE
      BY <1>1, <2>1
    <3>2. c.in[1] \in TrIds /\ <<c.in[1]>> \in Seq(TrIds) /\ Tail(c.in) \in Seq(TrIds)
      BY <1>1, <2>1, <3>1, TrSequences
    <3> QED BY <1>1, <2>1, <3>2
  <2> DEFINE q == [c EXCEPT !.in = r.rest]
  <2>3. q \in TrConn /\ q.open = c.open /\ q.in = r.rest /\ q.owed = c.owed
    BY <2>2 DEF TrConn
  <2> HIDE DEF q
  <2>4. ASSUME NEW i, TrOnly(c, i) PROVE TrMine(r.got, i) /\ TrClean(q)
    <3>1. c.in = <<i>> /\ c.owed = <<>>
      BY <2>1, <2>4 DEF TrOnly, TrClean
    <3>2. r.got = <<i>> /\ r.rest = <<>>
      BY <2>1, <3>1
    <3> QED BY <2>3, <3>1, <3>2 DEF TrMine, TrClean
  <2> QED BY <2>2, <2>3, <2>4 DEF q
<1> QED
  BY <1>2, <1>3, <1>4, TrAssumption

\* The request is written, or the write fails.
LEMMA TrWriteKeeps ==
    ASSUME TrInv, TrWrite PROVE TrInv'
<1> DEFINE n == trCall.conn
<1>0. /\ TrTypes /\ TrHeld /\ TrOwn /\ TrBudgetType /\ trCall.pc = "write" /\ trCall \in TrCallStates
      /\ n \in 1 .. Len(trConns) /\ trConns[n] \in TrConn /\ trConns \in Seq(TrConn)
      /\ trCount \in TrIds /\ trCached \in {0, n}
  BY TrAssumption DEF TrInv, TrWrite, TrTypes, TrHeld, TrIds
<1>1. CASE /\ trConns[n].open /\ trConns[n].peer
           /\ trConns' = [trConns EXCEPT ![n].owed = Append(@, trCount)]
           /\ trCall' = [trCall EXCEPT !.pc = "read"]
  <2> DEFINE q == [trConns[n] EXCEPT !.owed = Append(@, trCount)]
  <2>1. /\ trCall' \in TrCallStates /\ trCall'.pc = "read" /\ trCall'.conn = trCall.conn
        /\ trCall'.outer = trCall.outer /\ trCall'.reused = trCall.reused
        /\ trCall'.second = trCall.second
    BY <1>0, <1>1 DEF TrCallStates
  <2>2. /\ q \in TrConn /\ q.open = trConns[n].open
        /\ TrClean(trConns[n]) => TrOnly(q, trCount)
    BY <1>0, TrConnOwes
  <2>3. trConns' = [trConns EXCEPT ![n] = q]
    BY <1>0, <1>1
  <2> HIDE DEF q
  <2>4. /\ trConns' \in Seq(TrConn) /\ Len(trConns') = Len(trConns) /\ trConns'[n] = q
        /\ \A d \in 1 .. Len(trConns) : /\ d # n => trConns'[d] = trConns[d]
                                        /\ trConns'[d].open = trConns[d].open
    BY <1>0, <2>2, <2>3, TrPut
  <2>5. TrTypes' /\ TrBudgetType'
    BY <1>0, <1>1, <2>1, <2>4 DEF TrWrite, TrTypes, TrBudgetType
  <2>6. TrHeld'
    BY <1>0, <1>1, <2>1, <2>4 DEF TrWrite, TrHeld, TrOpen
  <2>7. TrOwn'
    <3>1. trCached' \in {0, trCall'.conn} /\ trCall'.pc = "read" /\ UNCHANGED <<trTerm, trBudget, trOut, trCount>>
      BY <1>0, <2>1 DEF TrWrite
    <3>2. trTerm # "time" /\ trBudget.secondFailed = FALSE => TrClean(trConns[n])
      BY <1>0, <1>1 DEF TrOwn, TrOpen, TrConn
    <3> QED BY <1>0, <2>1, <2>2, <2>4, <3>1, <3>2 DEF TrOwn
  <2> QED BY <2>5, <2>6, <2>7 DEF TrInv
<1>2. CASE /\ trCall' = [trCall EXCEPT !.pc = "read"] /\ UNCHANGED trConns
           /\ trConns[n].open
  <2>1. /\ trCall' \in TrCallStates /\ trCall'.pc = "read" /\ trCall'.conn = trCall.conn
        /\ trCall'.outer = trCall.outer /\ trCall'.reused = trCall.reused
        /\ trCall'.second = trCall.second
    BY <1>0, <1>2 DEF TrCallStates
  <2>2. TrTypes' /\ TrBudgetType'
    BY <1>0, <1>2, <2>1 DEF TrWrite, TrTypes, TrBudgetType
  <2>3. TrHeld'
    BY <1>0, <1>2, <2>1 DEF TrWrite, TrHeld, TrOpen
  <2>4. TrOwn'
    BY <1>0, <1>2, <2>1 DEF TrWrite, TrOwn, TrOpen, TrOnly, TrConn
  <2> QED BY <2>2, <2>3, <2>4 DEF TrInv
<1>3. CASE trCall' = [trCall EXCEPT !.pc = "bad"] /\ UNCHANGED trConns
  <2>1. /\ trCall' \in TrCallStates /\ trCall'.pc = "bad" /\ trCall'.conn = trCall.conn
        /\ trCall'.outer = trCall.outer /\ trCall'.reused = trCall.reused
        /\ trCall'.second = trCall.second
    BY <1>0, <1>3 DEF TrCallStates
  <2>2. TrTypes' /\ TrBudgetType'
    BY <1>0, <1>3, <2>1 DEF TrWrite, TrTypes, TrBudgetType
  <2>3. TrHeld'
    BY <1>0, <1>3, <2>1 DEF TrWrite, TrHeld, TrOpen
  <2>4. TrOwn'
    BY <1>0, <1>3, <2>1 DEF TrWrite, TrOwn
  <2> QED BY <2>2, <2>3, <2>4 DEF TrInv
<1> QED
  BY <1>1, <1>2, <1>3 DEF TrWrite

\* The answer is read up to its terminator.
LEMMA TrReadKeeps ==
    ASSUME TrInv, TrRead PROVE TrInv'
<1> DEFINE n == trCall.conn
<1>0. /\ TrTypes /\ TrHeld /\ TrOwn /\ TrBudgetType /\ trCall.pc = "read" /\ trCall \in TrCallStates
      /\ n \in 1 .. Len(trConns) /\ trConns[n] \in TrConn /\ trConns \in Seq(TrConn)
      /\ trTerm \in TrTerms /\ trCached \in {0, n}
  <2>1. TrTypes /\ TrHeld /\ TrOwn /\ TrBudgetType /\ trCall.pc = "read"
    BY DEF TrInv, TrRead
  <2>2. n \in 1 .. Len(trConns) /\ trConns \in Seq(TrConn)
    BY <2>1 DEF TrTypes
  <2> QED BY <2>1, <2>2 DEF TrTypes, TrHeld
<1>1. ASSUME trConns[n].open,
             NEW r \in readResponse(trConns[n].in, trConns[n].peer),
             trConns' = [trConns EXCEPT ![n].in = r.rest],
             trCall' = [trCall EXCEPT !.pc = "good", !.got = r.got]
      PROVE  TrInv'
  <2> DEFINE q == [trConns[n] EXCEPT !.in = r.rest]
  <2>1. /\ r.got \in Seq(TrIds) /\ q \in TrConn /\ q.open = trConns[n].open
        /\ TrOnly(trConns[n], trCount) /\ trTerm # "time" =>
              TrMine(r.got, trCount) /\ (trTerm # "close" => TrClean(q))
    BY <1>0, <1>1, TrReads
  <2>2. /\ trCall' \in TrCallStates /\ trCall'.pc = "good" /\ trCall'.conn = trCall.conn
        /\ trCall'.outer = trCall.outer /\ trCall'.reused = trCall.reused
        /\ trCall'.second = trCall.second /\ trCall'.got = r.got
    BY <1>0, <1>1, <2>1 DEF TrCallStates
  <2>3. trConns' = [trConns EXCEPT ![n] = q]
    BY <1>0, <1>1
  <2> HIDE DEF q
  <2>4. /\ trConns' \in Seq(TrConn) /\ Len(trConns') = Len(trConns) /\ trConns'[n] = q
        /\ \A d \in 1 .. Len(trConns) : /\ d # n => trConns'[d] = trConns[d]
                                        /\ trConns'[d].open = trConns[d].open
    BY <1>0, <2>1, <2>3, TrPut
  <2>5. TrTypes' /\ TrBudgetType'
    BY <1>0, <1>1, <2>2, <2>4 DEF TrRead, TrTypes, TrBudgetType
  <2>6. TrHeld'
    BY <1>0, <1>1, <2>2, <2>4 DEF TrRead, TrHeld, TrOpen
  <2>7. TrOwn'
    <3>1. trCached' \in {0, trCall'.conn} /\ UNCHANGED <<trTerm, trBudget, trOut, trCount>>
      BY <1>0, <2>2 DEF TrRead
    <3>2. trTerm = "close" => trCached' = 0
      BY <1>0 DEF TrRead, TrHeld
    <3>3. trTerm # "time" /\ trBudget.secondFailed = FALSE => TrOnly(trConns[n], trCount)
      BY <1>0, <1>1 DEF TrOwn, TrOpen, TrConn
    <3>4. trTerm # "time" /\ trBudget.secondFailed = FALSE
             => TrMine(trCall'.got, trCount) /\ (trCached' # 0 => TrClean(trConns'[n]))
      BY <2>1, <2>2, <2>4, <3>2, <3>3
    <3> QED BY <1>0, <2>2, <3>1, <3>4 DEF TrOwn
  <2> QED BY <2>5, <2>6, <2>7 DEF TrInv
<1>2. CASE trCall' = [trCall EXCEPT !.pc = "bad"] /\ UNCHANGED trConns
  <2>1. /\ trCall' \in TrCallStates /\ trCall'.pc = "bad" /\ trCall'.conn = trCall.conn
        /\ trCall'.outer = trCall.outer /\ trCall'.reused = trCall.reused
        /\ trCall'.second = trCall.second
    BY <1>0, <1>2 DEF TrCallStates
  <2>2. TrTypes' /\ TrBudgetType'
    BY <1>0, <1>2, <2>1 DEF TrRead, TrTypes, TrBudgetType
  <2>3. TrHeld'
    BY <1>0, <1>2, <2>1 DEF TrRead, TrHeld, TrOpen
  <2>4. TrOwn'
    BY <1>0, <1>2, <2>1 DEF TrRead, TrOwn
  <2> QED BY <2>2, <2>3, <2>4 DEF TrInv
<1> QED
  BY <1>1, <1>2 DEF TrRead

(* A connection is released as faulty: it is closed and not cached. *)
LEMMA TrReleases ==
    ASSUME TrTypes, NEW c \in 0 .. Len(trConns), NEW faulty \in BOOLEAN, releaseConn(c, faulty)
    PROVE  /\ trConns' \in Seq(TrConn) /\ Len(trConns') = Len(trConns)
           /\ trCached' \in 0 .. Len(trConns)
           /\ \A d \in 1 .. Len(trConns) : trConns'[d].open = TRUE => trConns'[d] = trConns[d]
           /\ (trKeep = FALSE \/ faulty = TRUE)
                 => \A d \in 1 .. Len(trConns) : trConns'[d].open = TRUE => d # c
           /\ faulty = TRUE => trCached' = IF trCached = c THEN 0 ELSE trCached
           /\ faulty = FALSE => trCached' = trCached
<1>0. /\ trConns \in Seq(TrConn) /\ trCached \in 0 .. Len(trConns) /\ Len(trConns) \in Nat
      /\ trKeep \in BOOLEAN
  BY DEF TrTypes
<1>1. trCached' \in 0 .. Len(trConns)
  BY <1>0 DEF releaseConn
<1>2. CASE trKeep = FALSE \/ faulty = TRUE
  <2>1. trConns' = TrClose(trConns, c)
    BY <1>2 DEF releaseConn
  <2>2. /\ trConns' \in Seq(TrConn) /\ Len(trConns') = Len(trConns)
        /\ \A d \in 1 .. Len(trConns) : trConns'[d].open = TRUE
                                         => d # c /\ trConns'[d] = trConns[d]
    <3>1. /\ TrClose(trConns, c) \in Seq(TrConn) /\ Len(TrClose(trConns, c)) = Len(trConns)
          /\ \A d \in 1 .. Len(trConns) : TrClose(trConns, c)[d].open = TRUE
                                              => d # c /\ TrClose(trConns, c)[d] = trConns[d]
      BY <1>0, TrCloses
    <3> QED BY <2>1, <3>1, Zenon
  <2>3. /\ faulty = TRUE => trCached' = IF trCached = c THEN 0 ELSE trCached
        /\ faulty = FALSE => trCached' = trCached
    BY DEF releaseConn
  <2> QED BY <1>1, <2>2, <2>3
<1>3. CASE trKeep = TRUE /\ faulty = FALSE
  BY <1>0, <1>1, <1>3 DEF releaseConn
<1> QED
  BY <1>0, <1>2, <1>3

\* A kept connection that failed is dropped and the request made again.
LEMMA TrRetryKeeps ==
    ASSUME TrInv, TrRetry PROVE TrInv'
<1> DEFINE n == trCall.conn
<1>0. /\ TrTypes /\ TrHeld /\ TrOwn /\ TrBudgetType /\ trCall \in TrCallStates
      /\ n \in 0 .. Len(trConns) /\ trCached \in {0, n} /\ trCall.pc = "bad"
      /\ trKeep = TRUE
  BY DEF TrInv, TrRetry, TrTypes, TrHeld, TrCallStates
<1>1. /\ trConns' \in Seq(TrConn) /\ Len(trConns') = Len(trConns) /\ trCached' = 0
      /\ \A d \in 1 .. Len(trConns) : trConns'[d].open = TRUE => d # n /\ trConns'[d] = trConns[d]
  BY <1>0, TrReleases DEF TrRetry
<1>2. /\ trCall' \in TrCallStates /\ trCall'.pc = "acquire" /\ trCall'.conn = n
      /\ trCall'.outer = n /\ trCall'.second = TRUE
  BY <1>0 DEF TrRetry, TrCallStates
<1>3. TrTypes' /\ TrBudgetType'
  BY <1>0, <1>1, <1>2 DEF TrRetry, TrTypes, TrBudgetType
<1>4. TrHeld'
  BY <1>0, <1>1, <1>2 DEF TrRetry, TrHeld, TrOpen
<1>5. TrOwn'
  BY <1>0, <1>1, <1>2 DEF TrRetry, TrOwn
<1> QED
  BY <1>3, <1>4, <1>5 DEF TrInv

\* The request ends and its connection is kept or closed.
LEMMA TrReturnKeeps ==
    ASSUME TrInv, TrReturn PROVE TrInv'
<1> DEFINE n == IF trCall.second THEN trCall.outer ELSE trCall.conn
           failed == trCall.second /\ trCall.pc = "bad"
<1>0. /\ TrTypes /\ TrHeld /\ TrOwn /\ TrBudgetType /\ trCall \in TrCallStates
      /\ n \in 0 .. Len(trConns) /\ trCached \in {0, trCall.conn} /\ trCall.pc \in {"good", "bad"}
      /\ UNCHANGED <<trKeep, trTerm, trCount>> /\ trCall.got \in Seq(TrIds)
      /\ trKeep \in BOOLEAN /\ trCall.second \in BOOLEAN
      /\ trCall.second = TRUE => trKeep = TRUE
  BY DEF TrInv, TrReturn, TrTypes, TrHeld, TrCallStates
<1>1. TrBudgetType' /\ (trBudget'.secondFailed = FALSE => trBudget.secondFailed = FALSE /\ ~failed)
  BY <1>0 DEF TrReturn, TrBudgetType
<1>2. CASE trCall.pc = "good" /\ releaseConn(n, FALSE) /\ TrEnd("ok", trCall.got)
  <2>1. /\ trCall' \in TrCallStates /\ trCall'.pc = "idle" /\ trCall'.conn = 0
        /\ trCall'.outer = 0 /\ trCall'.reused = FALSE /\ trCall'.second = FALSE
        /\ trOut' \in [TrIds -> [end : {"none", "ok", "error"}, from : Seq(TrIds)]]
        /\ trCount \in TrIds /\ trOut'[trCount].from = trCall.got
        /\ \A i \in TrIds : i # trCount => trOut'[i] = trOut[i]
    BY <1>0, <1>2, TrEnds
  <2>2. /\ trConns' \in Seq(TrConn) /\ Len(trConns') = Len(trConns) /\ trCached' = trCached
        /\ \A d \in 1 .. Len(trConns) : trConns'[d].open = TRUE => trConns'[d] = trConns[d]
        /\ trKeep = FALSE => \A d \in 1 .. Len(trConns) : trConns'[d].open = TRUE => d # n
    BY <1>0, <1>2, TrReleases
  <2>3. TrTypes'
    BY <1>0, <2>1, <2>2 DEF TrTypes
  <2>4. TrHeld'
    BY <1>0, <1>2, <2>1, <2>2 DEF TrHeld, TrOpen
  <2>5. TrOwn'
    <3>1. ASSUME trTerm # "time", trBudget.secondFailed = FALSE, NEW i \in TrIds
          PROVE  TrMine(trOut'[i].from, i)
      <4>1. TrMine(trOut[i].from, i) /\ TrMine(trCall.got, trCount)
        BY <1>0, <1>2, <3>1 DEF TrOwn
      <4> QED BY <2>1, <4>1, Zenon
    <3>2. ASSUME trTerm # "time", trBudget.secondFailed = FALSE, trCached' # 0, TrOpen(trCached)'
          PROVE  TrClean(trConns'[trCached'])
      <4>1. trCached \in 1 .. Len(trConns)
        BY <1>0, <2>2, <3>2 DEF TrTypes
      <4> QED BY <1>0, <1>2, <2>2, <3>2, <4>1 DEF TrOwn, TrOpen
    <3> QED BY <1>0, <1>1, <2>1, <3>1, <3>2 DEF TrOwn
  <2> QED BY <1>1, <2>3, <2>4, <2>5 DEF TrInv
<1>3. CASE trCall.pc = "bad" /\ releaseConn(n, TRUE) /\ TrEnd("error", <<>>)
  <2>1. /\ trCall' \in TrCallStates /\ trCall'.pc = "idle" /\ trCall'.conn = 0
        /\ trCall'.outer = 0 /\ trCall'.reused = FALSE /\ trCall'.second = FALSE
        /\ trOut' \in [TrIds -> [end : {"none", "ok", "error"}, from : Seq(TrIds)]]
        /\ trCount \in TrIds /\ trOut'[trCount].from = <<>>
        /\ \A i \in TrIds : i # trCount => trOut'[i] = trOut[i]
    <3>1. <<>> \in Seq(TrIds)
      OBVIOUS
    <3> QED BY <1>0, <1>3, <3>1, TrEnds
  <2>2. /\ trConns' \in Seq(TrConn) /\ Len(trConns') = Len(trConns)
        /\ trCached' \in 0 .. Len(trConns)
        /\ trCached' = IF trCached = n THEN 0 ELSE trCached
        /\ \A d \in 1 .. Len(trConns) : trConns'[d].open = TRUE => d # n /\ trConns'[d] = trConns[d]
    BY <1>0, <1>3, TrReleases
  <2>3. TrTypes'
    BY <1>0, <2>1, <2>2 DEF TrTypes
  <2>4. TrHeld'
    BY <1>0, <1>3, <2>1, <2>2 DEF TrHeld, TrOpen
  <2>5. TrOwn'
    <3>1. ASSUME trTerm # "time", trBudget.secondFailed = FALSE, NEW i \in TrIds
          PROVE  TrMine(trOut'[i].from, i)
      <4>1. TrMine(trOut[i].from, i)
        BY <1>0, <3>1 DEF TrOwn
      <4> QED BY <2>1, <4>1, TrNoneIsMine, Zenon
    <3>2. ~failed => trCached' = 0
      BY <1>0, <1>3, <2>2
    <3> QED BY <1>0, <1>1, <2>1, <3>1, <3>2 DEF TrOwn
  <2> QED BY <1>1, <2>3, <2>4, <2>5 DEF TrInv
<1> QED
  BY <1>2, <1>3 DEF TrReturn

\* The peer answers one of the requests it owes.
LEMMA TrAnswerKeeps ==
    ASSUME TrInv, NEW c \in 1 .. Len(trConns), TrAnswer(c) PROVE TrInv'
<1> DEFINE q == [trConns[c] EXCEPT !.in = Append(@, Head(trConns[c].owed)), !.owed = Tail(@)]
<1>0. /\ TrTypes /\ TrHeld /\ TrOwn /\ TrBudgetType /\ trConns \in Seq(TrConn)
      /\ trConns[c] \in TrConn /\ trConns[c].owed # <<>> /\ TrOpen(c)
  <2>1. TrTypes /\ TrHeld /\ TrOwn /\ TrBudgetType /\ trConns \in Seq(TrConn)
    BY DEF TrInv, TrTypes
  <2>2. trConns[c] \in TrConn
    BY <2>1
  <2> QED BY <2>1, <2>2 DEF TrAnswer, TrOpen, TrConn
<1>1. /\ q \in TrConn /\ q.open = trConns[c].open /\ ~TrClean(trConns[c])
      /\ \A i : TrOnly(trConns[c], i) => TrOnly(q, i)
  BY <1>0, TrConnAnswers
<1>2. trConns' = [trConns EXCEPT ![c] = q]
  BY <1>0 DEF TrAnswer
<1> HIDE DEF q
<1>3. /\ trConns' \in Seq(TrConn) /\ Len(trConns') = Len(trConns) /\ trConns'[c] = q
      /\ \A d \in 1 .. Len(trConns) : /\ d # c => trConns'[d] = trConns[d]
                                      /\ trConns'[d].open = trConns[d].open
  BY <1>0, <1>1, <1>2, TrPut
<1>4. TrTypes' /\ TrBudgetType'
  BY <1>0, <1>3 DEF TrAnswer, TrTypes, TrBudgetType
<1>5. TrHeld'
  BY <1>0, <1>3 DEF TrAnswer, TrHeld, TrOpen, TrTypes
<1>6. TrOwn'
  BY <1>0, <1>1, <1>3 DEF TrAnswer, TrOwn, TrOpen, TrTypes
<1> QED
  BY <1>4, <1>5, <1>6 DEF TrInv

\* The peer closes a connection.
LEMMA TrPeerClosesKeeps ==
    ASSUME TrInv, NEW c \in 1 .. Len(trConns), TrPeerCloses(c) PROVE TrInv'
<1> DEFINE q == [trConns[c] EXCEPT !.peer = FALSE]
<1>0. /\ TrTypes /\ TrHeld /\ TrOwn /\ TrBudgetType /\ trConns \in Seq(TrConn)
      /\ trConns[c] \in TrConn
  BY DEF TrInv, TrTypes
<1>1. q \in TrConn /\ q.open = trConns[c].open /\ q.in = trConns[c].in /\ q.owed = trConns[c].owed
  BY <1>0 DEF TrConn
<1>2. trConns' = [trConns EXCEPT ![c] = q]
  BY <1>0 DEF TrPeerCloses
<1> HIDE DEF q
<1>3. /\ trConns' \in Seq(TrConn) /\ Len(trConns') = Len(trConns) /\ trConns'[c] = q
      /\ \A d \in 1 .. Len(trConns) : /\ d # c => trConns'[d] = trConns[d]
                                      /\ trConns'[d].open = trConns[d].open
  BY <1>0, <1>1, <1>2, TrPut
<1>4. \A d \in 1 .. Len(trConns) : /\ trConns'[d].open = trConns[d].open
                                   /\ trConns'[d].in = trConns[d].in
                                   /\ trConns'[d].owed = trConns[d].owed
  BY <1>1, <1>3
<1>5. TrBudgetType' /\ trBudget'.secondFailed = trBudget.secondFailed
  BY <1>0, TrAssumption DEF TrPeerCloses, TrBudgetType
<1>6. TrTypes'
  BY <1>0, <1>3 DEF TrPeerCloses, TrTypes
<1>7. TrHeld'
  BY <1>0, <1>3 DEF TrPeerCloses, TrHeld, TrOpen, TrTypes
<1>8. TrOwn'
  BY <1>0, <1>4, <1>5 DEF TrPeerCloses, TrOwn, TrOpen, TrTypes, TrClean, TrOnly
<1> QED
  BY <1>5, <1>6, <1>7, <1>8 DEF TrInv

\* Stop closes the pool.
LEMMA TrStopKeeps ==
    ASSUME TrInv, TrStop PROVE TrInv'
<1>0. TrTypes /\ TrHeld /\ TrOwn /\ TrBudgetType
  BY DEF TrInv
<1>1. /\ trConns' \in Seq(TrConn) /\ Len(trConns') = Len(trConns)
      /\ \A d \in 1 .. Len(trConns) : trConns'[d].open = TRUE
                                         => d # trCached /\ trConns'[d] = trConns[d]
  <2>1. trConns \in Seq(TrConn) /\ trCached \in 0 .. Len(trConns)
    BY <1>0 DEF TrTypes
  <2>2. trConns' = TrClose(trConns, trCached)
    BY DEF TrStop
  <2> DEFINE t == TrClose(trConns, trCached)
  <2>3. /\ t \in Seq(TrConn) /\ Len(t) = Len(trConns)
        /\ \A d \in 1 .. Len(trConns) : t[d].open = TRUE => d # trCached /\ t[d] = trConns[d]
    BY <2>1, TrCloses
  <2> HIDE DEF t
  <2>4. trConns' = t
    BY <2>2 DEF t
  <2> QED BY <2>3, <2>4
<1>2. TrTypes' /\ TrBudgetType'
  BY <1>0, <1>1 DEF TrStop, TrTypes, TrBudgetType
<1>3. TrHeld'
  BY <1>0, <1>1 DEF TrStop, TrHeld, TrOpen, TrTypes
<1>4. TrOwn'
  BY <1>0, <1>1 DEF TrStop, TrOwn, TrOpen, TrTypes
<1> QED
  BY <1>2, <1>3, <1>4 DEF TrInv

\* Every step keeps the invariant of the requests.
LEMMA TrNextInv == TrInv /\ [TrNext]_trVars => TrInv'
<1> SUFFICES ASSUME TrInv, [TrNext]_trVars PROVE TrInv'
  OBVIOUS
<1>1. CASE UNCHANGED trVars
  BY <1>1 DEF trVars, TrInv, TrTypes, TrHeld, TrOwn, TrBudgetType, TrOpen
<1> QED
  BY <1>1, TrHandleKeeps, TrRejectKeeps, TrAcquireKeeps, TrDialKeeps, TrStoreKeeps,
     TrWriteKeeps, TrReadKeeps, TrRetryKeeps, TrReturnKeeps, TrAnswerKeeps,
     TrPeerClosesKeeps, TrStopKeeps DEF TrNext, TrProgress

(* Between calls tcp-request holds no socket but the cached one, and a call  *)
(* returns the answer to its own request unless a second attempt failed      *)
(* before: for any number of calls, addresses and faults, and every          *)
(* terminator.                                                               *)
THEOREM RequestsSound == TrSpec => []TrSound
<1>1. TrSpec => []TrInv
  BY TrInitInv, TrNextInv, PTL DEF TrSpec
<1>2. TrInv => TrSound
  <2> SUFFICES ASSUME TrInv PROVE TrSocketsHeld /\ TrOwnAnswer
    BY DEF TrSound
  <2>1. TrSocketsHeld
    <3>1. \A c \in 1 .. Len(trConns) : trConns[c].open \in BOOLEAN
      <4>1. \A c \in 1 .. Len(trConns) : trConns[c] \in TrConn
        BY DEF TrInv, TrTypes
      <4> QED BY <4>1 DEF TrConn
    <3> QED BY <3>1 DEF TrSocketsHeld, TrInv, TrHeld, TrOpen
  <2>2. TrOwnAnswer
    BY DEF TrOwnAnswer, TrForeign, TrInv, TrOwn, TrMine, TrBudgetType
  <2> QED BY <2>1, <2>2
<1> QED
  BY <1>1, <1>2, PTL

-----------------------------------------------------------------------------
(***************************************************************************)
(* tcp-out as a client.                                                    *)
(***************************************************************************)

-----------------------------------------------------------------------------
(* The messages in a sequence, and sequences in the order of arrival. *)

ToIds(s) == {s[i].id : i \in 1 .. Len(s)}
ToRising(s) == \A i, j \in 1 .. Len(s) : i < j => s[i].id < s[j].id

\* The first message is taken from a queue.
LEMMA ToTakeFirst ==
    ASSUME NEW S, NEW s \in Seq(S), s # <<>>, ToRising(s),
           \A x \in S : x.id \in Nat
    PROVE  /\ Head(s) \in S /\ Tail(s) \in Seq(S) /\ ToRising(Tail(s))
           /\ ToIds(s) = {Head(s).id} \cup ToIds(Tail(s))
           /\ \A n \in ToIds(Tail(s)) : Head(s).id < n
           /\ Len(Tail(s)) = Len(s) - 1
<1> DEFINE t == Tail(s)
<1>1. /\ Head(s) = s[1] /\ Head(s) \in S /\ t \in Seq(S)
      /\ Len(s) \in Nat /\ Len(s) >= 1
      /\ Len(t) = Len(s) - 1 /\ \A i \in 1 .. Len(t) : t[i] = s[i + 1]
  OBVIOUS
<1> HIDE DEF t
<1>2. Len(t) \in Nat
  BY <1>1
<1>3. ToRising(t)
  <2> SUFFICES ASSUME NEW i \in 1 .. Len(t), NEW j \in 1 .. Len(t), i < j
               PROVE  t[i].id < t[j].id
    BY DEF ToRising
  <2>1. i + 1 \in 1 .. Len(s) /\ j + 1 \in 1 .. Len(s) /\ i + 1 < j + 1
    BY <1>1, <1>2
  <2> QED BY <1>1, <2>1 DEF ToRising
<1>4. ToIds(s) = {s[1].id} \cup ToIds(t)
  <2>1. ASSUME NEW i \in 1 .. Len(s) PROVE s[i].id \in {s[1].id} \cup ToIds(t)
    <3>1. CASE i = 1
      BY <3>1
    <3>2. CASE i # 1
      <4>1. i - 1 \in 1 .. Len(t) /\ (i - 1) + 1 = i
        BY <1>1, <1>2, <3>2
      <4>2. t[i - 1] = s[i]
        BY <1>1, <4>1
      <4> QED BY <4>1, <4>2 DEF ToIds
    <3> QED BY <3>1, <3>2
  <2>2. ASSUME NEW i \in 1 .. Len(t) PROVE t[i].id \in ToIds(s)
    <3>1. i + 1 \in 1 .. Len(s) /\ t[i] = s[i + 1]
      BY <1>1, <1>2
    <3> QED BY <3>1 DEF ToIds
  <2>3. s[1].id \in ToIds(s)
    <3>1. 1 \in 1 .. Len(s)
      BY <1>1
    <3> QED BY <3>1 DEF ToIds
  <2> QED BY <2>1, <2>2, <2>3 DEF ToIds
<1>5. \A n \in ToIds(t) : s[1].id < n
  <2> SUFFICES ASSUME NEW i \in 1 .. Len(t) PROVE s[1].id < t[i].id
    BY DEF ToIds
  <2>1. i + 1 \in 1 .. Len(s) /\ 1 \in 1 .. Len(s) /\ 1 < i + 1 /\ t[i] = s[i + 1]
    BY <1>1, <1>2
  <2> QED BY <2>1 DEF ToRising
<1> QED
  BY <1>1, <1>3, <1>4, <1>5 DEF t

\* A message joins the end of a queue.
LEMMA ToAddLast ==
    ASSUME NEW S, NEW s \in Seq(S), ToRising(s), NEW x \in S, \A n \in ToIds(s) : n < x.id
    PROVE  /\ Append(s, x) \in Seq(S) /\ ToRising(Append(s, x))
           /\ ToIds(Append(s, x)) = ToIds(s) \cup {x.id}
           /\ Len(Append(s, x)) = Len(s) + 1
<1> DEFINE t == Append(s, x)
<1>1. /\ t \in Seq(S) /\ Len(s) \in Nat /\ Len(t) = Len(s) + 1
      /\ t[Len(s) + 1] = x /\ \A i \in 1 .. Len(s) : t[i] = s[i]
  OBVIOUS
<1> HIDE DEF t
<1>2. \A i \in 1 .. Len(t) : i \in 1 .. Len(s) \/ i = Len(s) + 1
  BY <1>1
<1>3. ToIds(t) = ToIds(s) \cup {x.id}
  <2>1. ASSUME NEW i \in 1 .. Len(s) PROVE s[i].id \in ToIds(t)
    <3>1. i \in 1 .. Len(t) /\ t[i] = s[i]
      BY <1>1
    <3> QED BY <3>1 DEF ToIds
  <2>2. x.id \in ToIds(t)
    <3>1. Len(s) + 1 \in 1 .. Len(t)
      BY <1>1
    <3> QED BY <1>1, <3>1 DEF ToIds
  <2>3. ASSUME NEW i \in 1 .. Len(t) PROVE t[i].id \in ToIds(s) \cup {x.id}
    BY <1>1, <1>2 DEF ToIds
  <2> QED BY <2>1, <2>2, <2>3 DEF ToIds
<1>4. ToRising(t)
  <2> SUFFICES ASSUME NEW i \in 1 .. Len(t), NEW j \in 1 .. Len(t), i < j
               PROVE  t[i].id < t[j].id
    BY DEF ToRising
  <2>1. i \in 1 .. Len(s)
    BY <1>1, <1>2
  <2>2. CASE j \in 1 .. Len(s)
    BY <1>1, <2>1, <2>2 DEF ToRising
  <2>3. CASE j = Len(s) + 1
    BY <1>1, <2>1, <2>3 DEF ToIds
  <2> QED BY <1>2, <2>2, <2>3
<1> QED
  BY <1>1, <1>3, <1>4 DEF t

\* The empty queue.
LEMMA ToEmpty == ToIds(<<>>) = {} /\ ToRising(<<>>)
BY DEF ToIds, ToRising

-----------------------------------------------------------------------------
(* Where the messages are: written, queued, in the worker's hands, reported. *)
ToBook(W, Q, H, R, h) ==
    /\ W \cup Q \cup H \cup R = 1 .. h
    /\ W \cap (Q \cup H \cup R) = {} /\ Q \cap (H \cup R) = {} /\ H \cap R = {}
    /\ \A w \in W, x \in Q \cup H : w < x
    /\ \A x \in H, y \in Q : x < y

\* A message moves from one place of the account to another.
LEMMA ToBookMoves ==
    ASSUME NEW W, NEW Q, NEW H, NEW R, NEW h \in Nat, ToBook(W, Q, H, R, h)
    PROVE  /\ ToBook(W, Q \cup {h + 1}, H, R, h + 1)
           /\ \A n \in Q : n < h + 1
           /\ ToBook(W, Q, H, R \cup {h + 1}, h + 1)
           /\ ToBook(W, Q, {}, R \cup H, h)
           /\ ToBook(W \cup H, Q, {}, R, h)
           /\ \A x \in H, w \in W : w < x
<1>1. 1 .. h + 1 = (1 .. h) \cup {h + 1} /\ \A x \in 1 .. h : x < h + 1 /\ x # h + 1
  OBVIOUS
<1>2. \A x \in W \cup Q \cup H \cup R : x < h + 1 /\ x # h + 1
  BY <1>1 DEF ToBook
<1>3. ToBook(W, Q \cup {h + 1}, H, R, h + 1)
  BY <1>1, <1>2 DEF ToBook
<1>4. ToBook(W, Q, H, R \cup {h + 1}, h + 1)
  BY <1>1, <1>2 DEF ToBook
<1>5. ToBook(W, Q, {}, R \cup H, h) /\ ToBook(W \cup H, Q, {}, R, h)
  BY DEF ToBook
<1> QED
  BY <1>2, <1>3, <1>4, <1>5 DEF ToBook

\* The worker takes the first message of its queue.
LEMMA ToBookTake ==
    ASSUME NEW W, NEW Q, NEW R, NEW h \in Nat, NEW x \in Nat, NEW T,
           ToBook(W, Q, {}, R, h), Q = {x} \cup T, \A n \in T : x < n
    PROVE  ToBook(W, T, {x}, R, h)
<1>1. x \notin T
  OBVIOUS
<1> QED
  BY <1>1 DEF ToBook

ToConnRec == [addr : ToAddrs, open : BOOLEAN]
ToSentRec == [id : 1 .. ToMsgs, conn : Nat]
ToHands == IF toWorker.msg = ToNoMsg THEN {} ELSE {toWorker.msg.id}

ToWorkerOK ==
    /\ toWorker \in [at : {"top", "dial", "store", "drain", "write", "sleep", "gone"},
                     conn : Nat, msg : ToMsg \cup {ToNoMsg}]
    /\ toWorker.at \in {"top", "drain", "sleep", "gone"} => toWorker.msg = ToNoMsg
    /\ toWorker.at = "write" => toWorker.msg \in ToMsg
    /\ toWorker.at = "dial" /\ toWorker.msg = ToNoMsg => toConfig # ToNone

(* The only socket open is the stored one or the one about to be stored. *)
ToSockets ==
    /\ toConns \in Seq(ToConnRec) /\ toConn \in 0 .. Len(toConns)
    /\ toWorker.conn \in 0 .. Len(toConns)
    /\ toWorker.at \in {"store", "drain", "write"} <=> toWorker.conn # 0
    /\ toWorker.at \in {"drain", "write"} => toConn = toWorker.conn
    /\ \A c \in 1 .. Len(toConns) : toConns[c].open = TRUE => c \in {toConn, toWorker.conn}

ToMessages ==
    /\ toQueue \in Seq(ToMsg) /\ toSent \in Seq(ToSentRec)
    /\ toHandled \in 0 .. ToMsgs
    /\ ToRising(toQueue) /\ ToRising(toSent)
    /\ ToBook(ToIds(toSent), ToIds(toQueue), ToHands, toReported, toHandled)

ToInv == toConfig \in ToConfigs /\ ToWorkerOK /\ ToSockets /\ ToMessages

\* The empty hand is no message.
LEMMA ToNoMsgIsNone == ToNoMsg \notin ToMsg /\ \A m \in ToMsg : m # ToNoMsg /\ m.id \in Nat
BY ToAssumption DEF ToNoMsg, ToMsg

\* The node starts with nothing queued and no connection.
LEMMA ToInitInv == ToInit => ToInv
<1> SUFFICES ASSUME ToInit PROVE ToInv
  OBVIOUS
<1>1. /\ toWorker \in [at : {"top", "dial", "store", "drain", "write", "sleep", "gone"},
                       conn : Nat, msg : ToMsg \cup {ToNoMsg}]
      /\ toWorker.at = "top" /\ toWorker.msg = ToNoMsg /\ toWorker.conn = 0
  BY DEF ToInit, ToAt
<1>2. ToWorkerOK
  BY <1>1 DEF ToWorkerOK
<1>3. toConns \in Seq(ToConnRec) /\ Len(toConns) = 0 /\ toQueue \in Seq(ToMsg) /\ toSent \in Seq(ToSentRec)
  BY DEF ToInit
<1>4. ToSockets
  BY <1>1, <1>3 DEF ToInit, ToSockets
<1>5. ToBook({}, {}, {}, {}, 0)
  BY DEF ToBook
<1>6. /\ ToIds(toSent) = {} /\ ToIds(toQueue) = {} /\ ToRising(toQueue) /\ ToRising(toSent)
      /\ ToHands = {} /\ toReported = {} /\ toHandled = 0
  BY <1>1, ToEmpty, Zenon DEF ToInit, ToHands
<1>7. ToMessages
  BY <1>3, <1>5, <1>6, ToAssumption DEF ToMessages
<1> QED
  BY <1>2, <1>4, <1>7 DEF ToInit, ToInv

\* A message is queued, or rejected because the queue is full.
LEMMA ToHandleKeeps ==
    ASSUME ToInv, NEW addr \in ToAddrs, NEW close \in BOOLEAN, handleClient(addr, close)
    PROVE  ToInv'
<1>1. ToMessages /\ ToWorkerOK /\ ToSockets
  BY DEF ToInv
<1>2. ToWorkerOK' /\ ToSockets'
  BY <1>1 DEF handleClient, ToWorkerOK, ToSockets
<1>3. toHandled \in Nat /\ toHandled' = toHandled + 1 /\ toHandled' \in 0 .. ToMsgs
  BY <1>1, ToAssumption DEF handleClient, ToMessages
<1>4. ToHands' = ToHands /\ toSent' = toSent
  BY DEF handleClient, ToHands
<1> DEFINE m == [id |-> toHandled + 1, addr |-> addr, close |-> close]
<1>5. m \in ToMsg /\ m.id = toHandled + 1
  BY <1>3, ToAssumption DEF ToMsg, handleClient
<1> HIDE DEF m
<1>6. /\ ToBook(ToIds(toSent), ToIds(toQueue) \cup {toHandled + 1}, ToHands, toReported, toHandled + 1)
      /\ ToBook(ToIds(toSent), ToIds(toQueue), ToHands, toReported \cup {toHandled + 1}, toHandled + 1)
      /\ \A n \in ToIds(toQueue) : n < toHandled + 1
  BY <1>1, <1>3, ToBookMoves DEF ToMessages
<1>7. CASE toQueue' = Append(toQueue, m) /\ toReported' = toReported
  <2>1. /\ toQueue' \in Seq(ToMsg) /\ ToRising(toQueue')
        /\ ToIds(toQueue') = ToIds(toQueue) \cup {toHandled + 1}
    BY <1>1, <1>5, <1>6, <1>7, ToAddLast DEF ToMessages
  <2>2. ToMessages'
    BY <1>1, <1>3, <1>4, <1>6, <1>7, <2>1 DEF ToMessages
  <2> QED BY <1>2, <2>2 DEF ToInv, handleClient
<1>8. CASE toQueue' = toQueue /\ toReported' = toReported \cup {toHandled + 1}
  <2>1. ToMessages'
    BY <1>1, <1>3, <1>4, <1>6, <1>8 DEF ToMessages
  <2> QED BY <1>2, <2>1 DEF ToInv, handleClient
<1> QED
  BY <1>7, <1>8 DEF handleClient, m

(* The worker goes on without a message and leaves the books alone. *)
LEMMA ToIdleKeeps ==
    ASSUME ToMessages, toWorker.msg = ToNoMsg, toWorker'.msg = ToNoMsg,
           UNCHANGED <<toQueue, toSent, toHandled, toReported>>
    PROVE  ToMessages'
BY DEF ToMessages, ToHands

(* The worker takes the first message of the queue. *)
LEMMA ToTakeKeeps ==
    ASSUME ToMessages, toWorker.msg = ToNoMsg, toQueue # <<>>, toWorker'.msg = Head(toQueue),
           toQueue' = Tail(toQueue), UNCHANGED <<toSent, toHandled, toReported>>
    PROVE  ToMessages' /\ Head(toQueue) \in ToMsg
<1>1. /\ Head(toQueue) \in ToMsg /\ toQueue' \in Seq(ToMsg) /\ ToRising(toQueue')
      /\ ToIds(toQueue) = {Head(toQueue).id} \cup ToIds(toQueue')
      /\ \A n \in ToIds(toQueue') : Head(toQueue).id < n
  BY ToTakeFirst, ToNoMsgIsNone DEF ToMessages
<1>2. ToHands = {} /\ ToHands' = {Head(toQueue).id} /\ Head(toQueue).id \in Nat /\ toHandled \in Nat
  BY <1>1, ToNoMsgIsNone, ToAssumption DEF ToHands, ToMessages
<1>3. ToBook(ToIds(toSent), ToIds(toQueue'), {Head(toQueue).id}, toReported, toHandled)
  BY <1>1, <1>2, ToBookTake DEF ToMessages
<1> QED
  BY <1>1, <1>2, <1>3 DEF ToMessages

(* The worker gives its message, if it has one, up with an error. *)
LEMMA ToReportKeeps ==
    ASSUME ToMessages, toWorker'.msg = ToNoMsg, toReported' = toReported \cup ToHands,
           UNCHANGED <<toQueue, toSent, toHandled>>
    PROVE  ToMessages'
<1>1. toHandled \in Nat /\ ToHands' = {}
  BY ToAssumption DEF ToMessages, ToHands
<1>2. ToBook(ToIds(toSent), ToIds(toQueue), {}, toReported \cup ToHands, toHandled)
  BY <1>1, ToBookMoves DEF ToMessages
<1> QED
  BY <1>1, <1>2 DEF ToMessages

(* The worker has written its message. *)
LEMMA ToSendKeeps ==
    ASSUME ToMessages, toWorker.msg \in ToMsg, toWorker'.msg = ToNoMsg, NEW c \in Nat,
           toSent' = Append(toSent, [id |-> toWorker.msg.id, conn |-> c]),
           UNCHANGED <<toQueue, toHandled, toReported>>
    PROVE  ToMessages'
<1> DEFINE x == [id |-> toWorker.msg.id, conn |-> c]
<1>1. toHandled \in Nat /\ ToHands' = {} /\ ToHands = {toWorker.msg.id}
  BY ToAssumption, ToNoMsgIsNone DEF ToMessages, ToHands
<1>2. x \in ToSentRec /\ x.id = toWorker.msg.id
  BY DEF ToSentRec, ToMsg
<1> HIDE DEF x
<1>3. /\ ToBook(ToIds(toSent) \cup ToHands, ToIds(toQueue), {}, toReported, toHandled)
      /\ \A n \in ToIds(toSent) : n < x.id
  BY <1>1, <1>2, ToBookMoves DEF ToMessages
<1>4. toSent' = Append(toSent, x)
  BY DEF x
<1>5. toSent' \in Seq(ToSentRec) /\ ToRising(toSent') /\ ToIds(toSent') = ToIds(toSent) \cup {x.id}
  BY <1>2, <1>3, <1>4, ToAddLast DEF ToMessages
<1> QED
  BY <1>1, <1>2, <1>3, <1>5 DEF ToMessages

-----------------------------------------------------------------------------
(* The sockets: closing the stored one, and what the worker does with it. *)

ToOpen(s) == {c \in 1 .. Len(s) : s[c].open = TRUE}
ToClosed(s, c) == IF c = 0 THEN s ELSE [s EXCEPT ![c].open = FALSE]

\* A closed connection is a connection.
LEMMA ToShutRecord ==
    ASSUME NEW x \in ToConnRec
    PROVE  [x EXCEPT !.open = FALSE] \in ToConnRec /\ [x EXCEPT !.open = FALSE].open = FALSE
BY DEF ToConnRec

\* The open connections after one is closed.
LEMMA ToCloses ==
    ASSUME NEW s \in Seq(ToConnRec), NEW c \in 0 .. Len(s)
    PROVE  /\ ToClosed(s, c) \in Seq(ToConnRec) /\ Len(ToClosed(s, c)) = Len(s)
           /\ ToOpen(ToClosed(s, c)) = ToOpen(s) \ {c}
<1>1. CASE c = 0
  BY <1>1 DEF ToClosed, ToOpen
<1>2. CASE c # 0
  <2> DEFINE q == [s[c] EXCEPT !.open = FALSE]
             t == [s EXCEPT ![c] = q]
  <2>1. Len(s) \in Nat /\ c \in 1 .. Len(s) /\ c \in DOMAIN s /\ s[c] \in ToConnRec
    BY <1>2
  <2>2. q \in ToConnRec /\ q.open = FALSE
    BY <2>1, ToShutRecord
  <2>3. ToClosed(s, c) = t
    BY <1>2, <2>2 DEF ToClosed
  <2> HIDE DEF q
  <2>4. t \in Seq(ToConnRec) /\ Len(t) = Len(s) /\ t[c] = q /\ \A d \in 1 .. Len(s) : d # c => t[d] = s[d]
    BY <2>1, <2>2
  <2> HIDE DEF t
  <2> QED BY <2>2, <2>3, <2>4 DEF ToOpen
<1> QED
  BY <1>1, <1>2

\* The open connections after one is made.
LEMMA ToDials ==
    ASSUME NEW s \in Seq(ToConnRec), NEW a \in ToAddrs
    PROVE  /\ Append(s, [addr |-> a, open |-> TRUE]) \in Seq(ToConnRec)
           /\ Len(Append(s, [addr |-> a, open |-> TRUE])) = Len(s) + 1
           /\ ToOpen(Append(s, [addr |-> a, open |-> TRUE])) \subseteq ToOpen(s) \cup {Len(s) + 1}
<1> DEFINE q == [addr |-> a, open |-> TRUE]
<1>1. q \in ToConnRec
  BY DEF ToConnRec
<1> HIDE DEF q
<1>2. /\ Append(s, q) \in Seq(ToConnRec) /\ Len(s) \in Nat /\ Len(Append(s, q)) = Len(s) + 1
      /\ \A d \in 1 .. Len(s) : Append(s, q)[d] = s[d]
  BY <1>1
<1>3. ToOpen(Append(s, q)) \subseteq ToOpen(s) \cup {Len(s) + 1}
  BY <1>2 DEF ToOpen
<1> QED
  BY <1>2, <1>3 DEF q

ToSocketsAre(conns, conn, wc) ==
    /\ conns \in Seq(ToConnRec) /\ conn \in 0 .. Len(conns) /\ wc \in 0 .. Len(conns)
    /\ ToOpen(conns) \subseteq {conn, wc}

\* The account of the sockets, as one formula.
LEMMA ToSocketsMean ==
    ToSockets <=> /\ ToSocketsAre(toConns, toConn, toWorker.conn)
                  /\ toWorker.at \in {"store", "drain", "write"} <=> toWorker.conn # 0
                  /\ toWorker.at \in {"drain", "write"} => toConn = toWorker.conn
BY DEF ToSockets, ToSocketsAre, ToOpen

\* The same in the next state.
LEMMA ToSocketsMeanNext ==
    ToSockets' <=> /\ ToSocketsAre(toConns', toConn', toWorker'.conn)
                   /\ toWorker'.at \in {"store", "drain", "write"} <=> toWorker'.conn # 0
                   /\ toWorker'.at \in {"drain", "write"} => toConn' = toWorker'.conn
BY DEF ToSockets, ToSocketsAre, ToOpen

\* The places the worker may be in.
LEMMA ToAtIs ==
    ASSUME NEW at \in {"top", "dial", "store", "drain", "write", "sleep", "gone"},
           NEW c \in Nat, NEW m \in ToMsg \cup {ToNoMsg}
    PROVE  /\ ToAt(at, c, m).at = at /\ ToAt(at, c, m).conn = c /\ ToAt(at, c, m).msg = m
           /\ ToAt(at, c, m) \in
                [at : {"top", "dial", "store", "drain", "write", "sleep", "gone"},
                 conn : Nat, msg : ToMsg \cup {ToNoMsg}]
BY DEF ToAt

\* The head of the worker's loop.
LEMMA ToTopKeeps == ToInv /\ ToTop => ToInv'
<1> SUFFICES ASSUME ToInv, ToTop PROVE ToInv'
  OBVIOUS
<1>1. /\ ToWorkerOK /\ ToSockets /\ ToMessages /\ toConfig' \in ToConfigs
      /\ toWorker.at = "top" /\ toWorker.msg = ToNoMsg /\ toWorker.conn = 0
      /\ UNCHANGED <<toConfig, toConns, toConn, toSent, toHandled, toReported>>
  BY DEF ToInv, ToWorkerOK, ToSockets, ToTop
<1>2. CASE toWorker' = ToAt("gone", 0, ToNoMsg) /\ toQueue' = toQueue
  <2>1. toWorker'.at = "gone" /\ toWorker'.conn = 0 /\ toWorker'.msg = ToNoMsg /\ ToWorkerOK'
    BY <1>2, ToAtIs DEF ToWorkerOK
  <2>2. ToSockets'
    BY <1>1, <2>1, ToSocketsMean, ToSocketsMeanNext
  <2>3. ToMessages'
    BY <1>1, <1>2, <2>1, ToIdleKeeps
  <2> QED BY <1>1, <2>1, <2>2, <2>3 DEF ToInv
<1>3. CASE toConfig # ToNone /\ toWorker' = ToAt("dial", 0, ToNoMsg) /\ toQueue' = toQueue
  <2>1. toWorker'.at = "dial" /\ toWorker'.conn = 0 /\ toWorker'.msg = ToNoMsg /\ ToWorkerOK'
    BY <1>1, <1>3, ToAtIs DEF ToWorkerOK
  <2>2. ToSockets'
    BY <1>1, <2>1, ToSocketsMean, ToSocketsMeanNext
  <2>3. ToMessages'
    BY <1>1, <1>3, <2>1, ToIdleKeeps
  <2> QED BY <1>1, <2>1, <2>2, <2>3 DEF ToInv
<1>4. CASE toQueue # <<>> /\ toWorker' = ToAt("dial", 0, Head(toQueue)) /\ toQueue' = Tail(toQueue)
  <2>1. toWorker'.msg = Head(toQueue)
    BY <1>4 DEF ToAt
  <2>2. ToMessages' /\ Head(toQueue) \in ToMsg
    BY <1>1, <1>4, <2>1, ToTakeKeeps
  <2>3. toWorker'.at = "dial" /\ toWorker'.conn = 0 /\ ToWorkerOK'
    BY <1>4, <2>1, <2>2, ToAtIs, ToNoMsgIsNone DEF ToWorkerOK
  <2>4. ToSockets'
    BY <1>1, <2>3, ToSocketsMean, ToSocketsMeanNext
  <2> QED BY <1>1, <2>2, <2>3, <2>4 DEF ToInv
<1> QED
  BY <1>2, <1>3, <1>4 DEF ToTop

\* The worker dials.
LEMMA ToDialKeeps == ToInv /\ ToDial => ToInv'
<1> SUFFICES ASSUME ToInv, ToDial PROVE ToInv'
  OBVIOUS
<1> DEFINE m == toWorker.msg
           a == IF m = ToNoMsg THEN toConfig ELSE m.addr
<1>1. /\ ToWorkerOK /\ ToSockets /\ ToMessages /\ toConfig' \in ToConfigs
      /\ toWorker.at = "dial" /\ toWorker.conn = 0 /\ m \in ToMsg \cup {ToNoMsg}
      /\ UNCHANGED <<toConfig, toQueue, toConn, toSent, toHandled>>
  BY DEF ToInv, ToWorkerOK, ToSockets, ToDial
<1>2. a \in ToAddrs
  BY <1>1, ToAssumption DEF ToInv, ToWorkerOK, ToMsg
<1>3. CASE /\ toConns' = Append(toConns, [addr |-> a, open |-> TRUE])
           /\ toWorker' = ToAt("store", Len(toConns) + 1, m)
           /\ UNCHANGED <<toReported, toFaults>>
  <2>1. toConns \in Seq(ToConnRec) /\ Len(toConns) \in Nat
    BY <1>1 DEF ToSockets
  <2>2. toWorker'.at = "store" /\ toWorker'.conn = Len(toConns) + 1 /\ toWorker'.msg = m /\ ToWorkerOK'
    BY <1>1, <1>3, <2>1, ToAtIs DEF ToWorkerOK
  <2>3. /\ toConns' \in Seq(ToConnRec) /\ Len(toConns') = Len(toConns) + 1
        /\ ToOpen(toConns') \subseteq ToOpen(toConns) \cup {Len(toConns) + 1}
    BY <1>2, <1>3, <2>1, ToDials
  <2>4. ToOpen(toConns) \subseteq {toConn} /\ toConn \in 0 .. Len(toConns)
    BY <1>1, ToSocketsMean DEF ToSocketsAre, ToOpen
  <2>5. ToSocketsAre(toConns', toConn', toWorker'.conn)
    <3>1. toConn' \in 0 .. Len(toConns') /\ toWorker'.conn \in 0 .. Len(toConns')
      BY <1>1, <2>1, <2>2, <2>3, <2>4
    <3> QED BY <1>1, <2>2, <2>3, <2>4, <3>1 DEF ToSocketsAre
  <2>6. ToSockets'
    BY <2>1, <2>2, <2>5, ToSocketsMeanNext
  <2>7. ToMessages'
    BY <1>1, <1>3, <2>2 DEF ToMessages, ToHands
  <2> QED BY <1>1, <2>2, <2>6, <2>7 DEF ToInv
<1>4. CASE /\ toReported' = IF m = ToNoMsg THEN toReported ELSE toReported \cup {m.id}
           /\ toWorker' = ToAt("sleep", 0, ToNoMsg) /\ toConns' = toConns
  <2>1. toWorker'.at = "sleep" /\ toWorker'.conn = 0 /\ toWorker'.msg = ToNoMsg /\ ToWorkerOK'
    BY <1>4, ToAtIs DEF ToWorkerOK
  <2>2. ToSockets'
    BY <1>1, <1>4, <2>1, ToSocketsMean, ToSocketsMeanNext
  <2>3. toReported' = toReported \cup ToHands
    BY <1>4 DEF ToHands
  <2>4. ToMessages'
    BY <1>1, <2>1, <2>3, ToReportKeeps
  <2> QED BY <1>1, <2>1, <2>2, <2>4 DEF ToInv
<1> QED
  BY <1>3, <1>4 DEF ToDial

\* setClientConn: the new connection is stored and the one it replaces
\* closed.
LEMMA ToStoreKeeps == ToInv /\ ToStore => ToInv'
<1> SUFFICES ASSUME ToInv, ToStore PROVE ToInv'
  OBVIOUS
<1> DEFINE at == IF toWorker.msg = ToNoMsg THEN "drain" ELSE "write"
<1>1. /\ ToWorkerOK /\ ToSockets /\ ToMessages /\ toConfig' \in ToConfigs
      /\ toWorker.at = "store" /\ toWorker.conn # 0
      /\ UNCHANGED <<toConfig, toQueue, toSent, toHandled, toReported>>
      /\ toConn' = toWorker.conn
      /\ toConns' = ToClosed(toConns, toConn)
  BY DEF ToInv, ToWorkerOK, ToSockets, ToStore, setClientConn, ToClosed
<1>2. /\ toWorker'.at = at /\ toWorker'.conn = toWorker.conn /\ toWorker'.msg = toWorker.msg
      /\ toWorker' \in [at : {"top", "dial", "store", "drain", "write", "sleep", "gone"},
                        conn : Nat, msg : ToMsg \cup {ToNoMsg}]
  BY <1>1 DEF ToStore, ToWorkerOK
<1>3. ToWorkerOK'
  BY <1>1, <1>2 DEF ToWorkerOK
<1>4. /\ toConns' \in Seq(ToConnRec) /\ Len(toConns') = Len(toConns)
      /\ ToOpen(toConns') = ToOpen(toConns) \ {toConn}
      /\ ToOpen(toConns) \subseteq {toConn, toWorker.conn} /\ toWorker.conn \in 0 .. Len(toConns)
  BY <1>1, ToCloses, ToSocketsMean DEF ToSocketsAre
<1>5. ToSocketsAre(toConns', toConn', toWorker'.conn)
  BY <1>1, <1>2, <1>4 DEF ToSocketsAre
<1>6. ToSockets'
  BY <1>1, <1>2, <1>5, ToSocketsMeanNext
<1>7. ToMessages'
  BY <1>1, <1>2 DEF ToMessages, ToHands
<1> QED
  BY <1>1, <1>3, <1>6, <1>7 DEF ToInv

\* The inner loop takes the next message, or ends.
LEMMA ToDrainKeeps == ToInv /\ ToDrain => ToInv'
<1> SUFFICES ASSUME ToInv, ToDrain PROVE ToInv'
  OBVIOUS
<1>1. /\ ToWorkerOK /\ ToSockets /\ ToMessages /\ toConfig' \in ToConfigs
      /\ toWorker.at = "drain" /\ toWorker.msg = ToNoMsg /\ toWorker.conn = toConn /\ toWorker.conn # 0
      /\ toWorker.conn \in Nat
      /\ UNCHANGED <<toConfig, toConns, toConn, toSent, toHandled, toReported>>
  BY DEF ToInv, ToWorkerOK, ToSockets, ToDrain
<1>2. CASE toWorker' = ToAt("gone", 0, ToNoMsg) /\ toQueue' = toQueue
  <2>1. toWorker'.at = "gone" /\ toWorker'.conn = 0 /\ toWorker'.msg = ToNoMsg /\ ToWorkerOK'
    BY <1>2, ToAtIs DEF ToWorkerOK
  <2>2. ToSocketsAre(toConns', toConn', toWorker'.conn)
    BY <1>1, <2>1, ToSocketsMean DEF ToSocketsAre
  <2>3. ToSockets'
    BY <2>1, <2>2, ToSocketsMeanNext
  <2>4. ToMessages'
    BY <1>1, <1>2, <2>1, ToIdleKeeps
  <2> QED BY <1>1, <2>1, <2>3, <2>4 DEF ToInv
<1>3. CASE toQueue # <<>> /\ toWorker' = ToAt("write", toWorker.conn, Head(toQueue)) /\ toQueue' = Tail(toQueue)
  <2>1. toWorker'.msg = Head(toQueue)
    BY <1>3 DEF ToAt
  <2>2. ToMessages' /\ Head(toQueue) \in ToMsg
    BY <1>1, <1>3, <2>1, ToTakeKeeps
  <2>3. toWorker'.at = "write" /\ toWorker'.conn = toWorker.conn /\ ToWorkerOK'
    BY <1>1, <1>3, <2>1, <2>2, ToAtIs, ToNoMsgIsNone DEF ToWorkerOK
  <2>4. ToSockets'
    BY <1>1, <2>3, ToSocketsMean, ToSocketsMeanNext
  <2> QED BY <1>1, <2>2, <2>3, <2>4 DEF ToInv
<1> QED
  BY <1>2, <1>3 DEF ToDrain

\* A message is written, or the write fails and the connection is closed.
LEMMA ToWriteKeeps == ToInv /\ ToWrite => ToInv'
<1> SUFFICES ASSUME ToInv, ToWrite PROVE ToInv'
  OBVIOUS
<1> DEFINE m == toWorker.msg
           next == IF toConfig = ToNone THEN "top" ELSE "sleep"
<1>1. /\ ToWorkerOK /\ ToSockets /\ ToMessages /\ toConfig' \in ToConfigs
      /\ toWorker.at = "write" /\ m \in ToMsg /\ toWorker.conn = toConn /\ toConn # 0 /\ toConn \in Nat
      /\ UNCHANGED <<toConfig, toQueue, toHandled>>
  BY DEF ToInv, ToWorkerOK, ToSockets, ToWrite
<1>2. /\ toConns \in Seq(ToConnRec) /\ ToOpen(toConns) \subseteq {toConn} /\ toConn \in 0 .. Len(toConns)
  BY <1>1, ToSocketsMean DEF ToSocketsAre
<1>3. ASSUME closeClientConn, toWorker' = ToAt(next, 0, ToNoMsg)
      PROVE  ToWorkerOK' /\ ToSockets' /\ toWorker'.msg = ToNoMsg
  <2>1. toWorker'.at \in {"top", "sleep"} /\ toWorker'.conn = 0 /\ toWorker'.msg = ToNoMsg /\ ToWorkerOK'
    BY <1>3, ToAtIs DEF ToWorkerOK
  <2>2. toConns' = ToClosed(toConns, toConn) /\ toConn' = 0
    BY <1>3 DEF closeClientConn, ToClosed
  <2>3. toConns' \in Seq(ToConnRec) /\ Len(toConns') = Len(toConns) /\ ToOpen(toConns') = {}
    BY <1>2, <2>2, ToCloses
  <2>4. ToSocketsAre(toConns', toConn', toWorker'.conn)
    BY <1>2, <2>1, <2>2, <2>3 DEF ToSocketsAre
  <2> QED BY <2>1, <2>4, ToSocketsMeanNext
<1>4. ASSUME UNCHANGED <<toConns, toConn>>, toWorker' = ToAt("top", 0, ToNoMsg)
      PROVE  ToWorkerOK' /\ ToSockets' /\ toWorker'.msg = ToNoMsg
  <2>1. toWorker'.at = "top" /\ toWorker'.conn = 0 /\ toWorker'.msg = ToNoMsg /\ ToWorkerOK'
    BY <1>4, ToAtIs DEF ToWorkerOK
  <2>2. ToSocketsAre(toConns', toConn', toWorker'.conn)
    BY <1>2, <1>4, <2>1 DEF ToSocketsAre
  <2> QED BY <2>1, <2>2, ToSocketsMeanNext
<1>5. ASSUME UNCHANGED <<toConns, toConn>>, toWorker' = ToAt("drain", toWorker.conn, ToNoMsg)
      PROVE  ToWorkerOK' /\ ToSockets' /\ toWorker'.msg = ToNoMsg
  <2>1. toWorker'.at = "drain" /\ toWorker'.conn = toConn /\ toWorker'.msg = ToNoMsg /\ ToWorkerOK'
    BY <1>1, <1>5, ToAtIs DEF ToWorkerOK
  <2>2. ToSocketsAre(toConns', toConn', toWorker'.conn)
    BY <1>2, <1>5, <2>1 DEF ToSocketsAre
  <2> QED BY <1>1, <1>5, <2>1, <2>2, ToSocketsMeanNext
<1>6. CASE /\ toSent' = Append(toSent, [id |-> m.id, conn |-> toWorker.conn])
           /\ IF m.close THEN closeClientConn ELSE UNCHANGED <<toConns, toConn>>
           /\ toWorker' = IF m.close \/ toConfig = ToNone THEN ToAt(next, 0, ToNoMsg)
                          ELSE ToAt("drain", toWorker.conn, ToNoMsg)
           /\ UNCHANGED <<toReported, toFaults>>
  <2>1. ToWorkerOK' /\ ToSockets' /\ toWorker'.msg = ToNoMsg
    <3>1. CASE m.close
      BY <1>3, <1>6, <3>1
    <3>2. CASE ~m.close /\ toConfig = ToNone
      BY <1>4, <1>6, <3>2
    <3>3. CASE ~m.close /\ toConfig # ToNone
      BY <1>5, <1>6, <3>3
    <3> QED BY <3>1, <3>2, <3>3
  <2>2. ToMessages'
    BY <1>1, <1>6, <2>1, ToSendKeeps
  <2> QED BY <1>1, <2>1, <2>2 DEF ToInv
<1>7. CASE /\ toReported' = toReported \cup {m.id}
           /\ closeClientConn
           /\ toWorker' = ToAt(next, 0, ToNoMsg)
           /\ UNCHANGED toSent
  <2>1. ToWorkerOK' /\ ToSockets' /\ toWorker'.msg = ToNoMsg
    BY <1>3, <1>7
  <2>2. ToHands = {m.id}
    BY <1>1, ToNoMsgIsNone DEF ToHands
  <2>3. ToMessages'
    BY <1>1, <1>7, <2>1, <2>2, ToReportKeeps
  <2> QED BY <1>1, <2>1, <2>3 DEF ToInv
<1> QED
  BY <1>6, <1>7 DEF ToWrite

\* sleepOrStop.
LEMMA ToSleepKeeps == ToInv /\ ToSleep => ToInv'
<1> SUFFICES ASSUME ToInv, ToSleep PROVE ToInv'
  OBVIOUS
<1>1. /\ ToWorkerOK /\ ToSockets /\ ToMessages /\ toConfig' \in ToConfigs
      /\ toWorker.at = "sleep" /\ toWorker.msg = ToNoMsg /\ toWorker.conn = 0
      /\ UNCHANGED <<toConfig, toConns, toConn, toQueue, toSent, toHandled, toReported>>
  BY DEF ToInv, ToWorkerOK, ToSockets, ToSleep
<1>2. toWorker'.at \in {"top", "gone"} /\ toWorker'.conn = 0 /\ toWorker'.msg = ToNoMsg /\ ToWorkerOK'
  BY ToAtIs DEF ToWorkerOK, ToSleep
<1>3. ToSockets'
  BY <1>1, <1>2, ToSocketsMean, ToSocketsMeanNext
<1>4. ToMessages'
  BY <1>1, <1>2, ToIdleKeeps
<1> QED BY <1>1, <1>2, <1>3, <1>4 DEF ToInv

\* The steps of Stop.
LEMMA ToStopsKeeps == ToInv /\ ToStops => ToInv'
<1> SUFFICES ASSUME ToInv, ToStops PROVE ToInv'
  OBVIOUS
<1>1. /\ ToWorkerOK /\ ToSockets /\ ToMessages /\ toConfig' \in ToConfigs
      /\ UNCHANGED <<toConfig, toConn, toWorker, toQueue, toSent, toHandled, toReported>>
  BY DEF ToInv, ToStops
<1>2. ToWorkerOK' /\ ToMessages'
  BY <1>1 DEF ToWorkerOK, ToMessages, ToHands
<1>3. CASE toConns' = toConns
  BY <1>1, <1>2, <1>3, ToSocketsMean, ToSocketsMeanNext DEF ToInv
<1>4. CASE toConns' = ToClosed(toConns, toConn)
  <2>1. /\ toConns' \in Seq(ToConnRec) /\ Len(toConns') = Len(toConns)
        /\ ToOpen(toConns') = ToOpen(toConns) \ {toConn}
    BY <1>1, <1>4, ToCloses, ToSocketsMean DEF ToSocketsAre
  <2>2. ToSocketsAre(toConns', toConn', toWorker'.conn)
    BY <1>1, <2>1, ToSocketsMean DEF ToSocketsAre
  <2>3. ToSockets'
    BY <1>1, <2>2, ToSocketsMean, ToSocketsMeanNext
  <2> QED BY <1>1, <1>2, <2>3 DEF ToInv
<1> QED
  BY <1>3, <1>4 DEF ToStops, ToClosed

\* Every step keeps the invariant of tcp-out.
LEMMA ToNextInv == ToInv /\ [ToNext]_toVars => ToInv'
<1> SUFFICES ASSUME ToInv, [ToNext]_toVars PROVE ToInv'
  OBVIOUS
<1>1. CASE UNCHANGED toVars
  BY <1>1 DEF toVars, ToInv, ToWorkerOK, ToSockets, ToMessages, ToHands
<1>2. CASE ToNext
  BY <1>2, ToHandleKeeps, ToTopKeeps, ToDialKeeps, ToStoreKeeps, ToDrainKeeps, ToWriteKeeps,
     ToSleepKeeps, ToStopsKeeps DEF ToNext, ToWork
<1> QED
  BY <1>1, <1>2

\* The invariant says what ToAccounted does.
LEMMA ToInvAccounts == ToInv => ToAccounted
<1> SUFFICES ASSUME ToInv PROVE ToAccounted
  OBVIOUS
<1>1. /\ ToBook(ToIds(toSent), ToIds(toQueue), ToHands, toReported, toHandled)
      /\ ToRising(toSent)
  BY DEF ToInv, ToMessages
<1>2. \A c \in 1 .. Len(toConns) : toConns[c].open => c \in {toConn, toWorker.conn}
  BY DEF ToInv, ToSockets
<1> QED
  BY <1>1, <1>2, Zenon DEF ToAccounted, ToBook, ToIds, ToHands, ToRising

\* tcp-out as a client accounts for every message and leaves no socket open.
THEOREM ToHolds == ToSpec => []ToAccounted
BY ToInitInv, ToNextInv, ToInvAccounts, PTL DEF ToSpec

-----------------------------------------------------------------------------
(***************************************************************************)
(* The udp nodes.                                                          *)
(***************************************************************************)

(* Where the socket is reused, the only socket open is the one in n.conn or  *)
(* the one about to be stored there; a new one is opened only when there is  *)
(* none.                                                                     *)
UoHeld ==
    /\ uoReuse \in BOOLEAN /\ uoMade \in Nat /\ uoConn \in Nat /\ uoOpen \subseteq Nat \ {0}
    /\ uoCall \in [pc : {"idle", "acquire", "open", "store", "write", "close"}, conn : Nat]
    /\ uoReuse = TRUE =>
          /\ uoOpen \subseteq {uoConn} \cup (IF uoCall.pc = "store" THEN {uoCall.conn} ELSE {})
          /\ uoCall.pc \in {"open", "store"} => uoConn = 0
          /\ uoCall.pc # "close"

UiHeld == uiPhase = "stopped" => uiSocket = "closed" /\ uiLoop = "gone"

UdInv == UoHeld /\ UiHeld

\* Every step of the udp nodes keeps their invariant.
LEMMA UdNextInv == UdInv /\ [UdNext]_udVars => UdInv'
<1> SUFFICES ASSUME UdInv, [UdNext]_udVars PROVE UdInv'
  OBVIOUS
<1> USE DEF UdInv
<1>1. CASE UNCHANGED uiVars
  <2>1. UiHeld'
    BY <1>1 DEF UiHeld, uiVars
  <2>2. CASE UoHandleMessage
    BY <2>1, <2>2 DEF UoHandleMessage, UoHeld, UdIdle
  <2>3. CASE acquireSocket
    <3>1. CASE /\ uoCall.pc = "acquire"
               /\ uoCall' = IF uoReuse /\ uoConn # 0 THEN [pc |-> "write", conn |-> uoConn]
                                                    ELSE [uoCall EXCEPT !.pc = "open"]
               /\ UNCHANGED <<uoReuse, uoOpen, uoMade, uoConn>>
      <4>1. CASE uoReuse /\ uoConn # 0
        BY <2>1, <3>1, <4>1 DEF UoHeld
      <4>2. CASE ~(uoReuse /\ uoConn # 0)
        BY <2>1, <3>1, <4>2 DEF UoHeld
      <4> QED BY <4>1, <4>2
    <3>2. CASE /\ uoCall.pc = "open" /\ UNCHANGED <<uoReuse, uoConn>>
               /\ \/ /\ uoMade' = uoMade + 1
                     /\ uoOpen' = uoOpen \cup {uoMade + 1}
                     /\ uoCall' = [pc |-> IF uoReuse THEN "store" ELSE "write", conn |-> uoMade + 1]
                  \/ uoCall' = UdIdle /\ UNCHANGED <<uoMade, uoOpen>>
      <4>1. CASE uoCall' = UdIdle /\ UNCHANGED <<uoMade, uoOpen>>
        BY <2>1, <3>2, <4>1 DEF UoHeld, UdIdle
      <4>2. CASE /\ uoMade' = uoMade + 1 /\ uoOpen' = uoOpen \cup {uoMade + 1}
                 /\ uoCall' = [pc |-> IF uoReuse THEN "store" ELSE "write", conn |-> uoMade + 1]
        <5>1. uoMade' \in Nat /\ uoMade' # 0 /\ uoOpen' = uoOpen \cup {uoMade'}
          BY <4>2 DEF UoHeld
        <5>2. /\ uoCall' \in [pc : {"idle", "acquire", "open", "store", "write", "close"}, conn : Nat]
              /\ uoCall'.conn = uoMade' /\ uoCall'.pc = IF uoReuse THEN "store" ELSE "write"
          BY <4>2, <5>1
        <5> QED BY <2>1, <3>2, <5>1, <5>2 DEF UoHeld
      <4> QED BY <3>2, <4>1, <4>2
    <3>3. CASE /\ uoCall.pc = "store" /\ uoConn' = uoCall.conn
               /\ uoCall' = [uoCall EXCEPT !.pc = "write"]
               /\ UNCHANGED <<uoReuse, uoOpen, uoMade>>
      BY <2>1, <3>3 DEF UoHeld
    <3> QED BY <2>3, <3>1, <3>2, <3>3 DEF acquireSocket
  <2>4. CASE sendDatagram
    BY <2>1, <2>4 DEF sendDatagram, UoHeld, UdIdle
  <2>5. CASE UoDeferredClose
    BY <2>1, <2>5 DEF UoDeferredClose, closeSocket, UoHeld, UdIdle
  <2>6. CASE UoStop
    BY <2>1, <2>6 DEF UoStop, closeSocket, UoHeld
  <2>7. CASE UNCHANGED uoVars
    BY <2>1, <2>7 DEF uoVars, UoHeld
  <2> QED BY <1>1, <2>2, <2>3, <2>4, <2>5, <2>6, <2>7
             DEF UdNext, udVars, uoVars, UiStart, UiArrive, readLoop, UiReadError, UiStop
<1>2. CASE UNCHANGED uoVars
  <2>1. UoHeld'
    BY <1>2 DEF uoVars, UoHeld
  <2> QED BY <1>2, <2>1 DEF UdNext, UiHeld, udVars, uiVars, UoHandleMessage, acquireSocket,
             sendDatagram, UoDeferredClose, UoStop, UiStart, UiArrive, readLoop, UiReadError, UiStop
<1> QED
  BY <1>1, <1>2 DEF UdNext, udVars, uoVars, uiVars, UoHandleMessage, acquireSocket,
     sendDatagram, UoDeferredClose, UoStop, UiStart, UiArrive, readLoop, UiReadError, UiStop

\* No socket is open.
LEMMA UdInitInv == UdInit => UdInv
BY UdAssumption DEF UdInit, UdInv, UoHeld, UiHeld, UdIdle

\* The invariant says what UdSocketsHeld does.
LEMMA UdInvHolds == UdInv => UdSocketsHeld
BY DEF UdInv, UoHeld, UiHeld, UdSocketsHeld, UdOneSocket, UdIdle

\* The udp nodes leave no socket and no loop behind.
THEOREM UdHolds == UdSpec => []UdSocketsHeld
BY UdInitInv, UdNextInv, UdInvHolds, PTL DEF UdSpec

-----------------------------------------------------------------------------
(***************************************************************************)
(* The framers.                                                            *)
(***************************************************************************)

\* A set of numbers that is not empty has a smallest one.
LEMMA FrSmallest ==
    ASSUME NEW E, E \subseteq Nat, E # {}
    PROVE  \E i \in E : \A j \in E : i <= j
<1>1. PICK x \in E : \A y \in E : ~(<<y, x>> \in OpToRel(<, Nat))
  BY NatLessThanWellFounded, WFMin
<1>2. \A y \in E : ~(y < x)
  BY <1>1 DEF OpToRel
<1> QED
  BY <1>2

-----------------------------------------------------------------------------
(* Frames put together.  FlattenSeq is a recursive function; that it is    *)
(* well defined, and what it does to one frame more, is shown by looking   *)
(* at the smallest place where it would go wrong.                          *)

FrFlattens(f, s, n) == f = [i \in 1 .. n |-> IF i = 1 THEN s[i] ELSE f[i - 1] \o s[i]]

\* The recursive function that puts frames together exists.
LEMMA FrFlattenExists ==
    ASSUME NEW s, NEW n \in Nat
    PROVE  \E f : FrFlattens(f, s, n)
<1> DEFINE E == {k \in Nat : ~\E f : FrFlattens(f, s, k)}
<1> SUFFICES ASSUME E # {} PROVE FALSE
  OBVIOUS
<1>1. PICK k \in E : \A j \in E : k <= j
  <2> HIDE DEF E
  <2>1. E \subseteq Nat
    BY DEF E
  <2> QED BY <2>1, FrSmallest
<1>2. k # 0
  <2>1. FrFlattens([i \in 1 .. 0 |-> 0], s, 0)
    BY DEF FrFlattens
  <2> QED BY <2>1
<1>3. k \in Nat /\ k - 1 \in Nat /\ ~(k <= k - 1)
  BY <1>2
<1>4. k - 1 \notin E
  BY <1>1, <1>3, Zenon
<1>5. PICK f : FrFlattens(f, s, k - 1)
  BY <1>3, <1>4
<1> DEFINE g == [i \in 1 .. k |-> IF i = k THEN (IF k = 1 THEN s[1] ELSE f[k - 1] \o s[k]) ELSE f[i]]
<1>6. ASSUME NEW i \in 1 .. k PROVE g[i] = IF i = 1 THEN s[i] ELSE g[i - 1] \o s[i]
  <2>1. CASE i = k /\ k = 1
    BY <2>1
  <2>2. CASE i = k /\ k # 1
    <3>1. k - 1 \in 1 .. k /\ k - 1 # k
      BY <1>3, <2>2
    <3>2. g[k - 1] = f[k - 1] /\ g[k] = f[k - 1] \o s[k]
      BY <1>3, <2>2, <3>1
    <3> QED BY <2>2, <3>2
  <2>3. CASE i # k
    <3>1. i \in 1 .. k - 1 /\ (i # 1 => i - 1 \in 1 .. k /\ i - 1 # k)
      BY <1>3, <2>3
    <3>2. g[i] = f[i] /\ (i # 1 => g[i - 1] = f[i - 1])
      BY <2>3, <3>1
    <3>3. f[i] = IF i = 1 THEN s[i] ELSE f[i - 1] \o s[i]
      BY <1>5, <3>1 DEF FrFlattens
    <3> QED BY <3>2, <3>3
  <2> QED BY <2>1, <2>2, <2>3
<1>7. FrFlattens(g, s, k)
  <2>1. g = [i \in 1 .. k |-> g[i]]
    OBVIOUS
  <2> HIDE DEF g
  <2> QED BY <1>6, <2>1, Zenon DEF FrFlattens
<1> QED
  BY <1>7

\* On the frames that both have, it is the same for two lists of them.
LEMMA FrFlattenAgrees ==
    ASSUME NEW S, NEW s \in Seq(Seq(S)), NEW f, FrFlattens(f, s, Len(s)),
           NEW t, Len(s) <= Len(t), Len(t) \in Nat, \A i \in 1 .. Len(s) : t[i] = s[i],
           NEW g, FrFlattens(g, t, Len(t))
    PROVE  \A i \in 1 .. Len(s) : g[i] = f[i] /\ f[i] \in Seq(S)
<1> DEFINE E == {k \in 1 .. Len(s) : ~(g[k] = f[k] /\ f[k] \in Seq(S))}
<1> SUFFICES ASSUME E # {} PROVE FALSE
  OBVIOUS
<1>0. Len(s) \in Nat
  OBVIOUS
<1>1. PICK k \in E : \A j \in E : k <= j
  <2> HIDE DEF E
  <2>1. E \subseteq Nat
    BY DEF E
  <2> QED BY <2>1, FrSmallest
<1>2. k \in 1 .. Len(s) /\ k \in 1 .. Len(t)
  BY <1>0
<1>3. /\ f[k] = IF k = 1 THEN s[k] ELSE f[k - 1] \o s[k]
      /\ g[k] = IF k = 1 THEN t[k] ELSE g[k - 1] \o t[k]
      /\ t[k] = s[k]
  BY <1>2 DEF FrFlattens
<1>4. s[k] \in Seq(S)
  BY <1>2
<1>5. CASE k = 1
  BY <1>3, <1>4, <1>5
<1>6. CASE k # 1
  <2>1. k - 1 \in 1 .. Len(s) /\ ~(k <= k - 1)
    BY <1>2, <1>6
  <2>2. g[k - 1] = f[k - 1] /\ f[k - 1] \in Seq(S)
    BY <1>1, <2>1
  <2>3. f[k - 1] \o s[k] \in Seq(S)
    <3> DEFINE a == f[k - 1]
               b == s[k]
    <3>1. a \in Seq(S) /\ b \in Seq(S)
      BY <1>4, <2>2
    <3> HIDE DEF a, b
    <3>2. a \o b \in Seq(S)
      BY <3>1
    <3> QED BY <3>2 DEF a, b
  <2>4. f[k] = f[k - 1] \o s[k] /\ g[k] = g[k - 1] \o s[k]
    BY <1>3, <1>6
  <2>5. g[k] = f[k] /\ f[k] \in Seq(S)
    BY <2>2, <2>3, <2>4
  <2> QED BY <2>5
<1> QED
  BY <1>5, <1>6

\* FlattenSeq by that function.
LEMMA FrFlattenIs ==
    ASSUME NEW S, NEW s \in Seq(Seq(S))
    PROVE  \/ Len(s) = 0 /\ SeqExt!FlattenSeq(s) = <<>>
           \/ Len(s) # 0 /\ \E f : FrFlattens(f, s, Len(s)) /\ SeqExt!FlattenSeq(s) = f[Len(s)]
<1>1. Len(s) \in Nat
  OBVIOUS
<1>2. CASE Len(s) = 0
  <2>1. s = <<>>
    BY <1>2
  <2> QED BY <1>2, <2>1 DEF SeqExt!FlattenSeq
<1>3. CASE Len(s) # 0
  <2> DEFINE h == CHOOSE f : f = [i \in 1 .. Len(s) |-> IF i = 1 THEN s[i] ELSE f[i - 1] \o s[i]]
  <2>1. SeqExt!FlattenSeq(s) = h[Len(s)]
    BY <1>3, Zenon DEF SeqExt!FlattenSeq
  <2>2. \E f : f = [i \in 1 .. Len(s) |-> IF i = 1 THEN s[i] ELSE f[i - 1] \o s[i]]
    BY <1>1, FrFlattenExists DEF FrFlattens
  <2>3. h = [i \in 1 .. Len(s) |-> IF i = 1 THEN s[i] ELSE h[i - 1] \o s[i]]
    BY <2>2, Zenon
  <2> QED BY <1>3, <2>1, <2>3, Zenon DEF FrFlattens
<1> QED
  BY <1>2, <1>3

\* One frame more comes last.
LEMMA FrFlattenAppend ==
    ASSUME NEW S, NEW s \in Seq(Seq(S)), NEW x \in Seq(S)
    PROVE  /\ SeqExt!FlattenSeq(s) \in Seq(S)
           /\ SeqExt!FlattenSeq(Append(s, x)) = SeqExt!FlattenSeq(s) \o x
<1> DEFINE t == Append(s, x)
<1>1. /\ t \in Seq(Seq(S)) /\ Len(s) \in Nat /\ Len(t) = Len(s) + 1
      /\ t[Len(s) + 1] = x /\ \A i \in 1 .. Len(s) : t[i] = s[i]
  OBVIOUS
<1> HIDE DEF t
<1>2. Len(t) # 0 /\ Len(t) \in Nat /\ Len(s) <= Len(t) /\ Len(t) \in 1 .. Len(t) /\ Len(t) - 1 = Len(s)
  BY <1>1
<1>3. PICK g : FrFlattens(g, t, Len(t)) /\ SeqExt!FlattenSeq(t) = g[Len(t)]
  BY <1>1, <1>2, FrFlattenIs
<1>4. g[Len(t)] = IF Len(t) = 1 THEN t[Len(t)] ELSE g[Len(t) - 1] \o t[Len(t)]
  BY <1>2, <1>3 DEF FrFlattens
<1>5. CASE Len(s) = 0
  <2>1. SeqExt!FlattenSeq(s) = <<>>
    BY <1>5, FrFlattenIs
  <2>2. SeqExt!FlattenSeq(t) = x
    BY <1>1, <1>3, <1>4, <1>5
  <2>3. <<>> \o x = x /\ <<>> \in Seq(S)
    OBVIOUS
  <2> QED BY <2>1, <2>2, <2>3 DEF t
<1>6. CASE Len(s) # 0
  <2>1. PICK f : FrFlattens(f, s, Len(s)) /\ SeqExt!FlattenSeq(s) = f[Len(s)]
    BY <1>6, FrFlattenIs
  <2>2. Len(s) \in 1 .. Len(s) /\ Len(s) <= Len(s)
    BY <1>1, <1>6
  <2>3. \A i \in 1 .. Len(s) : g[i] = f[i] /\ f[i] \in Seq(S)
    BY <1>1, <1>2, <1>3, <2>1, FrFlattenAgrees, Zenon
  <2>4. g[Len(s)] = f[Len(s)] /\ f[Len(s)] \in Seq(S)
    BY <2>2, <2>3
  <2>5. g[Len(t)] = g[Len(s)] \o x
    <3>1. Len(t) # 1 /\ t[Len(t)] = x
      BY <1>1, <1>6
    <3> QED BY <1>2, <1>4, <3>1
  <2> QED BY <1>3, <2>1, <2>4, <2>5 DEF t
<1> QED
  BY <1>5, <1>6

-----------------------------------------------------------------------------
(* Cutting a buffer. *)

\* The two parts of a buffer.
LEMMA FrCut ==
    ASSUME NEW S, NEW b \in Seq(S), NEW n \in Nat, n <= Len(b)
    PROVE  /\ SubSeq(b, 1, n) \in Seq(S) /\ Len(SubSeq(b, 1, n)) = n
           /\ \A i \in 1 .. n : SubSeq(b, 1, n)[i] = b[i]
           /\ SubSeq(b, n + 1, Len(b)) \in Seq(S) /\ Len(SubSeq(b, n + 1, Len(b))) = Len(b) - n
           /\ SubSeq(b, 1, n) \o SubSeq(b, n + 1, Len(b)) = b
<1> DEFINE p == SubSeq(b, 1, n)
           r == SubSeq(b, n + 1, Len(b))
<1>1. Len(b) \in Nat
  OBVIOUS
<1>2. p \in Seq(S) /\ Len(p) = n /\ \A i \in 1 .. n : p[i] = b[i]
  BY <1>1
<1>3. r \in Seq(S) /\ Len(r) = Len(b) - n /\ \A i \in 1 .. Len(b) - n : r[i] = b[n + i]
  BY <1>1
<1> HIDE DEF p, r
<1>4. /\ p \o r \in Seq(S) /\ Len(p \o r) = Len(p) + Len(r)
      /\ \A i \in 1 .. Len(p) + Len(r) : (p \o r)[i] = IF i <= Len(p) THEN p[i] ELSE r[i - Len(p)]
  <2>1. p \in Seq(S) /\ r \in Seq(S)
    BY <1>2, <1>3
  <2> QED BY <2>1
<1>5. Len(p) + Len(r) = Len(b) /\ Len(p) = n
  BY <1>1, <1>2, <1>3
<1>6. ASSUME NEW i \in 1 .. Len(b) PROVE (p \o r)[i] = b[i]
  <2>1. CASE i <= n
    <3>1. i \in 1 .. n
      BY <1>1, <2>1
    <3> QED BY <1>2, <1>4, <1>5, <2>1, <3>1
  <2>2. CASE ~(i <= n)
    <3>1. i - n \in 1 .. Len(b) - n /\ n + (i - n) = i
      BY <1>1, <2>2
    <3> QED BY <1>3, <1>4, <1>5, <2>2, <3>1
  <2> QED BY <2>1, <2>2
<1>7. p \o r = b
  BY <1>4, <1>5, <1>6, SeqEqual
<1> QED
  BY <1>2, <1>3, <1>7 DEF p, r

\* Three parts of a stream, put together either way.
LEMMA FrRegroup ==
    ASSUME NEW S, NEW x \in Seq(S), NEW y \in Seq(S), NEW z \in Seq(S)
    PROVE  (x \o y) \o z = x \o (y \o z)
BY ConcatAssociative

\* The same for a stream of bytes.
LEMMA FrRegroupBytes ==
    \A a, x, r \in Seq(Nat) : (a \o x) \o r = a \o (x \o r)
<1> SUFFICES ASSUME NEW S, S = Nat
             PROVE  \A a, x, r \in Seq(S) : (a \o x) \o r = a \o (x \o r)
  OBVIOUS
<1> TAKE a, x, r \in Seq(S)
<1> QED
  BY ONLY FrRegroup, a \in Seq(S), x \in Seq(S), r \in Seq(S)

(* The delimiter is looked for from the left. *)
FrIsFirst(s, k) == k \in FrFound(s) /\ \A j \in FrFound(s) : k <= j

\* A place where the delimiter is, byte by byte.
LEMMA FrFoundIs ==
    ASSUME NEW s \in Seq(Nat), NEW k \in Nat
    PROVE  k \in FrFound(s) <=> /\ k >= 1 /\ k + Len(FrDelim) - 1 <= Len(s)
                                /\ \A i \in 1 .. Len(FrDelim) : s[k + i - 1] = FrDelim[i]
<1>1. Len(s) \in Nat /\ Len(FrDelim) \in Nat /\ Len(FrDelim) >= 1 /\ FrDelim \in Seq(Nat)
  BY FrAssumption
<1> DEFINE L == Len(FrDelim)
           t == SubSeq(s, k, k + L - 1)
<1>2. ASSUME k >= 1, k + L - 1 <= Len(s)
      PROVE  t \in Seq(Nat) /\ Len(t) = L /\ \A i \in 1 .. L : t[i] = s[k + i - 1]
  <2> HIDE DEF L
  <2>1. L \in Nat /\ L >= 1
    BY <1>1 DEF L
  <2>2. k \in 1 .. Len(s) + 1 /\ k + L - 1 \in k - 1 .. Len(s) /\ (k + L - 1) - k + 1 = L
    BY <1>1, <1>2, <2>1
  <2>3. /\ t \in Seq(Nat) /\ Len(t) = (k + L - 1) - k + 1
        /\ \A i \in 1 .. (k + L - 1) - k + 1 : t[i] = s[k + i - 1]
    <3> DEFINE m == k + L - 1
    <3>1. \A i \in k .. m : s[i] \in Nat
      <4>1. \A i \in k .. m : i \in 1 .. Len(s)
        BY <1>1, <1>2, <2>1
      <4> QED BY <4>1
    <3>2. k \in Int /\ m \in Int /\ k <= m
      BY <2>1
    <3> HIDE DEF m
    <3>3. /\ SubSeq(s, k, m) \in Seq(Nat) /\ Len(SubSeq(s, k, m)) = m - k + 1
          /\ \A i \in 1 .. m - k + 1 : SubSeq(s, k, m)[i] = s[k + i - 1]
      BY <3>1, <3>2, SubSeqProperties
    <3> QED BY <3>3 DEF m
  <2> QED BY <2>2, <2>3
<1>3. ASSUME k >= 1, k + L - 1 <= Len(s), t = FrDelim
      PROVE  \A i \in 1 .. L : s[k + i - 1] = FrDelim[i]
  BY <1>2, <1>3
<1>4. ASSUME k >= 1, k + L - 1 <= Len(s), \A i \in 1 .. L : s[k + i - 1] = FrDelim[i]
      PROVE  t = FrDelim
  <2>1. t \in Seq(Nat) /\ Len(t) = L /\ \A i \in 1 .. L : t[i] = FrDelim[i]
    BY <1>2, <1>4
  <2> HIDE DEF t
  <2> QED BY <1>1, <2>1, SeqEqual
<1>5. k >= 1 /\ k + L - 1 <= Len(s) => k \in 1 .. Len(s)
  BY <1>1
<1> HIDE DEF t
<1> QED
  BY <1>3, <1>4, <1>5 DEF FrFound, t

\* A delimiter that is there at all has a first place.
LEMMA FrFirstIs ==
    ASSUME NEW s \in Seq(Nat), FrFound(s) # {}
    PROVE  FrIsFirst(s, FrFirst(s)) /\ FrFirst(s) \in Nat
<1>1. FrFound(s) \subseteq Nat
  BY DEF FrFound
<1>2. \E i \in FrFound(s) : \A j \in FrFound(s) : i <= j
  BY <1>1, FrSmallest
<1>3. FrFirst(s) \in FrFound(s) /\ \A j \in FrFound(s) : FrFirst(s) <= j
  BY <1>2, Zenon DEF FrFirst
<1> QED
  BY <1>1, <1>3 DEF FrIsFirst

\* There is only one first place.
LEMMA FrFirstUnique ==
    ASSUME NEW s \in Seq(Nat), NEW k, FrIsFirst(s, k)
    PROVE  FrFirst(s) = k
<1>1. FrFound(s) # {} /\ k \in FrFound(s) /\ FrFound(s) \subseteq Nat
  <2>1. FrFound(s) \subseteq Nat
    BY DEF FrFound
  <2> QED BY <2>1 DEF FrIsFirst
<1>2. FrIsFirst(s, FrFirst(s)) /\ FrFirst(s) \in Nat
  BY <1>1, FrFirstIs
<1>3. k <= FrFirst(s) /\ FrFirst(s) <= k /\ k \in Nat
  BY <1>1, <1>2 DEF FrIsFirst
<1> QED
  BY <1>2, <1>3

\* A place inside the delimiter.
LEMMA FrOffset ==
    ASSUME NEW k \in Nat, NEW l \in Nat, NEW n \in Nat, n = k + l - 1, NEW i \in 1 .. n, ~(i <= k - 1)
    PROVE  i - (k - 1) \in 1 .. l /\ k + (i - (k - 1)) - 1 = i
OBVIOUS

\* A frame up to the first delimiter, the delimiter and the rest are the
\* buffer, and the delimiter is nowhere in the frame or across its end.
LEMMA FrDelimited ==
    ASSUME NEW b \in Seq(Nat), FrFound(b) # {}
    PROVE  \E f, r :
           /\ f = SubSeq(b, 1, FrFirst(b) - 1) /\ r = SubSeq(b, FrFirst(b) + Len(FrDelim), Len(b))
           /\ f \in Seq(Nat) /\ r \in Seq(Nat) /\ Len(f) = FrFirst(b) - 1
           /\ f \o FrDelim \in Seq(Nat) /\ (f \o FrDelim) \o r = b
           /\ FrFirst(f \o FrDelim) = Len(f) + 1
<1> SUFFICES ASSUME NEW f, f = SubSeq(b, 1, FrFirst(b) - 1),
                    NEW r, r = SubSeq(b, FrFirst(b) + Len(FrDelim), Len(b))
             PROVE  /\ f \in Seq(Nat) /\ r \in Seq(Nat) /\ Len(f) = FrFirst(b) - 1
                    /\ f \o FrDelim \in Seq(Nat) /\ (f \o FrDelim) \o r = b
                    /\ FrFirst(f \o FrDelim) = Len(f) + 1
  BY Zenon
<1>0. PICK k : k = FrFirst(b) /\ f = SubSeq(b, 1, k - 1) /\ r = SubSeq(b, k + Len(FrDelim), Len(b))
  BY Zenon
<1> DEFINE L == Len(FrDelim)
           w == f \o FrDelim
           n == k + L - 1
<1>1. Len(b) \in Nat /\ L \in Nat /\ L >= 1 /\ FrDelim \in Seq(Nat)
  BY FrAssumption
<1>2. FrIsFirst(b, k) /\ k \in Nat
  BY <1>0, FrFirstIs
<1>3. k >= 1 /\ n <= Len(b) /\ \A i \in 1 .. L : b[k + i - 1] = FrDelim[i]
  BY <1>2, FrFoundIs DEF FrIsFirst
<1> HIDE DEF L
<1>4. n \in Nat /\ n + 1 = k + L /\ k - 1 \in Nat /\ k - 1 <= Len(b) /\ n = k + L - 1
  BY <1>1, <1>2, <1>3
<1>5. f \in Seq(Nat) /\ Len(f) = k - 1 /\ \A i \in 1 .. k - 1 : f[i] = b[i]
  BY <1>0, <1>4, FrCut
<1> HIDE DEF n
<1>6. /\ SubSeq(b, 1, n) \in Seq(Nat) /\ Len(SubSeq(b, 1, n)) = n
      /\ \A i \in 1 .. n : SubSeq(b, 1, n)[i] = b[i]
      /\ r \in Seq(Nat) /\ SubSeq(b, 1, n) \o r = b
  <2>1. r = SubSeq(b, n + 1, Len(b))
    BY <1>0, <1>4 DEF L
  <2>2. n \in Nat /\ n <= Len(b)
    BY <1>3, <1>4
  <2>3. /\ SubSeq(b, 1, n) \in Seq(Nat) /\ Len(SubSeq(b, 1, n)) = n
        /\ \A i \in 1 .. n : SubSeq(b, 1, n)[i] = b[i]
        /\ SubSeq(b, n + 1, Len(b)) \in Seq(Nat)
        /\ SubSeq(b, 1, n) \o SubSeq(b, n + 1, Len(b)) = b
    BY <2>2, FrCut, Zenon
  <2> QED BY <2>1, <2>3, Zenon
<1>7. /\ w \in Seq(Nat) /\ Len(w) = n
      /\ \A i \in 1 .. n : w[i] = IF i <= k - 1 THEN f[i] ELSE FrDelim[i - (k - 1)]
  <2>1. /\ w \in Seq(Nat) /\ Len(w) = Len(f) + Len(FrDelim)
        /\ \A i \in 1 .. Len(f) + Len(FrDelim) : w[i] = IF i <= Len(f) THEN f[i] ELSE FrDelim[i - Len(f)]
    BY <1>1, <1>5
  <2>2. Len(f) + Len(FrDelim) = n
    <3>1. Len(f) = k - 1 /\ L \in Nat /\ k \in Nat /\ n = k + L - 1
      BY <1>1, <1>2, <1>4, <1>5
    <3>2. (k - 1) + L = k + L - 1
      BY <3>1
    <3>3. Len(f) + L = n
      BY <3>1, <3>2, Zenon
    <3> QED BY <3>3 DEF L
  <2> HIDE DEF w
  <2> QED BY <1>5, <2>1, <2>2
<1> HIDE DEF w
<1>8. ASSUME NEW i \in 1 .. n PROVE w[i] = b[i]
  <2>1. CASE i <= k - 1
    <3>1. i \in 1 .. k - 1
      BY <1>4, <2>1
    <3> QED BY <1>5, <1>7, <2>1, <3>1
  <2>2. CASE ~(i <= k - 1)
    <3>1. i - (k - 1) \in 1 .. L /\ k + (i - (k - 1)) - 1 = i
      <4>1. k \in Nat /\ L \in Nat /\ n \in Nat /\ n = k + L - 1
        BY <1>1, <1>2, <1>4
      <4> QED BY <2>2, <4>1, FrOffset
    <3> QED BY <1>3, <1>7, <2>2, <3>1
  <2> QED BY <2>1, <2>2
<1>9. w = SubSeq(b, 1, n)
  <2> DEFINE p == SubSeq(b, 1, n)
  <2>1. p \in Seq(Nat) /\ Len(p) = n /\ \A i \in 1 .. n : p[i] = b[i]
    BY <1>6
  <2> HIDE DEF p
  <2>2. w = p
    BY <1>7, <1>8, <2>1, SeqEqual
  <2> QED BY <2>2 DEF p
<1>10. w \o r = b
  BY <1>6, <1>9
<1>11. FrIsFirst(w, k)
  <2>1. ASSUME NEW j \in Nat, j <= k PROVE j \in FrFound(w) <=> j \in FrFound(b)
    <3>1. \A i \in 1 .. L : j >= 1 => j + i - 1 \in 1 .. n
      BY <1>1, <1>2, <2>1 DEF n
    <3>2. j + L - 1 <= n /\ j + L - 1 <= Len(b)
      <4>1. /\ k \in Nat /\ L \in Nat /\ n \in Nat /\ n = k + L - 1 /\ Len(b) \in Nat
            /\ n <= Len(b)
        BY <1>1, <1>2, <1>3, <1>4
      <4> QED BY <2>1, <4>1
    <3>3. j \in FrFound(w) <=> j >= 1 /\ \A i \in 1 .. L : w[j + i - 1] = FrDelim[i]
      BY <1>7, <3>2, FrFoundIs DEF L
    <3>4. j \in FrFound(b) <=> j >= 1 /\ \A i \in 1 .. L : b[j + i - 1] = FrDelim[i]
      BY <3>2, FrFoundIs DEF L
    <3> QED BY <1>8, <3>1, <3>3, <3>4
  <2>2. k \in FrFound(w)
    BY <1>2, <2>1 DEF FrIsFirst
  <2>3. ASSUME NEW j \in FrFound(w) PROVE k <= j
    <3>1. j \in Nat
      BY DEF FrFound
    <3>2. CASE j <= k
      BY <1>2, <2>1, <3>1, <3>2 DEF FrIsFirst
    <3> QED BY <1>2, <3>1, <3>2
  <2> QED BY <2>2, <2>3 DEF FrIsFirst
<1>12. FrFirst(w) = k /\ k = Len(f) + 1
  BY <1>2, <1>5, <1>7, <1>11, FrFirstUnique
<1> QED
  BY <1>0, <1>5, <1>6, <1>7, <1>10, <1>12 DEF w

\* The header, its payload and the rest are the buffer.
LEMMA FrHeaded ==
    ASSUME NEW b \in Seq(Nat), NEW size \in Nat, 1 + size <= Len(b)
    PROVE  \E f, r :
           /\ f = SubSeq(b, 2, 1 + size) /\ r = SubSeq(b, size + 2, Len(b))
           /\ f \in Seq(Nat) /\ r \in Seq(Nat) /\ Len(f) = size
           /\ <<b[1]>> \o f \in Seq(Nat) /\ (<<b[1]>> \o f) \o r = b
<1> SUFFICES ASSUME NEW f, f = SubSeq(b, 2, 1 + size), NEW r, r = SubSeq(b, size + 2, Len(b))
             PROVE  /\ f \in Seq(Nat) /\ r \in Seq(Nat) /\ Len(f) = size
                    /\ <<b[1]>> \o f \in Seq(Nat) /\ (<<b[1]>> \o f) \o r = b
  BY Zenon
<1> DEFINE h == <<b[1]>>
           w == h \o f
           n == 1 + size
<1>1. Len(b) \in Nat /\ b[1] \in Nat /\ h \in Seq(Nat) /\ Len(h) = 1 /\ h[1] = b[1]
  OBVIOUS
<1>2. f \in Seq(Nat) /\ Len(f) = size /\ \A i \in 1 .. size : f[i] = b[i + 1]
  BY <1>1
<1>3. n \in Nat /\ n <= Len(b) /\ size + 2 = n + 1
  OBVIOUS
<1> HIDE DEF n, h
<1>4. /\ SubSeq(b, 1, n) \in Seq(Nat) /\ Len(SubSeq(b, 1, n)) = n
      /\ \A i \in 1 .. n : SubSeq(b, 1, n)[i] = b[i]
      /\ r \in Seq(Nat) /\ SubSeq(b, 1, n) \o r = b
  BY <1>3, FrCut
<1>5. /\ w \in Seq(Nat) /\ Len(w) = n
      /\ \A i \in 1 .. n : w[i] = IF i <= 1 THEN h[i] ELSE f[i - 1]
  <2>1. /\ w \in Seq(Nat) /\ Len(w) = Len(h) + Len(f)
        /\ \A i \in 1 .. Len(h) + Len(f) : w[i] = IF i <= Len(h) THEN h[i] ELSE f[i - Len(h)]
    <3>1. h \in Seq(Nat) /\ f \in Seq(Nat)
      BY <1>1, <1>2
    <3> HIDE DEF w
    <3>2. w = h \o f
      BY DEF w
    <3> QED BY <3>1, <3>2, ConcatProperties
  <2> HIDE DEF w
  <2> QED BY <1>1, <1>2, <2>1 DEF n
<1> HIDE DEF w
<1>6. ASSUME NEW i \in 1 .. n PROVE w[i] = b[i]
  <2>1. CASE i <= 1
    BY <1>1, <1>3, <1>5, <2>1
  <2>2. CASE ~(i <= 1)
    <3>1. i - 1 \in 1 .. size /\ (i - 1) + 1 = i
      BY <1>3, <2>2 DEF n
    <3>2. f[i - 1] = b[i]
      BY <1>2, <3>1
    <3> QED BY <1>5, <2>2, <3>2
  <2> QED BY <2>1, <2>2
<1>7. w = SubSeq(b, 1, n)
  <2> DEFINE p == SubSeq(b, 1, n)
  <2>1. p \in Seq(Nat) /\ Len(p) = n /\ \A i \in 1 .. n : p[i] = b[i]
    BY <1>4
  <2> HIDE DEF p
  <2>2. w = p
    BY <1>5, <1>6, <2>1, SeqEqual
  <2> QED BY <2>2 DEF p
<1> QED
  BY <1>2, <1>4, <1>5, <1>7 DEF w, h

-----------------------------------------------------------------------------
(* The framers. *)

FrWires(mode, out) ==
    [i \in 1 .. Len(out) |-> CASE mode = "delimiter" -> out[i] \o FrDelim
                               [] mode = "length" -> <<Len(out[i])>> \o out[i]
                               [] mode = "whole" -> <<Len(out[i]) + 1>> \o out[i]
                               [] OTHER -> out[i]]
FrPut(mode, f) == CASE mode = "delimiter" -> f \o FrDelim
                    [] mode = "length" -> <<Len(f)>> \o f
                    [] mode = "whole" -> <<Len(f) + 1>> \o f
                    [] OTHER -> f
FrStream(mode, out) == SeqExt!FlattenSeq(FrWires(mode, out))
FrModes == {"stream", "delimiter", "length", "whole", "fixed"}

FrTypes ==
    /\ frMode \in FrModes
    /\ frBuf \in Seq(Nat) /\ frFresh \in Seq(Nat) /\ frIn \in Seq(Nat) /\ frOut \in Seq(Seq(Nat))

(* The bytes received and not yet in a frame. *)
FrHeld == IF frMode = "stream" THEN (IF frBusy THEN frFresh ELSE <<>>) ELSE frBuf

FrFlow ==
    /\ FrStream(frMode, frOut) \o FrHeld = frIn
    /\ frMode = "stream" => frBuf = <<>>
    /\ frMode = "delimiter" =>
         \A i \in 1 .. Len(frOut) : FrFirst(frOut[i] \o FrDelim) = Len(frOut[i]) + 1
    /\ frMode = "fixed" => \A i \in 1 .. Len(frOut) : Len(frOut[i]) = FrSize

(* What Append leaves in the buffer is no whole frame, and the head of one *)
(* that may come.                                                          *)
FrRest ==
    /\ frMode = "delimiter" => FrFound(frBuf) = {} /\ Len(frBuf) <= FrMax
    /\ frMode = "fixed" => Len(frBuf) < FrSize
    /\ frMode = "length" => frBuf = <<>> \/ (Len(frBuf) < 1 + frBuf[1] /\ frBuf[1] <= FrMax)
    /\ frMode = "whole" => frBuf = <<>> \/ (Len(frBuf) < frBuf[1] /\ frBuf[1] - 1 <= FrMax)

FrInv == FrTypes /\ (~frFailed => FrFlow) /\ (~frFailed /\ ~frBusy => FrRest)

\* A frame put back on the wire is bytes.
LEMMA FrPutType ==
    ASSUME NEW mode \in FrModes, NEW f \in Seq(Nat)
    PROVE  FrPut(mode, f) \in Seq(Nat)
<1>1. Len(f) \in Nat /\ FrDelim \in Seq(Nat)
  BY FrAssumption
<1>2. f \o FrDelim \in Seq(Nat)
  BY <1>1
<1>3. <<Len(f)>> \o f \in Seq(Nat) /\ <<Len(f) + 1>> \o f \in Seq(Nat)
  <2> DEFINE n == Len(f)
  <2>1. n \in Nat
    BY <1>1
  <2> HIDE DEF n
  <2>2. <<n>> \in Seq(Nat) /\ <<n + 1>> \in Seq(Nat)
    BY <2>1
  <2>3. <<n>> \o f \in Seq(Nat) /\ <<n + 1>> \o f \in Seq(Nat)
    BY <2>2
  <2> QED BY <2>3 DEF n
<1> QED
  BY <1>2, <1>3 DEF FrPut, FrModes

\* So are all of them.
LEMMA FrWiresType ==
    ASSUME NEW mode \in FrModes, NEW out \in Seq(Seq(Nat))
    PROVE  /\ FrWires(mode, out) \in Seq(Seq(Nat)) /\ Len(FrWires(mode, out)) = Len(out)
           /\ \A i \in 1 .. Len(out) : FrWires(mode, out)[i] = FrPut(mode, out[i])
<1>1. Len(out) \in Nat /\ \A i \in 1 .. Len(out) : out[i] \in Seq(Nat)
  OBVIOUS
<1>2. \A i \in 1 .. Len(out) : FrPut(mode, out[i]) \in Seq(Nat)
  BY <1>1, FrPutType
<1>3. FrWires(mode, out) = [i \in 1 .. Len(out) |-> FrPut(mode, out[i])]
  BY Zenon DEF FrWires, FrPut
<1> DEFINE W == [i \in 1 .. Len(out) |-> FrPut(mode, out[i])]
<1>4. W \in Seq(Seq(Nat)) /\ Len(W) = Len(out) /\ \A i \in 1 .. Len(out) : W[i] = FrPut(mode, out[i])
  BY <1>1, <1>2
<1> QED
  BY <1>3, <1>4

(* One frame more. *)
LEMMA FrStreamGrows ==
    ASSUME NEW mode \in FrModes, NEW out \in Seq(Seq(Nat)), NEW f \in Seq(Nat), NEW r \in Seq(Nat)
    PROVE  /\ FrStream(mode, out) \in Seq(Nat) /\ FrPut(mode, f) \in Seq(Nat)
           /\ FrStream(mode, Append(out, f)) \o r = FrStream(mode, out) \o (FrPut(mode, f) \o r)
<1> DEFINE W == FrWires(mode, out)
           x == FrPut(mode, f)
           t == Append(out, f)
           V == FrWires(mode, t)
<1>1. W \in Seq(Seq(Nat)) /\ Len(W) = Len(out) /\ \A i \in 1 .. Len(out) : W[i] = FrPut(mode, out[i])
  BY FrWiresType
<1>2. x \in Seq(Nat)
  BY FrPutType
<1>3. /\ t \in Seq(Seq(Nat)) /\ Len(out) \in Nat /\ Len(t) = Len(out) + 1
      /\ t[Len(out) + 1] = f /\ \A i \in 1 .. Len(out) : t[i] = out[i]
  OBVIOUS
<1> HIDE DEF t, W, x
<1>4. V \in Seq(Seq(Nat)) /\ Len(V) = Len(t) /\ \A i \in 1 .. Len(t) : V[i] = FrPut(mode, t[i])
  BY <1>3, FrWiresType
<1> HIDE DEF V
<1>5. V = Append(W, x)
  <2> DEFINE A == Append(W, x)
  <2>1. /\ A \in Seq(Seq(Nat)) /\ Len(A) = Len(W) + 1 /\ A[Len(W) + 1] = x
        /\ \A i \in 1 .. Len(W) : A[i] = W[i]
    BY <1>1, <1>2
  <2> HIDE DEF A
  <2>2. Len(A) = Len(V)
    BY <1>1, <1>3, <1>4, <2>1
  <2>3. ASSUME NEW i \in 1 .. Len(V) PROVE V[i] = A[i]
    <3>1. i \in 1 .. Len(out) \/ i = Len(out) + 1
      BY <1>3, <1>4
    <3>2. V[i] = FrPut(mode, t[i])
      BY <1>4
    <3>3. CASE i \in 1 .. Len(out)
      BY <1>1, <1>3, <2>1, <3>2, <3>3
    <3>4. CASE i = Len(out) + 1
      BY <1>1, <1>3, <2>1, <3>2, <3>4 DEF x
    <3> QED BY <3>1, <3>3, <3>4
  <2>4. V = A
    BY <1>4, <2>1, <2>2, <2>3, SeqEqual
  <2> QED BY <2>4 DEF A
<1>6. /\ SeqExt!FlattenSeq(W) \in Seq(Nat)
      /\ SeqExt!FlattenSeq(V) \o r = SeqExt!FlattenSeq(W) \o (x \o r)
  <2> DEFINE a == SeqExt!FlattenSeq(W)
  <2>1. a \in Seq(Nat) /\ SeqExt!FlattenSeq(Append(W, x)) = a \o x
    BY <1>1, <1>2, FrFlattenAppend
  <2> HIDE DEF a
  <2>2. (a \o x) \o r = a \o (x \o r)
    BY <1>2, <2>1, FrRegroupBytes, Zenon
  <2> QED BY <1>5, <2>1, <2>2, Zenon DEF a
<1> QED
  BY <1>2, <1>6, Zenon DEF FrStream, V, W, x, t

\* The frames after one is emitted.
LEMMA FrOutKeeps ==
    ASSUME NEW out \in Seq(Seq(Nat)), NEW f \in Seq(Nat)
    PROVE  /\ Append(out, f) \in Seq(Seq(Nat))
           /\ \A i \in 1 .. Len(Append(out, f)) : Append(out, f)[i] = f
                  \/ (i \in 1 .. Len(out) /\ Append(out, f)[i] = out[i])
<1> DEFINE t == Append(out, f)
<1>1. /\ t \in Seq(Seq(Nat)) /\ Len(out) \in Nat /\ Len(t) = Len(out) + 1
      /\ t[Len(out) + 1] = f /\ \A i \in 1 .. Len(out) : t[i] = out[i]
  OBVIOUS
<1> HIDE DEF t
<1>2. \A i \in 1 .. Len(t) : i \in 1 .. Len(out) \/ i = Len(out) + 1
  BY <1>1
<1>3. \A i \in 1 .. Len(t) : t[i] = f \/ (i \in 1 .. Len(out) /\ t[i] = out[i])
  BY <1>1, <1>2
<1> QED
  BY <1>1, <1>3 DEF t

(* A frame is cut off the buffer. *)
LEMMA FrEmits ==
    ASSUME FrInv, ~frFailed, frMode \in FrModes \ {"stream"}, NEW f \in Seq(Nat), NEW r \in Seq(Nat),
           FrPut(frMode, f) \o r = frBuf, frOut' = Append(frOut, f), frBuf' = r,
           frMode = "delimiter" => FrFirst(f \o FrDelim) = Len(f) + 1,
           frMode = "fixed" => Len(f) = FrSize,
           UNCHANGED <<frMode, frIn, frFresh, frFailed, frBusy>>, frBusy
    PROVE  FrInv'
<1>1. FrTypes /\ FrFlow
  BY DEF FrInv
<1>2. /\ frOut' \in Seq(Seq(Nat))
      /\ \A i \in 1 .. Len(frOut') : frOut'[i] = f \/ (i \in 1 .. Len(frOut) /\ frOut'[i] = frOut[i])
  BY <1>1, FrOutKeeps DEF FrTypes
<1>3. FrTypes'
  BY <1>1, <1>2 DEF FrTypes
<1>4. FrStream(frMode', frOut') \o frBuf' = frIn'
  <2>1. FrStream(frMode, Append(frOut, f)) \o r = FrStream(frMode, frOut) \o (FrPut(frMode, f) \o r)
    <3>1. frMode \in FrModes /\ frOut \in Seq(Seq(Nat)) /\ f \in Seq(Nat) /\ r \in Seq(Nat)
      BY <1>1 DEF FrTypes
    <3> QED BY <3>1, FrStreamGrows, Zenon
  <2>2. FrStream(frMode, frOut) \o frBuf = frIn
    BY <1>1 DEF FrFlow, FrHeld
  <2> QED BY <2>1, <2>2
<1>5. FrFlow'
  <2>1. FrHeld' = frBuf'
    BY DEF FrHeld
  <2>2. frMode' # "stream" /\ frMode' = frMode
    OBVIOUS
  <2>3. frMode = "delimiter" => \A i \in 1 .. Len(frOut') : FrFirst(frOut'[i] \o FrDelim) = Len(frOut'[i]) + 1
    BY <1>1, <1>2, Zenon DEF FrFlow
  <2>4. frMode = "fixed" => \A i \in 1 .. Len(frOut') : Len(frOut'[i]) = FrSize
    BY <1>1, <1>2, Zenon DEF FrFlow
  <2> QED BY <1>4, <2>1, <2>2, <2>3, <2>4, Zenon DEF FrFlow
<1> QED
  BY <1>3, <1>5 DEF FrInv

(* Append stops with no whole frame in the buffer, or fails. *)
LEMMA FrStops ==
    ASSUME FrInv, frBusy, frMode \in FrModes \ {"stream"}, FrRest, FrDone,
           UNCHANGED <<frMode, frFresh, frIn>>
    PROVE  FrInv'
<1>1. FrTypes'
  BY DEF FrInv, FrTypes, FrDone
<1>2. ~frFailed => FrFlow'
  <2> SUFFICES ASSUME ~frFailed PROVE FrFlow'
    OBVIOUS
  <2>1. FrHeld' = frBuf' /\ FrHeld = frBuf
    BY DEF FrHeld
  <2>2. /\ frMode' = frMode /\ frOut' = frOut /\ frBuf' = frBuf /\ frIn' = frIn
        /\ FrFlow
    BY DEF FrDone, FrInv
  <2> QED BY <2>1, <2>2, Zenon DEF FrFlow
<1>3. FrRest'
  BY DEF FrRest, FrDone
<1>4. frFailed' = frFailed
  BY DEF FrDone
<1> QED
  BY <1>1, <1>2, <1>3, <1>4, Zenon DEF FrInv

\* Append returns an error.
LEMMA FrFails ==
    ASSUME FrInv, FrError, frBuf' = frBuf \/ frBuf' = <<>>, UNCHANGED <<frMode, frFresh, frIn>>
    PROVE  FrInv'
<1>1. FrTypes'
  <2>1. <<>> \in Seq(Nat)
    OBVIOUS
  <2>2. frBuf' \in Seq(Nat)
    BY <2>1, Zenon DEF FrInv, FrTypes
  <2> QED BY <2>2 DEF FrInv, FrTypes, FrError
<1>2. frFailed'
  BY DEF FrError
<1> QED
  BY <1>1, <1>2 DEF FrInv

\* A chunk joins what is held.
LEMMA FrReadKeeps ==
    ASSUME FrInv, NEW c \in FrChunks, FrRead(c)
    PROVE  FrInv'
<1>1. FrTypes /\ FrFlow /\ ~frFailed /\ ~frBusy
  BY DEF FrInv, FrRead
<1>2. /\ c \in Seq(Nat) /\ frBuf \in Seq(Nat) /\ frIn \in Seq(Nat) /\ <<>> \in Seq(Nat)
      /\ frMode \in FrModes /\ frOut \in Seq(Seq(Nat))
  BY <1>1, FrAssumption DEF FrTypes
<1>3. frBuf \o c \in Seq(Nat) /\ frIn \o c \in Seq(Nat)
  BY <1>2
<1>4. FrTypes'
  <2>1. /\ frMode' = frMode /\ frOut' = frOut /\ frIn' = frIn \o c
        /\ frFresh' \in {c, <<>>} /\ frBuf' \in {<<>>, frBuf \o c}
    BY DEF FrRead
  <2> QED BY <1>2, <1>3, <2>1, Zenon DEF FrTypes
<1>5. FrHeld' = FrHeld \o c /\ FrHeld \in Seq(Nat)
  <2>1. CASE frMode = "stream"
    <3>1. FrHeld' = c /\ FrHeld = <<>>
      BY <1>1, <2>1 DEF FrHeld, FrRead
    <3> QED BY <1>2, <3>1
  <2>2. CASE frMode # "stream"
    BY <1>2, <2>2 DEF FrHeld, FrRead
  <2> QED BY <2>1, <2>2
<1>6. FrStream(frMode', frOut') \o FrHeld' = frIn'
  <2> DEFINE a == FrStream(frMode, frOut)
  <2>1. a \in Seq(Nat)
    BY <1>2, FrStreamGrows, Zenon
  <2>2. a \o FrHeld = frIn
    BY <1>1, Zenon DEF FrFlow
  <2>3. frMode' = frMode /\ frOut' = frOut /\ frIn' = frIn \o c
    BY DEF FrRead
  <2> HIDE DEF a
  <2>4. (a \o FrHeld) \o c = a \o (FrHeld \o c)
    <3>1. a \in Seq(Nat) /\ FrHeld \in Seq(Nat) /\ c \in Seq(Nat)
      BY <1>2, <1>5, <2>1, Zenon
    <3>2. PICK B : B = Nat
      OBVIOUS
    <3>3. a \in Seq(B) /\ FrHeld \in Seq(B) /\ c \in Seq(B)
      BY <3>1, <3>2, Zenon
    <3> QED BY <3>3, FrRegroup
  <2> QED BY <1>5, <2>2, <2>3, <2>4, Zenon DEF a
<1>7. FrFlow'
  <2>1. frMode' = frMode /\ frOut' = frOut /\ (frMode = "stream" => frBuf' = <<>>)
    BY DEF FrRead
  <2> QED BY <1>1, <1>6, <2>1, Zenon DEF FrFlow
<1>8. frBusy'
  BY DEF FrRead
<1> QED
  BY <1>4, <1>7, <1>8 DEF FrInv

\* The stream framer emits the chunk.
LEMMA FrStreamKeeps ==
    ASSUME FrInv, frBusy, frMode = "stream", streamFramer, UNCHANGED <<frMode, frFresh, frIn>>
    PROVE  FrInv'
<1>1. CASE Len(frFresh) > FrMax
  <2>1. FrError /\ frBuf' = frBuf
    BY <1>1 DEF streamFramer
  <2> QED BY <2>1, FrFails
<1>2. CASE ~(Len(frFresh) > FrMax)
  <2>1. frOut' = Append(frOut, frFresh) /\ frBusy' = FALSE /\ frBuf' = frBuf /\ frFailed' = frFailed
    BY <1>2, Zenon DEF streamFramer
  <2>2. frMode \in FrModes /\ frOut \in Seq(Seq(Nat)) /\ frFresh \in Seq(Nat) /\ <<>> \in Seq(Nat)
    BY DEF FrInv, FrTypes
  <2>3. FrTypes'
    <3>1. frOut' \in Seq(Seq(Nat))
      BY <2>1, <2>2, FrOutKeeps
    <3> QED BY <2>1, <3>1 DEF FrInv, FrTypes
  <2>4. ~frFailed => FrStream(frMode', frOut') \o <<>> = frIn'
    <3>1. FrStream(frMode, Append(frOut, frFresh)) \o <<>>
            = FrStream(frMode, frOut) \o (FrPut(frMode, frFresh) \o <<>>)
      BY <2>2, FrStreamGrows, Zenon
    <3>2. FrPut(frMode, frFresh) = frFresh
      BY DEF FrPut
    <3>3. frFresh \o <<>> = frFresh
      BY <2>2
    <3>4. ~frFailed => FrStream(frMode, frOut) \o frFresh = frIn
      BY DEF FrInv, FrFlow, FrHeld
    <3> QED BY <2>1, <3>1, <3>2, <3>3, <3>4
  <2>5. ~frFailed => FrFlow'
    <3>1. FrHeld' = <<>> /\ frMode' = "stream"
      BY <2>1 DEF FrHeld
    <3>2. ~frFailed => frBuf' = <<>>
      BY <2>1 DEF FrInv, FrFlow
    <3> QED BY <2>4, <3>1, <3>2 DEF FrFlow
  <2>6. FrRest'
    BY DEF FrRest
  <2> QED BY <2>1, <2>3, <2>5, <2>6, Zenon DEF FrInv
<1> QED
  BY <1>1, <1>2

\* The delimiter framer cuts at the first delimiter.
LEMMA FrDelimiterKeeps ==
    ASSUME FrInv, frBusy, ~frFailed, frMode = "delimiter", delimiterFramer,
           UNCHANGED <<frMode, frFresh, frIn>>
    PROVE  FrInv'
<1>1. frBuf \in Seq(Nat) /\ frMode \in FrModes \ {"stream"} /\ Len(FrDelim) \in Nat
  BY FrAssumption DEF FrInv, FrTypes, FrModes
<1>2. CASE FrFound(frBuf) # {}
  <2> DEFINE k == FrFirst(frBuf)
             f == SubSeq(frBuf, 1, k - 1)
             r == SubSeq(frBuf, k + Len(FrDelim), Len(frBuf))
  <2>1. k \in Nat
    BY <1>1, <1>2, FrFirstIs
  <2>2. /\ f \in Seq(Nat) /\ r \in Seq(Nat) /\ (f \o FrDelim) \o r = frBuf
        /\ FrFirst(f \o FrDelim) = Len(f) + 1
    BY <1>1, <1>2, FrDelimited, Zenon
  <2>3. frOut' = Append(frOut, f) /\ frBuf' = r /\ UNCHANGED <<frBusy, frFailed>>
    <3>1. FrEmit(0, k - 1, Len(FrDelim))
      BY <1>2, Zenon DEF delimiterFramer
    <3>2. 0 + 1 = 1 /\ 0 + (k - 1) = k - 1 /\ 0 + (k - 1) + Len(FrDelim) + 1 = k + Len(FrDelim)
      <4> HIDE DEF k
      <4> QED BY <1>1, <2>1
    <3> HIDE DEF k
    <3> QED BY <3>1, <3>2, Zenon DEF FrEmit
  <2> HIDE DEF k, f, r
  <2>4. FrPut(frMode, f) = f \o FrDelim
    BY DEF FrPut
  <2> QED BY <1>1, <2>2, <2>3, <2>4, FrEmits
<1>3. CASE FrFound(frBuf) = {} /\ Len(frBuf) > FrMax
  <2>1. FrError /\ frBuf' = <<>>
    BY <1>3, Zenon DEF delimiterFramer
  <2> QED BY <2>1, FrFails
<1>4. CASE FrFound(frBuf) = {} /\ ~(Len(frBuf) > FrMax)
  <2>1. FrDone
    BY <1>4, Zenon DEF delimiterFramer
  <2>2. FrRest
    <3>1. Len(frBuf) <= FrMax
      BY <1>1, <1>4, FrAssumption
    <3> QED BY <1>4, <3>1 DEF FrRest
  <2> QED BY <1>1, <2>1, <2>2, FrStops
<1> QED
  BY <1>2, <1>3, <1>4

(* `over` is what the length counts besides the payload. *)
LEMMA FrLengthKeeps ==
    ASSUME FrInv, frBusy, ~frFailed, NEW covers \in BOOLEAN,
           frMode = IF covers THEN "whole" ELSE "length",
           lengthPrefixFramer(covers), UNCHANGED <<frMode, frFresh, frIn>>
    PROVE  FrInv'
<1>1. frBuf \in Seq(Nat) /\ frMode \in FrModes \ {"stream", "delimiter", "fixed"} /\ FrMax \in Nat
  BY FrAssumption DEF FrInv, FrTypes, FrModes
<1>2. CASE frBuf = <<>>
  <2>1. FrDone
    BY <1>2, Zenon DEF lengthPrefixFramer
  <2>2. FrRest
    BY <1>1, <1>2 DEF FrRest
  <2> QED BY <1>1, <2>1, <2>2, FrStops
<1>3. CASE frBuf # <<>> /\ covers /\ frBuf[1] < 1
  <2>1. FrError /\ frBuf' = frBuf
    BY <1>3, Zenon DEF lengthPrefixFramer
  <2> QED BY <2>1, FrFails
<1>4. CASE frBuf # <<>> /\ ~(covers /\ frBuf[1] < 1)
  <2> DEFINE size == IF covers THEN frBuf[1] - 1 ELSE frBuf[1]
  <2>1. IF size > FrMax THEN FrError /\ UNCHANGED frBuf
        ELSE IF Len(frBuf) < 1 + size THEN FrDone ELSE FrEmit(1, size, 0)
    BY <1>4, Zenon DEF lengthPrefixFramer
  <2>2. frBuf[1] \in Nat /\ Len(frBuf) \in Nat
    BY <1>1, <1>4
  <2>3. size \in Nat
    BY <1>4, <2>2
  <2>4. (covers => frMode = "whole" /\ frBuf[1] = size + 1) /\ (~covers => frMode = "length" /\ frBuf[1] = size)
    BY <2>2
  <2> HIDE DEF size
  <2>5. CASE size > FrMax
    BY <2>1, <2>5, FrFails
  <2>6. CASE ~(size > FrMax) /\ Len(frBuf) < 1 + size
    <3>1. FrDone
      BY <2>1, <2>6, Zenon
    <3>2. FrRest
      BY <1>1, <2>2, <2>3, <2>4, <2>6 DEF FrRest
    <3> QED BY <1>1, <3>1, <3>2, FrStops
  <2>7. CASE ~(size > FrMax) /\ ~(Len(frBuf) < 1 + size)
    <3> DEFINE f == SubSeq(frBuf, 2, 1 + size)
               r == SubSeq(frBuf, size + 2, Len(frBuf))
    <3>1. 1 + size <= Len(frBuf)
      BY <2>2, <2>3, <2>7
    <3>2. /\ f \in Seq(Nat) /\ r \in Seq(Nat) /\ Len(f) = size
          /\ (<<frBuf[1]>> \o f) \o r = frBuf
      BY <1>1, <2>3, <3>1, FrHeaded, Zenon
    <3>3. frOut' = Append(frOut, f) /\ frBuf' = r /\ UNCHANGED <<frBusy, frFailed>>
      <4>1. FrEmit(1, size, 0)
        BY <2>1, <2>7, Zenon
      <4>2. 1 + 1 = 2 /\ 1 + size + 0 + 1 = size + 2
        BY <2>3
      <4> QED BY <4>1, <4>2, Zenon DEF FrEmit
    <3> HIDE DEF f, r
    <3>4. FrPut(frMode, f) = <<frBuf[1]>> \o f
      <4>1. CASE covers
        BY <2>4, <3>2, <4>1 DEF FrPut
      <4>2. CASE ~covers
        BY <2>4, <3>2, <4>2 DEF FrPut
      <4> QED BY <4>1, <4>2
    <3> QED BY <1>1, <3>2, <3>3, <3>4, FrEmits
  <2> QED BY <2>5, <2>6, <2>7
<1> QED
  BY <1>2, <1>3, <1>4

\* The framer of fixed lengths.
LEMMA FrFixedKeeps ==
    ASSUME FrInv, frBusy, ~frFailed, frMode = "fixed", fixedLengthFramer,
           UNCHANGED <<frMode, frFresh, frIn>>
    PROVE  FrInv'
<1>1. /\ frBuf \in Seq(Nat) /\ frMode \in FrModes \ {"stream"} /\ FrSize \in Nat
      /\ Len(frBuf) \in Nat
  BY FrAssumption DEF FrInv, FrTypes, FrModes
<1>2. CASE Len(frBuf) >= FrSize
  <2> DEFINE f == SubSeq(frBuf, 1, FrSize)
             r == SubSeq(frBuf, FrSize + 1, Len(frBuf))
  <2>1. f \in Seq(Nat) /\ r \in Seq(Nat) /\ Len(f) = FrSize /\ f \o r = frBuf
    BY <1>1, <1>2, FrCut
  <2>2. frOut' = Append(frOut, f) /\ frBuf' = r /\ UNCHANGED <<frBusy, frFailed>>
    <3>1. FrEmit(0, FrSize, 0)
      BY <1>2, Zenon DEF fixedLengthFramer
    <3>2. 0 + 1 = 1 /\ 0 + FrSize = FrSize /\ 0 + FrSize + 0 + 1 = FrSize + 1
      BY <1>1
    <3> QED BY <3>1, <3>2, Zenon DEF FrEmit
  <2> HIDE DEF f, r
  <2>3. FrPut(frMode, f) = f
    BY DEF FrPut
  <2> QED BY <1>1, <2>1, <2>2, <2>3, FrEmits
<1>3. CASE ~(Len(frBuf) >= FrSize)
  <2>1. FrDone
    BY <1>3, Zenon DEF fixedLengthFramer
  <2>2. FrRest
    BY <1>1, <1>3 DEF FrRest
  <2> QED BY <1>1, <2>1, <2>2, FrStops
<1> QED
  BY <1>2, <1>3

(* A framer that failed is not called again, but the model lets Append     *)
(* finish only by setting frBusy to FALSE, so a failed framer is idle.     *)
FrIdle == frFailed => ~frBusy

\* Every step keeps the invariant of the framers.
LEMMA FrNextKeeps ==
    ASSUME FrInv, FrIdle, [FrNext]_frVars
    PROVE  FrInv' /\ FrIdle'
<1>1. CASE UNCHANGED frVars
  BY <1>1 DEF frVars, FrInv, FrIdle, FrTypes, FrFlow, FrHeld, FrRest
<1>2. CASE \E c \in FrChunks : FrRead(c)
  <2>1. FrInv'
    BY <1>2, FrReadKeeps
  <2>2. FrIdle'
    BY <1>2 DEF FrRead, FrIdle
  <2> QED BY <2>1, <2>2
<1>3. CASE FrTurn
  <2>1. frBusy /\ ~frFailed /\ UNCHANGED <<frMode, frFresh, frIn>>
    BY <1>3 DEF FrTurn, FrIdle
  <2>2. frMode \in FrModes
    BY DEF FrInv, FrTypes
  <2>3. CASE frMode = "stream"
    <3>1. streamFramer
      BY <1>3, <2>3 DEF FrTurn
    <3>2. FrInv'
      BY <2>1, <2>3, <3>1, FrStreamKeeps
    <3>3. FrIdle'
      BY <2>1, <3>1, Zenon DEF FrIdle, streamFramer, FrError
    <3> QED BY <3>2, <3>3
  <2>4. CASE frMode = "delimiter"
    <3>1. delimiterFramer
      BY <1>3, <2>4 DEF FrTurn
    <3>2. FrInv'
      BY <2>1, <2>4, <3>1, FrDelimiterKeeps
    <3>3. FrIdle'
      BY <2>1, <3>1, Zenon DEF FrIdle, delimiterFramer, FrError, FrEmit, FrDone
    <3> QED BY <3>2, <3>3
  <2>5. CASE frMode = "length"
    <3>1. lengthPrefixFramer(FALSE)
      BY <1>3, <2>5 DEF FrTurn
    <3>2. FrInv'
      BY <2>1, <2>5, <3>1, FrLengthKeeps
    <3>3. FrIdle'
      BY <2>1, <3>1, Zenon DEF FrIdle, lengthPrefixFramer, FrError, FrEmit, FrDone
    <3> QED BY <3>2, <3>3
  <2>6. CASE frMode = "whole"
    <3>1. lengthPrefixFramer(TRUE)
      BY <1>3, <2>6 DEF FrTurn
    <3>2. FrInv'
      BY <2>1, <2>6, <3>1, FrLengthKeeps
    <3>3. FrIdle'
      BY <2>1, <3>1, Zenon DEF FrIdle, lengthPrefixFramer, FrError, FrEmit, FrDone
    <3> QED BY <3>2, <3>3
  <2>7. CASE frMode = "fixed"
    <3>1. fixedLengthFramer
      BY <1>3, <2>7 DEF FrTurn
    <3>2. FrInv'
      BY <2>1, <2>7, <3>1, FrFixedKeeps
    <3>3. FrIdle'
      BY <2>1, <3>1, Zenon DEF FrIdle, fixedLengthFramer, FrEmit, FrDone
    <3> QED BY <3>2, <3>3
  <2> QED BY <2>2, <2>3, <2>4, <2>5, <2>6, <2>7 DEF FrModes
<1> QED
  BY <1>1, <1>2, <1>3 DEF FrNext

\* Nothing has been received.
LEMMA FrInitHolds == FrInit => FrInv /\ FrIdle
<1> SUFFICES ASSUME FrInit PROVE FrInv /\ FrIdle
  OBVIOUS
<1>1. FrTypes /\ FrIdle /\ frOut = <<>> /\ frBuf = <<>> /\ frIn = <<>> /\ ~frBusy
  BY DEF FrInit, FrTypes, FrIdle, FrModes
<1>2. FrHeld = <<>>
  BY <1>1 DEF FrHeld
<1>3. FrStream(frMode, frOut) = <<>>
  <2> DEFINE W == FrWires(frMode, frOut)
  <2>1. W \in Seq(Seq(Nat)) /\ Len(W) = 0
    BY <1>1, FrWiresType DEF FrTypes
  <2> HIDE DEF W
  <2>2. SeqExt!FlattenSeq(W) = <<>>
    BY <2>1, FrFlattenIs
  <2> QED BY <2>2 DEF FrStream, W
<1>4. FrFlow
  <2>1. <<>> \o <<>> = <<>>
    OBVIOUS
  <2>2. 1 .. Len(frOut) = {}
    BY <1>1
  <2> QED BY <1>1, <1>2, <1>3, <2>1, <2>2 DEF FrFlow
<1>5. FrRest
  <2>1. FrFound(<<>>) = {} /\ Len(<<>>) = 0
    BY DEF FrFound
  <2> QED BY <1>1, <2>1, FrAssumption DEF FrRest
<1> QED
  BY <1>1, <1>4, <1>5 DEF FrInv

\* The invariant says what FrSound does.
LEMMA FrInvIsSound == FrInv => FrSound
<1> SUFFICES ASSUME FrInv, ~frFailed, ~frBusy PROVE FrSound
  BY DEF FrSound, FrExact, FrBounded
<1>1. FrTypes /\ FrFlow /\ FrRest
  BY DEF FrInv
<1>2. FrHeld = frBuf
  BY <1>1 DEF FrHeld, FrFlow
<1>3. [i \in 1 .. Len(frOut) |-> FrWire(frOut[i])] = FrWires(frMode, frOut)
  BY Zenon DEF FrWire, FrWires
<1>4. SeqExt!FlattenSeq([i \in 1 .. Len(frOut) |-> FrWire(frOut[i])]) \o frBuf = frIn
  BY <1>1, <1>2, <1>3, Zenon DEF FrFlow, FrStream
<1>5. frMode = "delimiter" => \A i \in 1 .. Len(frOut) : FrFirst(FrWire(frOut[i])) = Len(frOut[i]) + 1
  <2>1. frMode = "delimiter" => \A f : FrWire(f) = f \o FrDelim
    BY DEF FrWire
  <2> QED BY <1>1, <2>1, Zenon DEF FrFlow
<1>6. FrExact
  BY <1>1, <1>4, <1>5, Zenon DEF FrExact, FrFlow, FrRest
<1>7. FrBounded
  <2>1. Len(frBuf) \in Nat /\ FrMax \in Nat /\ FrSize \in Nat \ {0} /\ frBuf \in Seq(Nat)
    BY <1>1, FrAssumption DEF FrTypes
  <2>2. frBuf # <<>> => frBuf[1] \in Nat
    BY <2>1
  <2>3. frBuf = <<>> => Len(frBuf) = 0
    OBVIOUS
  <2>4. frMode \in {"stream", "delimiter", "length", "whole", "fixed"}
    BY <1>1 DEF FrTypes, FrModes
  <2> QED BY <1>1, <2>1, <2>2, <2>3, <2>4 DEF FrBounded, FrRest, FrFlow
<1> QED
  BY <1>6, <1>7 DEF FrSound

\* Framers: nothing is lost however the stream is cut into reads, and what is
\* kept is bounded.
THEOREM FrHolds == FrSpec => []FrSound
<1>1. FrInit => FrInv /\ FrIdle
  BY FrInitHolds
<1>2. FrInv /\ FrIdle /\ [FrNext]_frVars => (FrInv /\ FrIdle)'
  BY FrNextKeeps
<1>3. FrInv => FrSound
  BY FrInvIsSound
<1> QED
  BY <1>1, <1>2, <1>3, PTL DEF FrSpec

-----------------------------------------------------------------------------
(***************************************************************************)
(* The log buffer.                                                         *)
(***************************************************************************)

LbTypes ==
    /\ lbRing \in [0 .. LbCap - 1 -> Nat] /\ lbHead \in 0 .. LbCap - 1 /\ lbFull \in BOOLEAN
    /\ lbSeq \in Nat /\ lbNotify \in [LbLoggers -> Nat] /\ lbDepth \in [LbLoggers -> Nat]
    /\ lbPushed \in Seq(Nat) /\ lbSent \in Nat /\ lbSent <= Len(lbPushed)
    /\ lbFrom \in Nat /\ lbFrom <= lbSent /\ lbAsk \in Nat
    /\ lbMode \in {"closed", "fetching", "merging", "streaming"}

(* The slots before the head hold the newest entries in order; those from *)
(* the head on, once the ring has wrapped, the ones before them.          *)
LbRingIs ==
    /\ lbFull = FALSE => lbSeq = lbHead
    /\ lbFull = TRUE => LbCap <= lbSeq
    /\ \A i \in 0 .. LbCap - 1 :
         /\ i < lbHead => lbRing[i] = lbSeq - lbHead + i + 1
         /\ i >= lbHead /\ lbFull = TRUE => lbRing[i] = lbSeq - lbHead - LbCap + i + 1

LbEntry == 1 .. lbSeq

(* Every entry was handed to the hub once, or is with its logger, or was  *)
(* dropped.                                                               *)
LbStream ==
    /\ \A k \in 1 .. Len(lbPushed) : lbPushed[k] \in LbEntry
    /\ \A j, k \in 1 .. Len(lbPushed) : lbPushed[j] = lbPushed[k] => j = k
    /\ \A g \in LbLoggers : /\ lbNotify[g] <= lbSeq
                            /\ lbNotify[g] # 0 => \A k \in 1 .. Len(lbPushed) : lbPushed[k] # lbNotify[g]
    /\ \A g, h \in LbLoggers : lbNotify[g] = lbNotify[h] /\ lbNotify[g] # 0 => g = h
    /\ \A e \in LbEntry : \/ \E g \in LbLoggers : lbNotify[g] = e
                           \/ e \in lbDropped
                           \/ \E k \in 1 .. Len(lbPushed) : lbPushed[k] = e

(* The answer: the entries up to lbTop, or nothing.                       *)
LbAnswer ==
    /\ lbTop \in Nat /\ lbTop <= lbSeq /\ lbSince \in Nat /\ lbSince <= lbSeq
    /\ lbInitial = lbSince + 1 .. lbTop
    /\ lbTop = 0 \/ lbSince < lbTop

(* What was pushed before the panel subscribed is in the answer.          *)
LbMerging ==
    lbMode = "merging" =>
      \A k \in 1 .. lbFrom : lbPushed[k] <= lbSince \/ lbPushed[k] \in lbInitial

LbArrived(x) == \E i \in 1 .. lbSent : lbPushed[i] = x
LbOver(k) == \E i \in 1 .. k - 1 : lbPushed[i] > lbPushed[k]

(* The rows of an open panel.                                             *)
LbRows ==
    /\ lbTwice = FALSE /\ lbLast \in Nat
    /\ lbInitial \subseteq lbShown /\ lbTop <= lbLast
    /\ lbLast = 0 \/ lbLast \in lbShown
    /\ lbLast = lbTop \/ LbArrived(lbLast)
    /\ \A x \in lbShown : (x \in Nat /\ 1 <= x /\ x <= lbTop) \/ LbArrived(x)
    /\ \A k \in 1 .. lbSent : lbPushed[k] <= lbSince \/ lbPushed[k] \in lbShown \/ LbOver(k)

LbStreaming == lbMode = "streaming" => LbRows

LbPanel == LbAnswer /\ LbMerging /\ LbStreaming

LbInv == LbTypes /\ LbRingIs /\ LbStream /\ LbPanel

\* An index that went round at most once.
LEMMA LbMod ==
    ASSUME NEW n \in Nat \ {0}, NEW x \in 0 .. 2 * n - 1
    PROVE  x % n = IF x < n THEN x ELSE x - n
<1>1. CASE x < n
  BY <1>1
<1>2. CASE ~(x < n)
  <2>1. x = n * 1 + (x - n) /\ x - n \in 0 .. n - 1
    BY <1>2
  <2> QED BY <1>2, <2>1
<1> QED
  BY <1>1, <1>2

\* Last answers with the newest entries in their order.
LEMMA LbLastHolds ==
    ASSUME LbTypes, LbRingIs, NEW n \in Nat
    PROVE  LET have == IF lbSeq < LbCap THEN lbSeq ELSE LbCap
               take == IF n < have THEN n ELSE have
           IN  /\ take \in Nat /\ take <= lbSeq /\ Len(Last(n)) = take
               /\ \A i \in 1 .. take : Last(n)[i] = lbSeq - take + i
<1> DEFINE size == IF lbFull THEN LbCap ELSE lbHead
           take == IF n > size THEN size ELSE n
           x == lbHead + LbCap - take
           start == x % LbCap
           have == IF lbSeq < LbCap THEN lbSeq ELSE LbCap
<1>1. LbCap \in Nat \ {0} /\ lbHead \in 0 .. LbCap - 1 /\ lbSeq \in Nat
  BY LbAssumption DEF LbTypes
<1>2. size = have /\ size \in Nat /\ size <= LbCap /\ size <= lbSeq
  <2>1. CASE lbFull = TRUE
    BY <1>1, <2>1 DEF LbRingIs
  <2>2. CASE lbFull = FALSE
    BY <1>1, <2>2 DEF LbRingIs
  <2> QED BY <2>1, <2>2 DEF LbTypes
<1>2a. lbFull = FALSE => size = lbHead
  OBVIOUS
<1>3. take = IF n < have THEN n ELSE have
  <2> HIDE DEF size, have
  <2> QED BY <1>2
<1> HIDE DEF size
<1>4. take \in Nat /\ take <= size
  <2>1. size \in Nat /\ n \in Nat
    BY <1>2
  <2> QED BY <2>1
<1>5. Last(n) = [i \in 1 .. take |-> lbRing[(start + i - 1) % LbCap]]
  BY Zenon DEF Last, start, x, take, size
<1>6. lbFull = FALSE => take <= lbHead
  BY <1>1, <1>2a, <1>4
<1> HIDE DEF take
<1>7. x \in 0 .. 2 * LbCap - 1
  BY <1>1, <1>2, <1>4
<1>8. start = IF x < LbCap THEN x ELSE x - LbCap
  <2> HIDE DEF x
  <2> QED BY <1>1, <1>7, LbMod
<1> HIDE DEF start
<1>9. ASSUME NEW i \in 1 .. take PROVE lbRing[(start + i - 1) % LbCap] = lbSeq - take + i
  <2> DEFINE y == start + i - 1
             z == y % LbCap
  <2>1. y \in 0 .. 2 * LbCap - 1
    BY <1>1, <1>2, <1>4, <1>8, <1>9
  <2>2. z = IF y < LbCap THEN y ELSE y - LbCap
    <3> HIDE DEF y
    <3> QED BY <1>1, <2>1, LbMod
  <2> HIDE DEF z
  <2>3. CASE take <= lbHead
    <3>1. y = lbHead - take + i - 1 /\ y < lbHead /\ y >= 0
      BY <1>1, <1>2, <1>4, <1>8, <1>9, <2>3
    <3>2. z \in 0 .. LbCap - 1 /\ z < lbHead /\ z = lbHead - take + i - 1
      <4> HIDE DEF y
      <4>1. lbHead < LbCap /\ LbCap \in Nat /\ lbHead \in Nat /\ y \in Nat
        BY <1>1, <2>1
      <4>2. y < LbCap
        BY <3>1, <4>1
      <4> QED BY <2>2, <3>1, <4>1, <4>2
    <3>3. lbRing[z] = lbSeq - lbHead + z + 1
      BY <3>2 DEF LbRingIs
    <3> QED BY <1>1, <1>4, <1>9, <3>2, <3>3 DEF z
  <2>4. CASE ~(take <= lbHead)
    <3>1. lbFull = TRUE
      BY <1>6, <2>4 DEF LbTypes
    <3>2. x < LbCap /\ y = lbHead + LbCap - take + i - 1
      BY <1>1, <1>2, <1>4, <1>8, <1>9, <2>4
    <3>3. CASE y < LbCap
      <4>1. z \in 0 .. LbCap - 1 /\ z >= lbHead /\ z = lbHead + LbCap - take + i - 1
        BY <1>1, <1>2, <1>4, <1>9, <2>2, <3>2, <3>3
      <4>2. lbRing[z] = lbSeq - lbHead - LbCap + z + 1
        BY <3>1, <4>1 DEF LbRingIs
      <4> QED BY <1>1, <1>4, <1>9, <4>1, <4>2 DEF z
    <3>4. CASE ~(y < LbCap)
      <4>1. z \in 0 .. LbCap - 1 /\ z < lbHead /\ z = lbHead - take + i - 1
        BY <1>1, <1>2, <1>4, <1>9, <2>2, <3>2, <3>4
      <4>2. lbRing[z] = lbSeq - lbHead + z + 1
        BY <4>1 DEF LbRingIs
      <4> QED BY <1>1, <1>4, <1>9, <4>1, <4>2 DEF z
    <3> QED BY <3>3, <3>4
  <2> QED BY <2>3, <2>4
<1>10. Len(Last(n)) = take /\ \A i \in 1 .. take : Last(n)[i] = lbSeq - take + i
  BY <1>4, <1>5, <1>9
<1>11. take <= lbSeq
  BY <1>1, <1>2, <1>4
<1> QED
  BY <1>3, <1>4, <1>10, <1>11, Zenon

\* Last answers with a sequence.
LEMMA LbLastIsSeq ==
    ASSUME LbTypes, NEW n \in Nat
    PROVE  DOMAIN Last(n) = 1 .. Len(Last(n)) /\ Last(n) = [i \in 1 .. Len(Last(n)) |-> Last(n)[i]]
<1> DEFINE size == IF lbFull THEN LbCap ELSE lbHead
           take == IF n > size THEN size ELSE n
           start == (lbHead + LbCap - take) % LbCap
           f == [i \in 1 .. take |-> lbRing[(start + i - 1) % LbCap]]
<1>1. take \in Nat
  BY LbAssumption DEF LbTypes
<1>2. Last(n) = f
  BY Zenon DEF Last
<1> HIDE DEF take, start
<1>3. DOMAIN f = 1 .. take /\ Len(f) = take
  BY <1>1
<1> QED
  BY <1>2, <1>3

\* An entry is stamped and put at the head.
LEMMA LbAddKeeps ==
    ASSUME LbInv, NEW g \in LbLoggers, Add(g)
    PROVE  LbInv'
<1>1. /\ LbCap \in Nat \ {0} /\ lbHead \in 0 .. LbCap - 1 /\ lbSeq \in Nat
      /\ lbRing \in [0 .. LbCap - 1 -> Nat] /\ lbNotify \in [LbLoggers -> Nat]
      /\ lbFull \in BOOLEAN
  BY LbAssumption DEF LbInv, LbTypes
<1>2. /\ lbSeq' = lbSeq + 1 /\ lbRing' = [lbRing EXCEPT ![lbHead] = lbSeq + 1]
      /\ lbNotify[g] = 0 /\ lbNotify' = [lbNotify EXCEPT ![g] = lbSeq + 1]
      /\ UNCHANGED <<lbDepth, lbHubVars, lbMode, lbFetchVars, lbRowVars>>
      /\ lbHead' = (lbHead + 1) % LbCap /\ lbFull' = (lbFull \/ lbHead' = 0)
  BY DEF Add
<1>3. lbHead' = IF lbHead + 1 < LbCap THEN lbHead + 1 ELSE 0
  <2> DEFINE x == lbHead + 1
  <2>1. x \in 0 .. 2 * LbCap - 1 /\ (~(x < LbCap) => x - LbCap = 0)
    BY <1>1
  <2> HIDE DEF x
  <2>2. x % LbCap = IF x < LbCap THEN x ELSE x - LbCap
    BY <1>1, <2>1, LbMod
  <2>3. lbHead' = x % LbCap
    BY <1>2 DEF x
  <2> QED BY <2>1, <2>2, <2>3 DEF x
<1>4. lbHead' \in 0 .. LbCap - 1
  BY <1>1, <1>3
<1>5. /\ lbHead' = 0 => lbFull' = TRUE
      /\ lbHead' # 0 => lbFull' = lbFull
  BY <1>1, <1>2, Zenon
<1>6. LbTypes'
  <2>1. lbFull' \in BOOLEAN
    BY <1>2, Zenon
  <2>2. lbRing' \in [0 .. LbCap - 1 -> Nat] /\ lbNotify' \in [LbLoggers -> Nat] /\ lbSeq' \in Nat
    BY <1>1, <1>2
  <2> QED BY <1>2, <1>4, <2>1, <2>2 DEF LbInv, LbTypes, lbHubVars, lbFetchVars
<1>7. LbRingIs'
  <2>0. LbRingIs
    BY DEF LbInv
  <2>1. ASSUME NEW i \in 0 .. LbCap - 1
        PROVE  lbRing'[i] = IF i = lbHead THEN lbSeq + 1 ELSE lbRing[i]
    BY <1>1, <1>2
  <2>2. CASE lbHead + 1 < LbCap
    <3>1. lbHead' = lbHead + 1 /\ lbHead' # 0 /\ lbFull' = lbFull
      BY <1>1, <1>3, <1>5, <2>2
    <3>2. ASSUME NEW i \in 0 .. LbCap - 1
          PROVE  /\ i < lbHead' => lbRing'[i] = lbSeq' - lbHead' + i + 1
                 /\ i >= lbHead' /\ lbFull' = TRUE => lbRing'[i] = lbSeq' - lbHead' - LbCap + i + 1
      <4>1. /\ i < lbHead => lbRing[i] = lbSeq - lbHead + i + 1
            /\ i >= lbHead /\ lbFull = TRUE => lbRing[i] = lbSeq - lbHead - LbCap + i + 1
        BY <2>0 DEF LbRingIs
      <4>2. CASE i = lbHead
        BY <1>1, <1>2, <2>1, <3>1, <4>2
      <4>3. CASE i # lbHead
        <5>1. lbRing'[i] = lbRing[i] /\ (i < lbHead' <=> i < lbHead) /\ (i >= lbHead' => i >= lbHead)
          BY <1>1, <2>1, <3>1, <4>3
        <5>2. lbSeq' - lbHead' = lbSeq - lbHead
          BY <1>1, <1>2, <3>1
        <5> QED BY <3>1, <4>1, <5>1, <5>2
      <4> QED BY <4>2, <4>3
    <3>3. /\ lbFull' = FALSE => lbSeq' = lbHead'
          /\ lbFull' = TRUE => LbCap <= lbSeq'
      BY <1>1, <1>2, <2>0, <3>1 DEF LbRingIs
    <3> QED BY <3>2, <3>3 DEF LbRingIs
  <2>3. CASE ~(lbHead + 1 < LbCap)
    <3>1. lbHead' = 0 /\ lbFull' = TRUE /\ lbHead = LbCap - 1
      BY <1>1, <1>3, <1>5, <2>3
    <3>2. ASSUME NEW i \in 0 .. LbCap - 1
          PROVE  /\ ~(i < lbHead')
                 /\ lbRing'[i] = lbSeq' - lbHead' - LbCap + i + 1
      <4>1. /\ i < lbHead => lbRing[i] = lbSeq - lbHead + i + 1
        BY <2>0 DEF LbRingIs
      <4>2. CASE i = lbHead
        BY <1>1, <1>2, <2>1, <3>1, <4>2
      <4>3. CASE i # lbHead
        <5>1. lbRing'[i] = lbSeq - lbHead + i + 1
          BY <1>1, <2>1, <3>1, <4>1, <4>3
        <5> QED BY <1>1, <1>2, <3>1, <5>1
      <4> QED BY <4>2, <4>3
    <3>3. LbCap <= lbSeq'
      BY <1>1, <1>2, <2>0, <3>1 DEF LbRingIs
    <3> QED BY <3>1, <3>2, <3>3 DEF LbRingIs
  <2> QED BY <2>2, <2>3
<1>8. LbStream'
  <2>0. /\ lbPushed' = lbPushed /\ lbDropped' = lbDropped
        /\ lbPushed \in Seq(Nat) /\ Len(lbPushed) \in Nat /\ \A k \in 1 .. Len(lbPushed) : lbPushed[k] \in Nat
    BY <1>2 DEF LbInv, LbTypes, lbHubVars
  <2>1. lbNotify'[g] = lbSeq + 1 /\ \A h \in LbLoggers : h # g => lbNotify'[h] = lbNotify[h]
    BY <1>1, <1>2
  <2>2. \A h \in LbLoggers : lbNotify[h] <= lbSeq /\ lbNotify[h] \in Nat
    BY <1>1 DEF LbInv, LbStream
  <2>3. \A k \in 1 .. Len(lbPushed) : lbPushed[k] \in 1 .. lbSeq
    BY DEF LbInv, LbStream, LbEntry
  <2>4. \A k \in 1 .. Len(lbPushed) : lbPushed[k] \in 1 .. lbSeq + 1 /\ lbPushed[k] # lbSeq + 1
    BY <1>1, <2>3
  <2>5. \A j, k \in 1 .. Len(lbPushed) : lbPushed[j] = lbPushed[k] => j = k
    BY DEF LbInv, LbStream
  <2>6. ASSUME NEW h \in LbLoggers
        PROVE  /\ lbNotify'[h] <= lbSeq + 1
               /\ lbNotify'[h] # 0 => \A k \in 1 .. Len(lbPushed) : lbPushed[k] # lbNotify'[h]
    <3>1. CASE h = g
      BY <1>1, <2>1, <2>4, <3>1
    <3>2. CASE h # g
      BY <1>1, <2>1, <2>2, <3>2 DEF LbInv, LbStream
    <3> QED BY <3>1, <3>2
  <2>7. ASSUME NEW h \in LbLoggers, NEW i \in LbLoggers, lbNotify'[h] = lbNotify'[i], lbNotify'[h] # 0
        PROVE  h = i
    <3>1. CASE h = g /\ i # g
      BY <1>1, <2>1, <2>2, <2>7, <3>1
    <3>2. CASE h # g /\ i = g
      BY <1>1, <2>1, <2>2, <2>7, <3>2
    <3>3. CASE h # g /\ i # g
      BY <2>1, <2>7, <3>3 DEF LbInv, LbStream
    <3> QED BY <3>1, <3>2, <3>3
  <2>8. ASSUME NEW e \in 1 .. lbSeq + 1
        PROVE  \/ \E h \in LbLoggers : lbNotify'[h] = e
               \/ e \in lbDropped
               \/ \E k \in 1 .. Len(lbPushed) : lbPushed[k] = e
    <3>1. CASE e = lbSeq + 1
      BY <2>1, <3>1
    <3>2. CASE e # lbSeq + 1
      <4>1. e \in LbEntry /\ e # 0
        BY <1>1, <3>2 DEF LbEntry
      <4>2. \A h \in LbLoggers : lbNotify[h] = e => h # g
        BY <1>2, <4>1
      <4> QED BY <2>1, <4>1, <4>2 DEF LbInv, LbStream
    <3> QED BY <3>1, <3>2
  <2> QED BY <1>2, <2>0, <2>4, <2>5, <2>6, <2>7, <2>8 DEF LbStream, LbEntry
<1>9. LbPanel'
  <2>1. LbAnswer'
    BY <1>1, <1>2 DEF LbInv, LbPanel, LbAnswer, lbFetchVars
  <2>2. LbMerging' /\ LbStreaming'
    BY <1>2 DEF LbInv, LbPanel, LbMerging, LbStreaming, LbRows, LbArrived, LbOver, lbFetchVars, lbHubVars,
       lbRowVars
  <2> QED BY <2>1, <2>2 DEF LbPanel
<1> QED
  BY <1>6, <1>7, <1>8, <1>9 DEF LbInv

\* The hub takes an entry.
LEMMA LbNotifyKeeps ==
    ASSUME LbInv, NEW g \in LbLoggers, Notify(g)
    PROVE  LbInv'
<1> DEFINE N == Len(lbPushed)
           x == lbNotify[g]
<1>1. /\ lbNotify \in [LbLoggers -> Nat] /\ lbDepth \in [LbLoggers -> Nat] /\ lbSeq \in Nat
      /\ lbPushed \in Seq(Nat) /\ N \in Nat /\ lbSent \in Nat /\ lbSent <= N
      /\ lbFrom \in Nat /\ lbFrom <= lbSent
      /\ \A k \in 1 .. N : lbPushed[k] \in Nat
  BY DEF LbInv, LbTypes
<1>2. /\ x # 0 /\ lbPushed' = Append(lbPushed, x) /\ lbNotify' = [lbNotify EXCEPT ![g] = 0]
      /\ lbDepth' = [lbDepth EXCEPT ![g] = 0]
      /\ UNCHANGED <<lbRingVars, lbSent, lbDropped, lbMode, lbFetchVars, lbRowVars>>
  BY DEF Notify
<1>3. x \in Nat /\ x <= lbSeq /\ x \in LbEntry
  BY <1>1, <1>2 DEF LbInv, LbStream, LbEntry
<1>4. /\ lbPushed' \in Seq(Nat) /\ Len(lbPushed') = N + 1 /\ lbPushed'[N + 1] = x
      /\ \A k \in 1 .. N : lbPushed'[k] = lbPushed[k]
  BY <1>1, <1>2, <1>3
<1>5. lbNotify'[g] = 0 /\ \A h \in LbLoggers : h # g => lbNotify'[h] = lbNotify[h]
  BY <1>1, <1>2
<1> HIDE DEF N, x
<1>6. LbTypes'
  <2>1. lbNotify' \in [LbLoggers -> Nat] /\ lbDepth' \in [LbLoggers -> Nat]
    BY <1>1, <1>2
  <2>2. lbSent' <= Len(lbPushed')
    BY <1>1, <1>2, <1>4
  <2> QED BY <1>2, <1>4, <2>1, <2>2 DEF LbInv, LbTypes, lbRingVars, lbFetchVars
<1>7. LbRingIs'
  BY <1>2 DEF LbInv, LbRingIs, lbRingVars
<1>8. LbStream'
  <2>0. lbSeq' = lbSeq /\ LbEntry' = LbEntry /\ lbDropped' = lbDropped
    BY <1>2 DEF LbEntry, lbRingVars
  <2>1. ASSUME NEW k \in 1 .. N + 1 PROVE lbPushed'[k] \in LbEntry /\ (k # N + 1 => k \in 1 .. N)
    <3>1. k # N + 1 => k \in 1 .. N
      BY <1>1
    <3> QED BY <1>3, <1>4, <3>1 DEF LbInv, LbStream, N
  <2>2. \A k \in 1 .. N : lbPushed[k] # x
    BY <1>2 DEF LbInv, LbStream, N, x
  <2>3. ASSUME NEW j \in 1 .. N + 1, NEW k \in 1 .. N + 1, lbPushed'[j] = lbPushed'[k] PROVE j = k
    BY <1>4, <2>1, <2>2, <2>3 DEF LbInv, LbStream, N
  <2>4. ASSUME NEW h \in LbLoggers
        PROVE  /\ lbNotify'[h] <= lbSeq
               /\ lbNotify'[h] # 0 => \A k \in 1 .. N + 1 : lbPushed'[k] # lbNotify'[h]
    <3>1. CASE h = g
      BY <1>1, <1>5, <3>1
    <3>2. CASE h # g
      <4>1. lbNotify'[h] = lbNotify[h] /\ lbNotify[h] <= lbSeq
        BY <1>5, <3>2 DEF LbInv, LbStream
      <4>2. lbNotify[h] # 0 => lbNotify[h] # x /\ \A k \in 1 .. N : lbPushed[k] # lbNotify[h]
        BY <1>2, <3>2 DEF LbInv, LbStream, N, x
      <4> QED BY <1>4, <2>1, <4>1, <4>2
    <3> QED BY <3>1, <3>2
  <2>5. ASSUME NEW h \in LbLoggers, NEW i \in LbLoggers, lbNotify'[h] = lbNotify'[i], lbNotify'[h] # 0
        PROVE  h = i
    BY <1>5, <2>5 DEF LbInv, LbStream
  <2>6. ASSUME NEW e \in LbEntry
        PROVE  \/ \E h \in LbLoggers : lbNotify'[h] = e
               \/ e \in lbDropped
               \/ \E k \in 1 .. N + 1 : lbPushed'[k] = e
    <3>1. N + 1 \in 1 .. N + 1 /\ \A k \in 1 .. N : k \in 1 .. N + 1
      BY <1>1
    <3>2. CASE e = x
      BY <1>4, <3>1, <3>2
    <3>3. CASE e # x
      <4>1. \/ \E h \in LbLoggers : lbNotify[h] = e
            \/ e \in lbDropped
            \/ \E k \in 1 .. N : lbPushed[k] = e
        BY DEF LbInv, LbStream, N
      <4>2. \A h \in LbLoggers : lbNotify[h] = e => h # g
        BY <3>3 DEF x
      <4> QED BY <1>4, <1>5, <3>1, <4>1, <4>2
    <3> QED BY <3>2, <3>3
  <2> QED BY <1>4, <2>0, <2>1, <2>3, <2>4, <2>5, <2>6 DEF LbStream
<1>9. LbPanel'
  <2>1. LbAnswer'
    BY <1>2 DEF LbInv, LbPanel, LbAnswer, lbFetchVars, lbRingVars
  <2>2. lbSent' = lbSent /\ \A k \in 1 .. lbSent : lbPushed'[k] = lbPushed[k]
    BY <1>1, <1>2, <1>4
  <2>3. \A k \in 1 .. lbFrom : lbPushed'[k] = lbPushed[k]
    BY <1>1, <2>2
  <2>4. LbMerging'
    BY <1>2, <2>3 DEF LbInv, LbPanel, LbMerging, lbFetchVars
  <2>5. ASSUME lbMode = "streaming" PROVE LbRows'
    <3>1. LbRows
      BY <2>5 DEF LbInv, LbPanel, LbStreaming
    <3>2. ASSUME NEW k \in 1 .. lbSent, LbOver(k) PROVE LbOver(k)'
      <4>1. PICK i \in 1 .. k - 1 : lbPushed[i] > lbPushed[k]
        BY <3>2 DEF LbOver
      <4>2. i \in 1 .. lbSent
        BY <1>1
      <4> QED BY <2>2, <4>1, <4>2 DEF LbOver
    <3>3. ASSUME NEW y, LbArrived(y) PROVE LbArrived(y)'
      BY <2>2, <3>3 DEF LbArrived
    <3> QED BY <1>2, <2>2, <3>1, <3>2, <3>3 DEF LbRows, lbFetchVars, lbRowVars
  <2> QED BY <1>2, <2>1, <2>4, <2>5 DEF LbPanel, LbStreaming
<1> QED
  BY <1>6, <1>7, <1>8, <1>9 DEF LbInv

\* The hub drops an entry.
LEMMA LbDroppedKeeps ==
    ASSUME LbInv, NEW g \in LbLoggers, NotifyDropped(g)
    PROVE  LbInv'
<1>1. /\ lbNotify \in [LbLoggers -> Nat] /\ lbDepth \in [LbLoggers -> Nat] /\ lbSeq \in Nat
  BY DEF LbInv, LbTypes
<1>2. /\ lbDropped' = lbDropped \cup {lbNotify[g]} /\ lbNotify' = [lbNotify EXCEPT ![g] = 0]
      /\ lbDepth' = [lbDepth EXCEPT ![g] = @ + 1]
      /\ UNCHANGED <<lbRingVars, lbPushed, lbSent, lbMode, lbFetchVars, lbRowVars>>
  BY DEF NotifyDropped
<1>3. lbNotify'[g] = 0 /\ \A h \in LbLoggers : h # g => lbNotify'[h] = lbNotify[h]
  BY <1>1, <1>2
<1>4. LbTypes'
  <2>1. lbNotify' \in [LbLoggers -> Nat] /\ lbDepth' \in [LbLoggers -> Nat]
    BY <1>1, <1>2
  <2> QED BY <1>2, <2>1 DEF LbInv, LbTypes, lbRingVars, lbFetchVars
<1>5. LbRingIs' /\ LbPanel'
  BY <1>2 DEF LbInv, LbRingIs, lbRingVars, LbPanel, LbAnswer, LbMerging, LbStreaming, LbRows, LbArrived,
     LbOver, lbFetchVars, lbRowVars
<1>6. LbStream'
  <2>0. lbSeq' = lbSeq /\ LbEntry' = LbEntry /\ lbPushed' = lbPushed
    BY <1>2 DEF LbEntry, lbRingVars
  <2>1. ASSUME NEW h \in LbLoggers
        PROVE  /\ lbNotify'[h] <= lbSeq
               /\ lbNotify'[h] # 0 => \A k \in 1 .. Len(lbPushed) : lbPushed[k] # lbNotify'[h]
    <3>1. CASE h = g
      BY <1>1, <1>3, <3>1
    <3>2. CASE h # g
      BY <1>3, <3>2 DEF LbInv, LbStream
    <3> QED BY <3>1, <3>2
  <2>2. ASSUME NEW h \in LbLoggers, NEW i \in LbLoggers, lbNotify'[h] = lbNotify'[i], lbNotify'[h] # 0
        PROVE  h = i
    BY <1>3, <2>2 DEF LbInv, LbStream
  <2>3. ASSUME NEW e \in LbEntry
        PROVE  \/ \E h \in LbLoggers : lbNotify'[h] = e
               \/ e \in lbDropped'
               \/ \E k \in 1 .. Len(lbPushed) : lbPushed[k] = e
    BY <1>2, <1>3 DEF LbInv, LbStream
  <2>4. /\ \A k \in 1 .. Len(lbPushed) : lbPushed[k] \in LbEntry
        /\ \A j, k \in 1 .. Len(lbPushed) : lbPushed[j] = lbPushed[k] => j = k
    BY DEF LbInv, LbStream
  <2> QED BY <2>0, <2>1, <2>2, <2>3, <2>4 DEF LbStream
<1> QED
  BY <1>4, <1>5, <1>6 DEF LbInv

\* The panel opens or closes.
LEMMA LbResetKeeps ==
    ASSUME LbInv, NEW n \in Nat, OpenPanel(n) \/ ClosePanel
    PROVE  LbInv'
<1>1. /\ lbMode' \in {"fetching", "closed"} /\ lbAsk' \in Nat /\ lbFrom' \in {0, lbSent}
      /\ lbInitial' = {} /\ lbTop' = 0 /\ lbSince' = 0
      /\ UNCHANGED <<lbRingVars, lbNotify, lbDepth, lbHubVars>>
  BY DEF OpenPanel, ClosePanel, PanelReset
<1>2. lbSent \in Nat /\ lbSeq \in Nat
  BY DEF LbInv, LbTypes
<1>3. LbTypes' /\ LbRingIs' /\ LbStream'
  BY <1>1, <1>2 DEF LbInv, LbTypes, LbRingIs, LbStream, LbEntry, lbRingVars, lbHubVars
<1>4. LbAnswer'
  BY <1>1, <1>2 DEF LbAnswer, lbRingVars
<1> QED
  BY <1>1, <1>3, <1>4 DEF LbInv, LbPanel, LbMerging, LbStreaming

\* The answer has the newest entries, or there is none.
LEMMA LbFetchKeeps ==
    ASSUME LbInv, Fetch \/ FetchFails
    PROVE  LbInv'
<1>1. /\ lbMode' = "merging" /\ lbFrom' = lbFrom
      /\ UNCHANGED <<lbRingVars, lbNotify, lbDepth, lbHubVars, lbAsk, lbRowVars>>
  BY DEF Fetch, FetchFails
<1>2. lbSeq \in Nat /\ LbCap \in Nat /\ lbAsk \in Nat
  BY LbAssumption DEF LbInv, LbTypes
<1>3. LbTypes' /\ LbRingIs' /\ LbStream'
  BY <1>1 DEF LbInv, LbTypes, LbRingIs, LbStream, LbEntry, lbRingVars, lbHubVars
<1>4. LbAnswer' /\ \A e \in LbEntry : e <= lbSince' \/ e \in lbInitial'
  <2>1. CASE FetchFails
    <3>1. lbInitial' = {} /\ lbTop' = 0 /\ lbSince' = lbSeq /\ lbSeq' = lbSeq
      BY <1>1, <2>1 DEF FetchFails, lbRingVars
    <3> QED BY <1>2, <3>1 DEF LbAnswer, LbEntry
  <2>2. CASE Fetch
    <3> DEFINE have == IF lbSeq < LbCap THEN lbSeq ELSE LbCap
               take == IF lbAsk < have THEN lbAsk ELSE have
               last == Last(lbAsk)
    <3>1. /\ take \in Nat /\ take <= lbSeq /\ Len(last) = take
          /\ \A i \in 1 .. take : last[i] = lbSeq - take + i
      BY <1>2, LbLastHolds, Zenon DEF LbInv
    <3>2. /\ lbInitial' = {last[i] : i \in 1 .. Len(last)} /\ lbSince' = lbSeq - Len(last)
          /\ lbTop' = IF last = <<>> THEN 0 ELSE last[Len(last)]
          /\ lbSeq' = lbSeq
      BY <1>1, <2>2 DEF Fetch, lbRingVars
    <3>0. (last = <<>>) <=> (take = 0)
      <4>1. last = <<>> => Len(last) = 0
        OBVIOUS
      <4>2. \E S : last \in Seq(S)
        <5>1. DOMAIN last = 1 .. Len(last) /\ last = [i \in 1 .. Len(last) |-> last[i]]
          BY <3>1, LbLastIsSeq, <1>2 DEF LbInv
        <5> DEFINE S == {last[i] : i \in 1 .. Len(last)}
        <5>2. last \in [1 .. Len(last) -> S] /\ Len(last) \in Nat
          BY <3>1, <5>1
        <5>3. last \in Seq(S)
          BY <5>2
        <5> QED BY <5>3
      <4>3. Len(last) = 0 => last = <<>>
        BY <4>2
      <4> QED BY <3>1, <4>1, <4>3
    <3> HIDE DEF have, take, last
    <3>3. lbSince' = lbSeq - take /\ lbSince' \in Nat
      BY <1>2, <3>1, <3>2
    <3>4. CASE take = 0
      <4>1. lbInitial' = {} /\ lbTop' = 0 /\ lbSince' = lbSeq
        BY <1>2, <3>0, <3>1, <3>2, <3>3, <3>4
      <4> QED BY <1>2, <3>2, <4>1 DEF LbAnswer, LbEntry
    <3>5. CASE take # 0
      <4>1. lbTop' = lbSeq
        BY <1>2, <3>0, <3>1, <3>2, <3>5
      <4>2. ASSUME NEW e PROVE e \in lbInitial' <=> e \in lbSince' + 1 .. lbSeq
        <5>1. ASSUME e \in lbInitial' PROVE e \in lbSince' + 1 .. lbSeq
          <6>1. PICK i \in 1 .. take : e = last[i]
            BY <3>1, <3>2, <5>1
          <6> QED BY <1>2, <3>1, <3>3, <6>1
        <5>2. ASSUME e \in lbSince' + 1 .. lbSeq PROVE e \in lbInitial'
          <6>1. e - lbSince' \in 1 .. take /\ lbSeq - take + (e - lbSince') = e
            BY <1>2, <3>1, <3>3, <5>2
          <6>2. last[e - lbSince'] = e
            BY <3>1, <6>1
          <6> QED BY <3>1, <3>2, <6>1, <6>2
        <5> QED BY <5>1, <5>2
      <4>3. lbInitial' = lbSince' + 1 .. lbTop'
        BY <4>1, <4>2
      <4>4. take \in Nat /\ take <= lbSeq /\ lbSeq \in Nat /\ lbSeq' = lbSeq
        BY <1>2, <3>1, <3>2
      <4>5. lbSince' < lbSeq /\ lbSince' <= lbSeq
        BY <3>3, <3>5, <4>4
      <4>6. \A e \in LbEntry : e <= lbSince' \/ e \in lbInitial'
        BY <3>3, <4>1, <4>3, <4>4 DEF LbEntry
      <4> QED BY <3>3, <4>1, <4>3, <4>4, <4>5, <4>6 DEF LbAnswer
    <3> QED BY <3>4, <3>5
  <2> QED BY <2>1, <2>2
<1>5. LbMerging'
  <2>1. lbPushed' = lbPushed /\ lbFrom \in Nat /\ lbFrom <= lbSent /\ lbSent \in Nat
        /\ lbSent <= Len(lbPushed) /\ Len(lbPushed) \in Nat
    BY <1>1 DEF LbInv, LbTypes, lbHubVars
  <2>2. \A k \in 1 .. lbFrom : lbPushed[k] \in LbEntry
    BY <2>1 DEF LbInv, LbStream
  <2> QED BY <1>1, <1>4, <2>1, <2>2 DEF LbMerging
<1> QED
  BY <1>1, <1>3, <1>4, <1>5 DEF LbInv, LbPanel, LbStreaming

\* The answer and what came since become the rows.
LEMMA LbMergeKeeps ==
    ASSUME LbInv, Merge
    PROVE  LbInv'
<1>1. /\ lbMode = "merging" /\ lbMode' = "streaming"
      /\ lbShown' = lbInitial \cup {lbPushed[k] : k \in LbFresh}
      /\ UNCHANGED <<lbRingVars, lbNotify, lbDepth, lbHubVars, lbFetchVars>>
  BY DEF Merge
<1>2. LbTypes' /\ LbRingIs' /\ LbStream' /\ LbAnswer' /\ LbMerging'
  BY <1>1 DEF LbInv, LbTypes, LbRingIs, LbStream, LbEntry, LbPanel, LbAnswer, LbMerging, lbRingVars,
     lbHubVars, lbFetchVars
<1>3. /\ lbSeq \in Nat /\ lbTop \in Nat /\ lbSince \in Nat /\ lbInitial = lbSince + 1 .. lbTop
      /\ lbTop = 0 \/ lbSince < lbTop
      /\ lbFrom \in Nat /\ lbFrom <= lbSent /\ lbSent \in Nat /\ lbSent <= Len(lbPushed)
      /\ Len(lbPushed) \in Nat
      /\ lbPushed' = lbPushed /\ lbSent' = lbSent /\ lbTop' = lbTop /\ lbSince' = lbSince
      /\ lbInitial' = lbInitial
  BY <1>1 DEF LbInv, LbTypes, LbPanel, LbAnswer, lbHubVars, lbFetchVars
<1>4. \A k \in 1 .. lbSent : lbPushed[k] \in Nat /\ 1 <= lbPushed[k]
  BY <1>3 DEF LbInv, LbStream, LbEntry
<1>5. \A k \in LbFresh : k \in 1 .. lbSent /\ lbPushed[k] > lbTop
  BY <1>3 DEF LbFresh
<1>6. lbTwice' = FALSE
  <2>1. ASSUME NEW k \in LbFresh PROVE lbPushed[k] \notin lbInitial
    BY <1>3, <1>4, <1>5
  <2>2. ASSUME NEW k \in LbFresh, NEW j \in LbFresh, j # k PROVE lbPushed[j] # lbPushed[k]
    <3>1. j \in 1 .. Len(lbPushed) /\ k \in 1 .. Len(lbPushed)
      BY <1>3, <1>5
    <3> QED BY <2>2, <3>1 DEF LbInv, LbStream
  <2>3. lbTwice' = \E k \in LbFresh : \/ lbPushed[k] \in lbInitial
                                      \/ \E j \in LbFresh : j # k /\ lbPushed[j] = lbPushed[k]
    BY Zenon DEF Merge
  <2> QED BY <2>1, <2>2, <2>3, Zenon
<1>7. /\ lbLast' \in Nat /\ lbTop <= lbLast' /\ (lbLast' = 0 \/ lbLast' \in lbShown')
      /\ lbLast' = lbTop \/ LbArrived(lbLast')
  <2>1. CASE LbFresh = {} /\ lbLast' = lbTop
    <3>1. lbTop = 0 \/ lbTop \in lbInitial
      BY <1>3
    <3> QED BY <1>1, <1>3, <2>1, <3>1
  <2>2. CASE \E k \in LbFresh : lbLast' = lbPushed[k]
    <3>1. PICK k \in LbFresh : lbLast' = lbPushed[k]
      BY <2>2
    <3>2. lbPushed[k] \in lbShown'
      BY <1>1
    <3>3. k \in 1 .. lbSent /\ lbPushed[k] > lbTop /\ lbPushed[k] \in Nat
      BY <1>4, <1>5
    <3> QED BY <1>3, <3>1, <3>2, <3>3 DEF LbArrived
  <2> QED BY <2>1, <2>2 DEF Merge
<1>8. \A x \in lbShown' : (x \in Nat /\ 1 <= x /\ x <= lbTop) \/ LbArrived(x)
  <2> SUFFICES ASSUME NEW x \in lbShown' PROVE (x \in Nat /\ 1 <= x /\ x <= lbTop) \/ LbArrived(x)
    OBVIOUS
  <2>1. CASE x \in lbInitial
    BY <1>3, <2>1
  <2>2. CASE x \notin lbInitial
    BY <1>1, <1>5, <2>2 DEF LbArrived
  <2> QED BY <2>1, <2>2
<1>9. ASSUME NEW k \in 1 .. lbSent PROVE lbPushed[k] <= lbSince \/ lbPushed[k] \in lbShown'
  <2>1. CASE k <= lbFrom
    <3>1. k \in 1 .. lbFrom
      BY <1>3, <2>1
    <3> QED BY <1>1, <3>1 DEF LbInv, LbPanel, LbMerging
  <2>2. CASE k > lbFrom /\ lbPushed[k] > lbTop
    <3>1. k \in LbFresh
      BY <1>3, <2>2 DEF LbFresh
    <3> QED BY <1>1, <3>1
  <2>3. CASE ~(lbPushed[k] > lbTop)
    <3>1. lbPushed[k] <= lbSince \/ lbPushed[k] \in lbInitial
      BY <1>3, <1>4, <2>3
    <3> QED BY <1>1, <3>1
  <2> QED BY <1>3, <2>1, <2>2, <2>3
<1>10. LbRows'
  <2>1. \A x : LbArrived(x)' <=> \E i \in 1 .. lbSent : lbPushed[i] = x
    BY <1>3 DEF LbArrived
  <2>2. lbInitial' \subseteq lbShown'
    BY <1>1, <1>3
  <2>3. LbArrived(lbLast)' <=> LbArrived(lbLast')
    BY <1>3 DEF LbArrived
  <2> QED BY <1>3, <1>6, <1>7, <1>8, <1>9, <2>1, <2>2, <2>3 DEF LbRows, LbArrived
<1> QED
  BY <1>2, <1>10 DEF LbInv, LbPanel, LbStreaming

\* A push reaches the editor.
LEMMA LbDeliverKeeps ==
    ASSUME LbInv, Deliver
    PROVE  LbInv'
<1> DEFINE e == lbPushed[lbSent + 1]
<1>1. /\ lbSent < Len(lbPushed) /\ lbSent' = lbSent + 1
      /\ UNCHANGED <<lbRingVars, lbNotify, lbDepth, lbPushed, lbDropped, lbMode, lbFetchVars>>
  BY DEF Deliver
<1>2. lbSent \in Nat /\ Len(lbPushed) \in Nat /\ lbFrom \in Nat /\ lbFrom <= lbSent
  BY DEF LbInv, LbTypes
<1>3. LbTypes'
  <2>1. lbSent' \in Nat /\ lbSent' <= Len(lbPushed) /\ lbFrom <= lbSent'
    BY <1>1, <1>2
  <2> QED BY <1>1, <2>1 DEF LbInv, LbTypes, lbRingVars, lbFetchVars
<1>4. LbRingIs' /\ LbStream' /\ LbAnswer' /\ LbMerging'
  BY <1>1 DEF LbInv, LbRingIs, LbStream, LbEntry, LbPanel, LbAnswer, LbMerging, lbRingVars, lbFetchVars
<1>5. ASSUME lbMode = "streaming" PROVE LbRows'
  <2>1. LbRows /\ LbAnswer
    BY <1>5 DEF LbInv, LbPanel, LbStreaming
  <2>2. /\ lbPushed' = lbPushed /\ lbTop' = lbTop /\ lbSince' = lbSince /\ lbInitial' = lbInitial
    BY <1>1 DEF lbFetchVars
  <2>3. /\ lbSent + 1 \in 1 .. Len(lbPushed) /\ lbSent + 1 \in 1 .. lbSent'
        /\ \A k \in 1 .. lbSent : k \in 1 .. lbSent' /\ k \in 1 .. Len(lbPushed) /\ k # lbSent + 1
        /\ \A k \in 1 .. lbSent' : k = lbSent + 1 \/ k \in 1 .. lbSent
    BY <1>1, <1>2
  <2>4. e \in Nat /\ 1 <= e /\ \A i \in 1 .. lbSent : lbPushed[i] # e /\ lbPushed[i] \in Nat
    <3>1. \A k \in 1 .. Len(lbPushed) : lbPushed[k] \in 1 .. lbSeq
      BY DEF LbInv, LbStream, LbEntry
    <3>2. \A i \in 1 .. lbSent : lbPushed[i] # e
      BY <2>3 DEF LbInv, LbStream
    <3>3. lbSeq \in Nat
      BY DEF LbInv, LbTypes
    <3> QED BY <2>3, <3>1, <3>2, <3>3
  <2>5. ASSUME NEW x PROVE (LbArrived(x) => \E i \in 1 .. lbSent' : lbPushed[i] = x)
    BY <2>3 DEF LbArrived
  <2>6. /\ lbLast \in Nat /\ lbTop <= lbLast /\ lbTop \in Nat /\ lbSince \in Nat
        /\ lbInitial = lbSince + 1 .. lbTop /\ lbInitial \subseteq lbShown
        /\ lbLast = 0 \/ lbLast \in lbShown
        /\ lbLast = lbTop \/ LbArrived(lbLast)
    BY <2>1 DEF LbRows, LbAnswer
  <2> DEFINE Kept(k) == lbPushed[k] <= lbSince \/ lbPushed[k] \in lbShown' \/ LbOver(k)
  <2>7. CASE e > lbLast
    <3>1. /\ lbShown' = lbShown \cup {e} /\ lbLast' = e
          /\ lbTwice' = (lbTwice \/ e \in lbShown)
      BY <1>5, <2>7, Zenon DEF Deliver
    <3>2. e \notin lbShown
      <4>1. ASSUME e \in lbShown PROVE FALSE
        <5>1. e <= lbTop \/ LbArrived(e)
          BY <2>1, <4>1 DEF LbRows
        <5>2. ~LbArrived(e)
          BY <2>4 DEF LbArrived
        <5> QED BY <2>4, <2>6, <2>7, <5>1, <5>2
      <4> QED BY <4>1
    <3>3. lbTwice' = FALSE
      BY <2>1, <3>1, <3>2, Zenon DEF LbRows
    <3>4. \E i \in 1 .. lbSent' : lbPushed[i] = e
      BY <2>3
    <3>5. \A x \in lbShown' : (x \in Nat /\ 1 <= x /\ x <= lbTop) \/ \E i \in 1 .. lbSent' : lbPushed[i] = x
      BY <2>1, <2>5, <3>1, <3>4 DEF LbRows
    <3>6. \A k \in 1 .. lbSent' : Kept(k)
      BY <2>1, <2>3, <3>1 DEF LbRows
    <3>7. lbInitial \subseteq lbShown' /\ lbLast' \in lbShown' /\ lbTop <= lbLast' /\ lbLast' \in Nat
      BY <2>4, <2>6, <2>7, <3>1
    <3> QED BY <2>2, <3>1, <3>3, <3>4, <3>5, <3>6, <3>7 DEF LbRows, LbArrived, LbOver
  <2>8. CASE ~(e > lbLast)
    <3>1. lbShown' = lbShown /\ lbLast' = lbLast /\ lbTwice' = lbTwice
      BY <2>8, Zenon DEF Deliver, lbRowVars
    <3>2. lbLast # 0 /\ lbLast \in lbShown /\ e <= lbLast
      BY <2>4, <2>6, <2>8
    <3>3. Kept(lbSent + 1)
      <4>1. CASE lbLast = lbTop
        <5>1. e <= lbSince \/ e \in lbInitial
          BY <2>4, <2>6, <3>2, <4>1
        <5> QED BY <2>6, <3>1, <5>1
      <4>2. CASE LbArrived(lbLast)
        <5>1. PICK i \in 1 .. lbSent : lbPushed[i] = lbLast
          BY <4>2 DEF LbArrived
        <5>2. CASE lbLast = e
          BY <3>1, <3>2, <5>2
        <5>3. CASE lbLast # e
          <6>1. lbPushed[i] > e /\ i \in 1 .. (lbSent + 1) - 1
            BY <1>2, <2>4, <2>6, <3>2, <5>1, <5>3
          <6>2. LbOver(lbSent + 1)
            BY <6>1 DEF LbOver
          <6> QED BY <6>2
        <5> QED BY <5>2, <5>3
      <4> QED BY <2>6, <4>1, <4>2
    <3>4. \A k \in 1 .. lbSent' : Kept(k)
      BY <2>1, <2>3, <3>1, <3>3 DEF LbRows
    <3>5. \A x \in lbShown : (x \in Nat /\ 1 <= x /\ x <= lbTop) \/ \E i \in 1 .. lbSent' : lbPushed[i] = x
      BY <2>1, <2>5 DEF LbRows
    <3>6. lbLast = lbTop \/ \E i \in 1 .. lbSent' : lbPushed[i] = lbLast
      BY <2>5, <2>6
    <3>7. lbTwice = FALSE
      BY <2>1 DEF LbRows
    <3> QED BY <2>2, <2>6, <3>1, <3>4, <3>5, <3>6, <3>7 DEF LbRows, LbArrived, LbOver
  <2> QED BY <2>7, <2>8
<1>6. lbMode' = lbMode
  BY <1>1
<1> QED
  BY <1>3, <1>4, <1>5, <1>6 DEF LbInv, LbPanel, LbStreaming

\* The invariant says what LbSound does.
LEMMA LbInvIsSound == LbInv => LbSound
<1> SUFFICES ASSUME LbInv PROVE LbSound
  OBVIOUS
<1>1. LbCap \in Nat /\ lbSeq \in Nat
  BY LbAssumption DEF LbInv, LbTypes
<1>2. LbLastExact
  <2> SUFFICES ASSUME NEW n \in 0 .. LbCap + 1
               PROVE  LET got == Last(n)
                          have == IF lbSeq < LbCap THEN lbSeq ELSE LbCap
                      IN  /\ Len(got) = IF n < have THEN n ELSE have
                          /\ \A i \in 1 .. Len(got) : got[i] = lbSeq - Len(got) + i
    BY Zenon DEF LbLastExact
  <2>1. n \in Nat
    BY <1>1
  <2> QED BY <2>1, LbLastHolds, Zenon DEF LbInv
<1>3. ASSUME lbMode = "streaming" PROVE ~lbTwice
  BY <1>3 DEF LbInv, LbPanel, LbStreaming, LbRows
<1>4. ASSUME lbMode = "streaming", LbQuiet, NEW e \in lbSince + 1 .. lbSeq
      PROVE  e \in lbShown \cup lbDropped \cup LbOvertaken
  <2>1. LbRows /\ lbSince \in Nat
    BY <1>4 DEF LbInv, LbPanel, LbStreaming, LbAnswer
  <2>2. e \in LbEntry /\ e # 0 /\ ~(e <= lbSince)
    BY <1>1, <2>1 DEF LbEntry
  <2>3. CASE e \in lbDropped
    BY <2>3
  <2>4. CASE \E k \in 1 .. Len(lbPushed) : lbPushed[k] = e
    <3>1. PICK k \in 1 .. Len(lbPushed) : lbPushed[k] = e
      BY <2>4
    <3>2. k \in 1 .. lbSent
      BY <1>4 DEF LbQuiet
    <3>3. e \in lbShown \/ LbOver(k)
      BY <2>1, <2>2, <3>1, <3>2 DEF LbRows
    <3>4. LbOver(k) => e \in LbOvertaken
      BY <3>1 DEF LbOver, LbOvertaken
    <3> QED BY <3>3, <3>4
  <2>5. ~\E g \in LbLoggers : lbNotify[g] = e
    BY <1>4, <2>2 DEF LbQuiet
  <2> QED BY <2>2, <2>3, <2>4, <2>5 DEF LbInv, LbStream
<1>5. LbNoGap
  BY <1>3, <1>4 DEF LbNoGap
<1> QED
  BY <1>2, <1>5 DEF LbSound

\* An empty ring, a closed panel.
LEMMA LbInitInv == LbInit => LbInv
<1> SUFFICES ASSUME LbInit PROVE LbInv
  OBVIOUS
<1>1. LbTypes
  BY LbAssumption DEF LbInit, LbTypes
<1>2. LbRingIs
  BY LbAssumption DEF LbInit, LbRingIs
<1>3. LbStream
  BY DEF LbInit, LbStream, LbEntry
<1>4. LbPanel
  BY DEF LbInit, LbPanel, LbAnswer, LbMerging, LbStreaming
<1> QED
  BY <1>1, <1>2, <1>3, <1>4 DEF LbInv

\* Every step keeps the invariant of the log buffer and its panel.
LEMMA LbNextInv == LbInv /\ [LbNext]_lbVars => LbInv'
<1> SUFFICES ASSUME LbInv, [LbNext]_lbVars PROVE LbInv'
  OBVIOUS
<1>1. CASE UNCHANGED lbVars
  BY <1>1 DEF lbVars, lbRingVars, lbHubVars, lbFetchVars, lbRowVars, LbInv, LbTypes, LbRingIs, LbStream,
     LbEntry, LbPanel, LbAnswer, LbMerging, LbStreaming, LbRows, LbArrived, LbOver
<1>2. CASE \E g \in LbLoggers : Add(g) \/ Notify(g) \/ NotifyDropped(g)
  BY <1>2, LbAddKeeps, LbNotifyKeeps, LbDroppedKeeps
<1>3. ASSUME NEW n \in 1 .. LbCap + 1, OpenPanel(n) PROVE LbInv'
  BY <1>3, LbResetKeeps, LbAssumption
<1>4. CASE ClosePanel
  BY <1>4, LbResetKeeps
<1>5. CASE Fetch \/ FetchFails \/ Merge \/ Deliver
  BY <1>5, LbFetchKeeps, LbMergeKeeps, LbDeliverKeeps
<1> QED
  BY <1>1, <1>2, <1>3, <1>4, <1>5 DEF LbNext

(***************************************************************************)
(* The parts together, as MCNodes checks them.                             *)
(***************************************************************************)

\* A step of NodesSpec is a step of each of these parts, or leaves it alone.
LEMMA NodesMove ==
    ASSUME [NodesNext]_nodesVars
    PROVE  [ToNext]_toVars /\ [UdNext]_udVars /\ [FrNext]_frVars /\ [LbNext]_lbVars
<1>1. CASE UNCHANGED nodesVars
  BY <1>1, Zenon DEF nodesVars
<1>2. ASSUME NEW p, Only(p) PROVE /\ p # "client" => UNCHANGED toVars
                                  /\ p # "udp" => UNCHANGED udVars
                                  /\ p # "framing" => UNCHANGED frVars
                                  /\ p # "log" => UNCHANGED lbVars
  BY <1>2 DEF Only
<1>3. CASE NodesNext
  <2>1. ASSUME NEW p \in {"delay", "machine", "observers", "tail", "watch", "request"}, Only(p)
        PROVE  UNCHANGED toVars /\ UNCHANGED udVars /\ UNCHANGED frVars /\ UNCHANGED lbVars
    BY <1>2, <2>1
  <2>2. CASE Only("client") /\ ToNext
    BY <1>2, <2>2
  <2>3. CASE Only("udp") /\ UdNext
    BY <1>2, <2>3
  <2>4. CASE Only("framing") /\ FrNext
    BY <1>2, <2>4
  <2>5. CASE Only("log") /\ LbNext
    BY <1>2, <2>5
  <2> QED BY <1>3, <2>1, <2>2, <2>3, <2>4, <2>5 DEF NodesNext
<1> QED
  BY <1>1, <1>3

(***************************************************************************)
(* tcp-out as a client accounts for every message and holds at most the    *)
(* stored socket and the one about to be stored, whichever of worker,      *)
(* dial, failing write and Stop come together; udp-out that reuses its     *)
(* socket holds one, and udp-in none when its Stop has returned.           *)
(***************************************************************************)
THEOREM NetworkIsSound == NodesSpec => []NetworkSound
<1>1. NodesInit => ToInv /\ UdInv
  BY ToInitInv, UdInitInv DEF NodesInit
<1>2. ToInv /\ UdInv /\ [NodesNext]_nodesVars => (ToInv /\ UdInv)'
  BY NodesMove, ToNextInv, UdNextInv
<1>3. ToInv /\ UdInv => NetworkSound
  BY ToInvAccounts, UdInvHolds DEF NetworkSound
<1> QED
  BY <1>1, <1>2, <1>3, PTL DEF NodesSpec

(***************************************************************************)
(* Streams: the framers neither lose nor repeat a byte however the reads   *)
(* cut them; an open panel of the log shows no entry twice and, once all   *)
(* is quiet, misses from its snapshot on only what the hub dropped and     *)
(* what was pushed after a later entry.                                    *)
(***************************************************************************)
THEOREM StreamsAreSound == NodesSpec => []StreamsSound
<1> DEFINE I == FrInv /\ FrIdle /\ LbInv
<1>1. NodesInit => I
  BY FrInitHolds, LbInitInv DEF NodesInit
<1>2. I /\ [NodesNext]_nodesVars => I'
  BY NodesMove, FrNextKeeps, LbNextInv
<1>3. I => StreamsSound
  BY FrInvIsSound, LbInvIsSound DEF StreamsSound
<1> QED
  BY <1>1, <1>2, <1>3, PTL DEF NodesSpec

-----------------------------------------------------------------------------
(***************************************************************************)
(* The types of the parts: what the invariants above leave open.           *)
(***************************************************************************)

\* A sequence is one of whatever its elements are.
LEMMA SeqOfElements ==
    ASSUME NEW S, NEW T, NEW s \in Seq(S), \A i \in 1 .. Len(s) : s[i] \in T
    PROVE  s \in Seq(T)
<1>1. s \in [1 .. Len(s) -> T] /\ Len(s) \in Nat
  BY LenProperties
<1>2. \A n \in Nat : \A f \in [1 .. n -> T] : f \in Seq(T)
  OBVIOUS
<1> QED
  BY <1>1, <1>2

(* The delay node. *)
DlRestTyped ==
    /\ dlReset \subseteq DelayMsg /\ Len(dlQueue) <= DelayQueueLen /\ dlShown \in Int
    /\ dlCooling \in BOOLEAN /\ dlStop \in {"running", "waiting", "returned"}
    /\ dlCtl.count <= DelayControls

\* A step of the delay node keeps its types.
LEMMA DlKeepsTypes ==
    ASSUME DlTypes, DlTypes', DlRestTyped, [DelayNext]_delayVars
    PROVE  DlRestTyped'
<1>1. /\ Len(dlQueue) \in Nat /\ dlQueue \in Seq(DelayMsg) /\ dlPending \in Int
      /\ DelayQueueLen \in Nat /\ DelayControls \in Nat
  BY DelayAssumption DEF DlTypes
<1>2. dlQueue # <<>> => Len(Tail(dlQueue)) <= DelayQueueLen
  BY <1>1 DEF DlRestTyped
<1>3. Len(dlQueue) < DelayQueueLen => \A m \in DelayMsg : Len(Append(dlQueue, m)) <= DelayQueueLen
  BY <1>1
<1>4. dlShown' \in Int
  BY <1>1, Zenon DEF DelayNext, DelayProgress, delayVars, DlRestTyped, DelayHandleTimed,
     DelayHandleDrop, DelayHandleOther, DelayHandleQueue, DelayControl, DelayCooled, DelayWorkerTick,
     DelayStop, DelayGo, DelayEvict, DelayPush, DelayAdd, DelayShow, DelayDrain, DelayWake,
     DelayUncount, DelayExit, DelayWorkerSend, DelayWorkerCount, DelayWorkerDone, DelayStopped
<1>5. dlCooling' \in BOOLEAN
  BY Zenon DEF DelayNext, DelayProgress, delayVars, DlRestTyped, DelayHandleTimed,
     DelayHandleDrop, DelayHandleOther, DelayHandleQueue, DelayControl, DelayCooled, DelayWorkerTick,
     DelayStop, DelayGo, DelayEvict, DelayPush, DelayAdd, DelayShow, DelayDrain, DelayWake,
     DelayUncount, DelayExit, DelayWorkerSend, DelayWorkerCount, DelayWorkerDone, DelayStopped
<1>6. dlStop' \in {"running", "waiting", "returned"} /\ dlReset' \subseteq DelayMsg
  BY Zenon DEF DelayNext, DelayProgress, delayVars, DlRestTyped, DelayHandleTimed,
     DelayHandleDrop, DelayHandleOther, DelayHandleQueue, DelayControl, DelayCooled, DelayWorkerTick,
     DelayStop, DelayGo, DelayEvict, DelayPush, DelayAdd, DelayShow, DelayDrain, DelayWake,
     DelayUncount, DelayExit, DelayWorkerSend, DelayWorkerCount, DelayWorkerDone, DelayStopped
<1>7. dlCtl'.count <= DelayControls
  <2>1. CASE \E kind \in {"reset", "flush"} : DelayControl(kind)
    BY <2>1, <1>1 DEF DelayControl, DlTypes, DlRestTyped
  <2>2. CASE ~\E kind \in {"reset", "flush"} : DelayControl(kind)
    <3>1. dlCtl' = dlCtl \/ dlCtl' = [dlCtl EXCEPT !.bypassed = TRUE]
      BY <2>2, Zenon DEF DelayNext, DelayProgress, delayVars, DelayHandleTimed,
       DelayHandleDrop, DelayHandleOther, DelayHandleQueue, DelayCooled, DelayWorkerTick,
       DelayStop, DelayGo, DelayEvict, DelayPush, DelayAdd, DelayShow, DelayDrain, DelayWake,
       DelayUncount, DelayExit, DelayWorkerSend, DelayWorkerCount, DelayWorkerDone, DelayStopped
    <3> QED BY <3>1 DEF DlTypes, DlRestTyped
  <2> QED BY <2>1, <2>2
<1>8. Len(dlQueue') <= DelayQueueLen
  <2>1. CASE DelayPush
    <3>1. CASE Len(dlQueue) < DelayQueueLen
      <4>1. dlQueue' = Append(dlQueue, dlLoop.msg)
        BY <2>1, <3>1 DEF DelayPush
      <4>2. Len(dlQueue') = Len(dlQueue) + 1
        BY <4>1, <1>1
      <4> QED BY <4>2, <3>1, <1>1
    <3>2. CASE ~(Len(dlQueue) < DelayQueueLen)
      BY <2>1, <3>2 DEF DelayPush, DlRestTyped
    <3> QED BY <3>1, <3>2
  <2>2. CASE ~DelayPush
    <3>1. dlQueue' = dlQueue \/ (dlQueue # <<>> /\ dlQueue' = Tail(dlQueue))
      BY <2>2, Zenon DEF DelayNext, DelayProgress, delayVars, DelayHandleTimed,
       DelayHandleDrop, DelayHandleOther, DelayHandleQueue, DelayControl, DelayCooled, DelayWorkerTick,
       DelayStop, DelayGo, DelayEvict, DelayAdd, DelayShow, DelayDrain, DelayWake,
       DelayUncount, DelayExit, DelayWorkerSend, DelayWorkerCount, DelayWorkerDone, DelayStopped
    <3> QED BY <3>1, <1>2 DEF DlRestTyped
  <2> QED BY <2>1, <2>2
<1> QED
  BY <1>4, <1>5, <1>6, <1>7, <1>8 DEF DlRestTyped

\* The delay node begins typed.
LEMMA DlBeginsTyped == DelayInit => DlRestTyped
<1> SUFFICES ASSUME DelayInit PROVE DlRestTyped
  OBVIOUS
<1>1. dlReset = {} /\ Len(dlQueue) = 0 /\ dlShown = 0 /\ dlCtl.count = 0
  BY DEF DelayInit
<1>2. dlCooling \in BOOLEAN /\ dlStop \in {"running", "waiting", "returned"}
  BY Zenon DEF DelayInit
<1> QED
  BY <1>1, <1>2, DelayAssumption DEF DlRestTyped

\* The types of the delay node.
LEMMA DlTyped == ASSUME DlTypes, DlRestTyped PROVE DelayTypeOK
<1>1. dlCtl \in [count : 0 .. DelayControls, bypassed : BOOLEAN]
  BY DelayAssumption DEF DlTypes, DlRestTyped
<1> QED
  BY <1>1, Zenon DEF DlTypes, DlRestTyped, DelayTypeOK

-----------------------------------------------------------------------------
(* tcp-request. *)

\* What the invariant leaves open of the types of tcp-request is trStopped.
LEMMA TrTyped ==
    /\ TrInit => trStopped \in BOOLEAN
    /\ trStopped \in BOOLEAN /\ [TrNext]_trVars => (trStopped \in BOOLEAN)'
    /\ TrInv /\ trStopped \in BOOLEAN => TrTypeOK
<1>1. TrInit => trStopped \in BOOLEAN
  BY DEF TrInit
<1>2. ASSUME trStopped \in BOOLEAN, [TrNext]_trVars PROVE trStopped' \in BOOLEAN
  BY <1>2, Zenon DEF TrNext, trVars, TrProgress, TrHandleMessage, TrRejected, TrStop, acquireConn, TrDial,
     TrStore, TrWrite, TrRead, TrRetry, TrReturn, TrAnswer, TrPeerCloses
<1>3. ASSUME TrInv, trStopped \in BOOLEAN PROVE TrTypeOK
  <2>1. trCall \in [pc : {"idle", "acquire", "dial", "store", "write", "read", "good", "bad"},
                 dest : TrDests, conn : 0 .. Len(trConns), outer : 0 .. Len(trConns),
                 reused : BOOLEAN, second : BOOLEAN, got : Seq(TrIds)]
    BY <1>3 DEF TrInv, TrTypes, TrCallStates
  <2> QED BY <1>3, <2>1, Zenon DEF TrInv, TrTypes, TrConn, TrBudgetType, TrTypeOK
<1> QED
  BY <1>1, <1>2, <1>3

-----------------------------------------------------------------------------
(* tcp-out as a client. *)
ToRestTyped ==
    /\ Len(toQueue) <= ToQueue /\ toStop \in {"no", "closing", "waiting", "returned"}
    /\ \A i \in 1 .. Len(toSent) : toSent[i].conn \in 1 .. Len(toConns)
    /\ toFaults \in 0 .. ToFaults

\* The connections of a step are those before it, and at most one more.
LEMMA ToKeepsConns ==
    ASSUME ToInv, [ToNext]_toVars
    PROVE  Len(toConns') \in Nat /\ Len(toConns) \in Nat /\ Len(toConns) <= Len(toConns')
<1>1. toConns \in Seq(ToConnRec) /\ Len(toConns) \in Nat
  BY DEF ToInv, ToSockets
<1>2. \/ toConns' = toConns
      \/ toConns' = [toConns EXCEPT ![toConn].open = FALSE]
      \/ \E r : toConns' = Append(toConns, r)
  BY Zenon DEF ToNext, ToWork, toVars, handleClient, ToTop, ToDial, ToStore, setClientConn, ToDrain,
     closeClientConn, ToWrite, ToSleep, ToStops
<1>3. CASE toConns' = [toConns EXCEPT ![toConn].open = FALSE]
  BY <1>1, <1>3
<1>4. ASSUME NEW r, toConns' = Append(toConns, r) PROVE Len(toConns') = Len(toConns) + 1
  BY <1>1, <1>4
<1> QED
  BY <1>1, <1>2, <1>3, <1>4

\* A step of tcp-out keeps its types.
LEMMA ToKeepsTypes ==
    ASSUME ToInv, ToRestTyped, [ToNext]_toVars
    PROVE  ToRestTyped'
<1>1. /\ toQueue \in Seq(ToMsg) /\ Len(toQueue) \in Nat
      /\ toSent \in Seq(ToSentRec) /\ Len(toSent) \in Nat
      /\ toConn \in 0 .. Len(toConns) /\ toWorker.conn \in 0 .. Len(toConns)
      /\ toWorker.at = "write" => toWorker.conn # 0
      /\ ToQueue \in Nat /\ ToFaults \in Nat
  BY ToAssumption DEF ToInv, ToMessages, ToSockets
<1>2. Len(toConns') \in Nat /\ Len(toConns) \in Nat /\ Len(toConns) <= Len(toConns')
  BY ToKeepsConns
<1>3. Len(toQueue') <= ToQueue
  <2>1. CASE \E a \in ToAddrs, c \in BOOLEAN : handleClient(a, c)
    <3>1. CASE Len(toQueue) < ToQueue
      <4>1. PICK r : toQueue' = Append(toQueue, r)
        BY <2>1, <3>1, Zenon DEF handleClient
      <4>2. Len(toQueue') = Len(toQueue) + 1
        BY <4>1, <1>1
      <4> QED BY <4>2, <3>1, <1>1
    <3>2. CASE ~(Len(toQueue) < ToQueue)
      BY <2>1, <3>2 DEF handleClient, ToRestTyped
    <3> QED BY <3>1, <3>2
  <2>2. CASE ~\E a \in ToAddrs, c \in BOOLEAN : handleClient(a, c)
    <3>1. toQueue' = toQueue \/ (toQueue # <<>> /\ toQueue' = Tail(toQueue))
      BY <2>2, Zenon DEF ToNext, ToWork, toVars, ToTop, ToDial, ToStore, ToDrain, ToWrite, ToSleep, ToStops
    <3>2. toQueue # <<>> => Len(Tail(toQueue)) <= ToQueue
      BY <1>1 DEF ToRestTyped
    <3> QED BY <3>1, <3>2 DEF ToRestTyped
  <2> QED BY <2>1, <2>2
<1>4. toStop' \in {"no", "closing", "waiting", "returned"}
  BY Zenon DEF ToNext, ToWork, toVars, handleClient, ToTop, ToDial, ToStore, ToDrain, ToWrite, ToSleep, ToStops,
     ToRestTyped
<1>5. toFaults' \in 0 .. ToFaults
  <2>1. toFaults' = toFaults \/ (toFaults > 0 /\ toFaults' = toFaults - 1)
    <3>1. CASE ToWrite
      BY <3>1 DEF ToWrite
    <3>2. CASE ~ToWrite
      BY <3>2, Zenon DEF ToNext, ToWork, toVars, handleClient, ToTop, ToDial, ToStore, ToDrain, ToSleep, ToStops
    <3> QED BY <3>1, <3>2
  <2> QED BY <1>1, <2>1 DEF ToRestTyped
<1>6. \A i \in 1 .. Len(toSent') : toSent'[i].conn \in 1 .. Len(toConns')
  <2>1. \/ toSent' = toSent
        \/ /\ toWorker.at = "write"
           /\ toSent' = Append(toSent, [id |-> toWorker.msg.id, conn |-> toWorker.conn])
    BY Zenon DEF ToNext, ToWork, toVars, handleClient, ToTop, ToDial, ToStore, ToDrain, ToWrite, ToSleep, ToStops
  <2>2. CASE toSent' = toSent
    BY <1>1, <1>2, <2>2 DEF ToRestTyped
  <2>3. CASE toSent' # toSent
    <3> DEFINE r == [id |-> toWorker.msg.id, conn |-> toWorker.conn]
    <3>1. r.conn \in 1 .. Len(toConns)
      BY <1>1, <2>1, <2>3, <1>2
    <3>2. toSent' = Append(toSent, r)
      BY <2>1, <2>3
    <3> HIDE DEF r
    <3>3. /\ Len(toSent') = Len(toSent) + 1
          /\ \A i \in 1 .. Len(toSent') : toSent'[i] = IF i = Len(toSent) + 1 THEN r ELSE toSent[i]
      BY <1>1, <3>2
    <3>4. \A i \in 1 .. Len(toSent) + 1 : i = Len(toSent) + 1 \/ i \in 1 .. Len(toSent)
      BY <1>1
    <3>5. 1 .. Len(toConns) \subseteq 1 .. Len(toConns')
      BY <1>2
    <3> QED BY <3>1, <3>3, <3>4, <3>5 DEF ToRestTyped
  <2> QED BY <2>2, <2>3
<1> QED
  BY <1>3, <1>4, <1>5, <1>6 DEF ToRestTyped

\* tcp-out begins typed.
LEMMA ToBeginsTyped == ToInit => ToRestTyped
BY ToAssumption DEF ToInit, ToRestTyped

\* The types of tcp-out.
LEMMA ToTyped == ASSUME ToInv, ToRestTyped PROVE ToTypeOK
<1>1. toSent \in Seq([id : 1 .. ToMsgs, conn : 1 .. Len(toConns)])
  <2>1. toSent \in Seq(ToSentRec) /\ Len(toSent) \in Nat
    BY DEF ToInv, ToMessages
  <2>2. \A i \in 1 .. Len(toSent) : toSent[i] \in ToSentRec
    BY <2>1
  <2>3. \A i \in 1 .. Len(toSent) : toSent[i] \in [id : 1 .. ToMsgs, conn : 1 .. Len(toConns)]
    BY <2>2 DEF ToSentRec, ToRestTyped
  <2> QED BY <2>1, <2>3, SeqOfElements, Zenon
<1>2. toReported \subseteq 1 .. ToMsgs
  <2>1. toReported \subseteq 1 .. toHandled /\ toHandled \in 0 .. ToMsgs
    BY DEF ToInv, ToMessages, ToBook
  <2> QED BY <2>1, ToAssumption
<1>3. /\ toWorker.at \in {"top", "dial", "store", "drain", "write", "sleep", "gone"}
      /\ toWorker.msg \in ToMsg \cup {ToNoMsg}
  BY DEF ToInv, ToWorkerOK
<1> QED
  BY <1>1, <1>2, <1>3, Zenon DEF ToInv, ToSockets, ToMessages, ToRestTyped, ToTypeOK, ToConnRec

-----------------------------------------------------------------------------
(* The udp nodes: a message opens one socket at most, and a loop ends once. *)
UdTyped ==
    /\ UdTypeOK
    /\ uoMade <= uoCount /\ (uoCall.pc \in {"acquire", "open"} => uoMade < uoCount)
    /\ uiQueue <= uiSeen
    /\ uiPhase = "new" => uiLoop = "none" /\ uiErrors = 0
    /\ uiLoop # "gone" => uiErrors <= 1

\* Types of the udp nodes, which the numbers of messages and loops bound.
LEMMA UdKeepsTypes ==
    /\ UdInit => UdTyped
    /\ UdTyped /\ [UdNext]_udVars => UdTyped'
<1>1. ASSUME UdInit PROVE UdTyped
  <2>1. /\ uoMade = 0 /\ uoOpen = {} /\ uoConn = 0 /\ uoCount = 0 /\ uiQueue = 0 /\ uiSeen = 0
        /\ uiErrors = 0 /\ uoCall = UdIdle /\ uiLoop = "none"
    BY <1>1 DEF UdInit
  <2>2. /\ uoCall \in [pc : {"idle", "acquire", "open", "store", "write", "close"}, conn : 0 .. uoMade]
        /\ uoCall.pc = "idle"
    BY <2>1 DEF UdIdle
  <2>3. /\ uoReuse \in UdReuses /\ uoStopped \in BOOLEAN
        /\ uiPhase \in {"new", "failed", "listening", "stopping", "stopped"}
        /\ uiSocket \in {"none", "open", "closed"} /\ uiShown \in {"none", "red", "green"}
    BY <1>1, Zenon DEF UdInit
  <2>4. uiLoop \in {"none", "reading", "got", "gone"}
    BY <2>1
  <2> QED BY <2>1, <2>2, <2>3, <2>4, UdAssumption DEF UdTyped, UdTypeOK
<1>2. ASSUME UdTyped, [UdNext]_udVars PROVE UdTyped'
  <2> USE <1>2, UdAssumption DEF UdTyped, UdTypeOK
  <2>1. CASE UoHandleMessage
    BY <2>1 DEF UoHandleMessage, UdIdle, uiVars
  <2>2. CASE acquireSocket
    BY <2>2 DEF acquireSocket, UdIdle, uiVars
  <2>3. CASE sendDatagram
    BY <2>3 DEF sendDatagram, UdIdle, uiVars
  <2>4. CASE UoDeferredClose
    BY <2>4 DEF UoDeferredClose, closeSocket, UdIdle, uiVars
  <2>5. CASE UoStop
    BY <2>5 DEF UoStop, closeSocket, uiVars
  <2>6. CASE UiStart
    BY <2>6 DEF UiStart, uoVars
  <2>7. CASE UiArrive
    BY <2>7 DEF UiArrive, uoVars
  <2>8. CASE readLoop
    BY <2>8 DEF readLoop, uoVars
  <2>9. CASE UiReadError
    BY <2>9 DEF UiReadError, uoVars
  <2>10. CASE UiStop
    BY <2>10 DEF UiStop, uoVars
  <2>11. CASE UNCHANGED udVars
    BY <2>11 DEF udVars
  <2> QED BY <2>1, <2>2, <2>3, <2>4, <2>5, <2>6, <2>7, <2>8, <2>9, <2>10, <2>11 DEF UdNext
<1> QED
  BY <1>1, <1>2

-----------------------------------------------------------------------------
(* The log buffer: an entry is one of those that were added. *)
LbRestTyped ==
    /\ lbSeq <= LbEntries /\ lbRing \in [0 .. LbCap - 1 -> 0 .. lbSeq]
    /\ lbDropped \subseteq 1 .. lbSeq /\ lbShown \subseteq 1 .. lbSeq /\ lbLast \in 0 .. lbSeq

\* Steps of the log keep its types.
LEMMA LbKeepsTypes ==
    ASSUME LbInv, LbRestTyped, [LbNext]_lbVars
    PROVE  LbRestTyped'
<1>1. /\ lbSeq \in Nat /\ LbEntries \in Nat /\ LbCap \in Nat /\ lbSeq <= LbEntries
      /\ lbRing \in [0 .. LbCap - 1 -> 0 .. lbSeq] /\ lbHead \in 0 .. LbCap - 1
      /\ lbDropped \subseteq 1 .. lbSeq /\ lbShown \subseteq 1 .. lbSeq /\ lbLast \in 0 .. lbSeq
      /\ lbNotify \in [LbLoggers -> Nat] /\ lbSent \in Nat /\ Len(lbPushed) \in Nat /\ lbSent <= Len(lbPushed)
      /\ lbFrom \in Nat
  BY LbAssumption DEF LbInv, LbTypes, LbRestTyped
<1>2. CASE UNCHANGED lbVars
  BY <1>2 DEF lbVars, lbRingVars, lbHubVars, lbRowVars, LbRestTyped
<1>3. ASSUME NEW g \in LbLoggers, Add(g) PROVE LbRestTyped'
  <2>1. /\ lbSeq < LbEntries /\ lbSeq' = lbSeq + 1 /\ lbRing' = [lbRing EXCEPT ![lbHead] = lbSeq + 1]
        /\ lbDropped' = lbDropped /\ lbShown' = lbShown /\ lbLast' = lbLast
    BY <1>3 DEF Add, lbHubVars, lbRowVars
  <2>2. 0 .. lbSeq \subseteq 0 .. lbSeq + 1 /\ 1 .. lbSeq \subseteq 1 .. lbSeq + 1 /\ lbSeq + 1 \in 0 .. lbSeq + 1
        /\ lbSeq + 1 <= LbEntries
    BY <1>1, <2>1
  <2>3. lbRing' \in [0 .. LbCap - 1 -> 0 .. lbSeq + 1]
    BY <1>1, <2>1, <2>2
  <2> QED BY <1>1, <2>1, <2>2, <2>3 DEF LbRestTyped
<1>4. ASSUME NEW g \in LbLoggers, Notify(g) PROVE LbRestTyped'
  BY <1>4 DEF Notify, LbRestTyped, lbRingVars, lbRowVars
<1>5. ASSUME NEW g \in LbLoggers, NotifyDropped(g) PROVE LbRestTyped'
  <2>1. lbNotify[g] # 0 /\ lbNotify[g] <= lbSeq /\ lbNotify[g] \in Nat
    BY <1>1, <1>5 DEF NotifyDropped, LbInv, LbStream
  <2>2. lbNotify[g] \in 1 .. lbSeq
    BY <1>1, <2>1
  <2> QED BY <1>1, <1>5, <2>2 DEF NotifyDropped, LbRestTyped, lbRingVars, lbRowVars
<1>6. ASSUME NEW n, OpenPanel(n) PROVE LbRestTyped'
  BY <1>1, <1>6 DEF OpenPanel, PanelReset, LbRestTyped, lbRingVars, lbHubVars
<1>7. CASE ClosePanel
  BY <1>1, <1>7 DEF ClosePanel, PanelReset, LbRestTyped, lbRingVars, lbHubVars
<1>8. CASE Fetch \/ FetchFails
  BY <1>8 DEF Fetch, FetchFails, LbRestTyped, lbRingVars, lbHubVars, lbRowVars
<1>9. \A k \in 1 .. Len(lbPushed) : lbPushed[k] \in 1 .. lbSeq
  BY DEF LbInv, LbStream, LbEntry
<1>10. CASE Merge
  <2>1. /\ lbShown' = lbInitial \cup {lbPushed[k] : k \in LbFresh}
        /\ (lbLast' = lbTop \/ \E k \in LbFresh : lbLast' = lbPushed[k])
        /\ lbRing' = lbRing /\ lbSeq' = lbSeq /\ lbDropped' = lbDropped
    BY <1>10 DEF Merge, lbRingVars, lbHubVars
  <2>2. \A k \in LbFresh : lbPushed[k] \in 1 .. lbSeq
    <3>1. \A k \in LbFresh : k \in 1 .. Len(lbPushed)
      BY <1>1 DEF LbFresh
    <3> QED BY <1>9, <3>1
  <2>3. lbInitial \subseteq 1 .. lbSeq /\ lbTop \in 0 .. lbSeq
    BY <1>1 DEF LbInv, LbPanel, LbAnswer
  <2>4. lbShown' \subseteq 1 .. lbSeq
    BY <2>1, <2>2, <2>3
  <2>5. lbLast' \in 0 .. lbSeq
    <3>1. 1 .. lbSeq \subseteq 0 .. lbSeq
      BY <1>1
    <3> QED BY <2>1, <2>2, <2>3, <3>1
  <2> QED BY <1>1, <2>1, <2>4, <2>5 DEF LbRestTyped
<1>11. CASE Deliver
  <2> DEFINE e == lbPushed[lbSent + 1]
  <2>1. lbRing' = lbRing /\ lbSeq' = lbSeq /\ lbDropped' = lbDropped
    BY <1>11 DEF Deliver, lbRingVars
  <2>2. (lbShown' = lbShown \cup {e} /\ lbLast' = e) \/ (lbShown' = lbShown /\ lbLast' = lbLast)
    BY <1>11, Zenon DEF Deliver, lbRowVars
  <2>3. lbSent + 1 \in 1 .. Len(lbPushed)
    BY <1>1, <1>11 DEF Deliver
  <2>4. e \in 1 .. lbSeq /\ e \in 0 .. lbSeq
    BY <1>1, <1>9, <2>3
  <2> HIDE DEF e
  <2> QED BY <1>1, <2>1, <2>2, <2>4 DEF LbRestTyped
<1> QED
  BY <1>2, <1>3, <1>4, <1>5, <1>6, <1>7, <1>8, <1>10, <1>11 DEF LbNext

\* The log begins typed.
LEMMA LbBeginsTyped == LbInit => LbRestTyped
BY LbAssumption DEF LbInit, LbRestTyped

\* The types of the log.
LEMMA LbTyped == ASSUME LbInv, LbRestTyped PROVE LbTypeOK
<1>1. /\ lbSeq \in Nat /\ LbEntries \in Nat /\ lbSeq <= LbEntries
      /\ lbSent \in Nat /\ Len(lbPushed) \in Nat /\ lbSent <= Len(lbPushed) /\ lbFrom \in Nat /\ lbFrom <= lbSent
      /\ lbNotify \in [LbLoggers -> Nat] /\ lbPushed \in Seq(Nat)
  BY LbAssumption DEF LbInv, LbTypes, LbRestTyped
<1>2. /\ 0 .. lbSeq \subseteq 0 .. LbEntries /\ 1 .. lbSeq \subseteq 1 .. LbEntries /\ lbSeq \in 0 .. LbEntries
      /\ lbSent \in 0 .. Len(lbPushed) /\ lbFrom \in 0 .. lbSent
  BY <1>1
<1>3. /\ lbRing \in [0 .. LbCap - 1 -> 0 .. LbEntries] /\ lbDropped \subseteq 1 .. LbEntries
      /\ lbShown \subseteq 1 .. LbEntries /\ lbLast \in 0 .. LbEntries
  BY <1>2 DEF LbRestTyped
<1>4. lbNotify \in [LbLoggers -> 0 .. LbEntries]
  <2>1. \A g \in LbLoggers : lbNotify[g] \in 0 .. lbSeq
    BY <1>1 DEF LbInv, LbStream
  <2> QED BY <1>1, <1>2, <2>1
<1>5. lbPushed \in Seq(1 .. LbEntries)
  <2>1. \A k \in 1 .. Len(lbPushed) : lbPushed[k] \in 1 .. LbEntries
    BY <1>2 DEF LbInv, LbStream, LbEntry
  <2> QED BY <1>1, <2>1, SeqOfElements
<1>6. /\ lbTop \in 0 .. LbEntries /\ lbSince \in 0 .. LbEntries /\ lbInitial \subseteq 1 .. LbEntries
  BY <1>1 DEF LbInv, LbPanel, LbAnswer
<1> QED
  BY <1>2, <1>3, <1>4, <1>5, <1>6, Zenon DEF LbInv, LbTypes, LbTypeOK

-----------------------------------------------------------------------------
(* file-watch: no time is later than the clock. *)
FwTyped ==
    /\ FwTypeOK
    /\ fwClock \in 0 .. Len(FwTimes)
    /\ fwLoop \in [step : FwSteps, scan : [FwFiles -> -1 .. Len(FwTimes)]]
    /\ fwLoop.step \in {"send", "save"} => fwLoop.scan \in [FwFiles -> 0 .. Len(FwTimes)]

\* Types of file-watch, whatever the texts of the times are.
LEMMA FwKeepsTypes ==
    /\ FwInit => FwTyped
    /\ FwTyped /\ [FwNext]_fwVars => FwTyped'
<1>0. Len(FwTimes) \in Nat
  BY FwAssumption
<1> DEFINE N == Len(FwTimes)
<1>a. /\ FwAbsent \in [FwFiles -> -1 .. N]
      /\ FwIdle \in [step : FwSteps, scan : [FwFiles -> -1 .. N]] /\ FwIdle.step = "wait"
      /\ [FwFiles -> 0 .. N] \subseteq [FwFiles -> -1 .. N]
      /\ [f \in FwFiles |-> 0] \in [FwFiles -> 0 .. N]
  BY <1>0 DEF FwAbsent, FwIdle, FwSteps
<1> HIDE DEF N
<1>1. ASSUME FwInit PROVE FwTyped
  <2>1. /\ fwMode \in FwModes /\ fwFromStart \in BOOLEAN /\ fwMask \in FwMasks /\ fwNode = "new" /\ fwEvents \in BOOLEAN
        /\ fwFolder = [f \in FwFiles |-> 0] /\ fwTold = [f \in FwFiles |-> 0] /\ fwMap = FwAbsent
        /\ fwLoop = FwIdle /\ fwMissed = {} /\ fwClock = 0
    BY <1>1, Zenon DEF FwInit
  <2>2. fwClock \in 0 .. N
    BY <2>1, <1>0 DEF N
  <2> QED BY <1>a, <2>1, <2>2, Zenon DEF FwTyped, FwTypeOK, FwSteps, N
<1>2. ASSUME FwTyped, [FwNext]_fwVars PROVE FwTyped'
  <2>0. /\ fwMode \in FwModes /\ fwFromStart \in BOOLEAN /\ fwMask \in FwMasks
        /\ fwNode \in {"new", "baseline", "run", "stopping", "stopped"}
        /\ fwFolder \in [FwFiles -> 0 .. N] /\ fwMap \in [FwFiles -> -1 .. N]
        /\ fwEvents \in BOOLEAN /\ fwTold \in [FwFiles -> 0 .. N] /\ fwMissed \subseteq FwFiles
        /\ fwClock \in 0 .. N
        /\ fwLoop \in [step : FwSteps, scan : [FwFiles -> -1 .. N]]
        /\ fwLoop.step \in {"send", "save"} => fwLoop.scan \in [FwFiles -> 0 .. N]
    BY <1>2, Zenon DEF FwTyped, FwTypeOK, N
  <2>1. fwMode' \in FwModes /\ fwFromStart' \in BOOLEAN /\ fwMask' \in FwMasks
    BY <1>2, <2>0, Zenon DEF FwNext, FwProgress, fwVars, FwChange, FwStart, FwStop, FwCrash,
       FwHandleMessage, FwBaseline, FwStopped, FwWait, FwScan, FwSend, FwSave,
       FwFailure, FwStartFails, FwScanFails, FwLoadFails, FwSaveFails
  <2>2. fwNode' \in {"new", "baseline", "run", "stopping", "stopped"}
    BY <1>2, <2>0, Zenon DEF FwNext, FwProgress, fwVars, FwChange, FwStart, FwStop, FwCrash,
       FwHandleMessage, FwBaseline, FwStopped, FwWait, FwScan, FwSend, FwSave,
       FwFailure, FwStartFails, FwScanFails, FwLoadFails, FwSaveFails
  <2>3. fwEvents' \in BOOLEAN
    BY <1>2, <2>0, Zenon DEF FwNext, FwProgress, fwVars, FwChange, FwStart, FwStop, FwCrash,
       FwHandleMessage, FwBaseline, FwStopped, FwWait, FwScan, FwSend, FwSave,
       FwFailure, FwStartFails, FwScanFails, FwLoadFails, FwSaveFails
  <2>4. fwMissed' \subseteq FwFiles
    <3>1. FwWrong \subseteq FwFiles /\ FwUntold(fwLoop.scan, fwMap) \subseteq FwFiles
      BY DEF FwWrong, FwUntold
    <3> QED
      BY <1>2, <2>0, <3>1, Zenon DEF FwNext, FwProgress, fwVars, FwChange, FwStart, FwStop, FwCrash,
         FwHandleMessage, FwBaseline, FwStopped, FwWait, FwScan, FwSend, FwSave,
         FwFailure, FwStartFails, FwScanFails, FwLoadFails, FwSaveFails
  <2>5. fwClock' \in 0 .. N /\ fwFolder' \in [FwFiles -> 0 .. N]
    <3>1. ASSUME NEW f \in FwFiles, FwChange(f)
          PROVE  fwClock' \in 0 .. N /\ fwFolder' \in [FwFiles -> 0 .. N]
      <4>1. /\ fwClock < N /\ fwClock' = fwClock + 1
            /\ \/ fwFolder' = [fwFolder EXCEPT ![f] = fwClock']
               \/ fwFolder' = [fwFolder EXCEPT ![f] = 0]
        BY <3>1 DEF FwChange, N
      <4>2. N \in Nat
        BY <1>0 DEF N
      <4>3. fwClock' \in 0 .. N /\ 0 \in 0 .. N
        BY <2>0, <4>1, <4>2
      <4> QED BY <2>0, <4>1, <4>3
    <3>2. CASE ~\E f \in FwFiles : FwChange(f)
      BY <1>2, <2>0, <3>2, Zenon DEF FwNext, FwProgress, fwVars, FwStart, FwStop, FwCrash,
         FwHandleMessage, FwBaseline, FwStopped, FwWait, FwScan, FwSend, FwSave,
       FwFailure, FwStartFails, FwScanFails, FwLoadFails, FwSaveFails
    <3> QED BY <3>1, <3>2
  <2>6. fwMap' \in [FwFiles -> -1 .. N]
    <3>1. \/ fwMap' = fwMap \/ fwMap' = fwFolder \/ fwMap' = [f \in FwFiles |-> 0]
          \/ fwMap' = FwAbsent
          \/ fwLoop.step = "save" /\ fwMap' = fwLoop.scan
      BY <1>2, Zenon DEF FwNext, FwProgress, fwVars, FwChange, FwStart, FwStop, FwCrash,
         FwHandleMessage, FwBaseline, FwStopped, FwWait, FwScan, FwSend, FwSave,
       FwFailure, FwStartFails, FwScanFails, FwLoadFails, FwSaveFails, scanFolder
    <3>2. /\ fwFolder \in [FwFiles -> -1 .. N] /\ [f \in FwFiles |-> 0] \in [FwFiles -> -1 .. N]
          /\ FwAbsent \in [FwFiles -> -1 .. N]
      BY <1>a, <2>0, Zenon
    <3>3. fwLoop.scan \in [FwFiles -> -1 .. N]
      BY <2>0
    <3> QED BY <2>0, <3>1, <3>2, <3>3, Zenon
  <2>7. fwTold' \in [FwFiles -> 0 .. N]
    <3>1. CASE FwBaseline
      BY <1>a, <2>0, <3>1, Zenon DEF FwBaseline, scanFolder
    <3>2. CASE FwSend
      <4>1. fwLoop.scan \in [FwFiles -> 0 .. N]
        BY <2>0, <3>2 DEF FwSend
      <4>2. fwTold' = [f \in FwFiles |-> IF f \in FwDiff(fwLoop.scan, fwMap) THEN fwLoop.scan[f]
                                         ELSE fwTold[f]]
        BY <3>2, Zenon DEF FwSend
      <4> QED BY <2>0, <4>1, <4>2
    <3>3. CASE FwHandleMessage
      <4>1. \/ fwTold' = fwFolder \/ fwTold' = fwTold
            \/ fwTold' = [f \in FwFiles |-> IF f \in filterIncremental THEN fwFolder[f] ELSE fwTold[f]]
        BY <3>3, Zenon DEF FwHandleMessage, scanFolder
      <4> QED BY <2>0, <4>1
    <3>4. CASE ~(FwBaseline \/ FwSend \/ FwHandleMessage)
      <4>1. fwTold' = fwTold
        BY <1>2, <3>4, Zenon DEF FwNext, FwProgress, fwVars, FwChange, FwStart, FwStop, FwCrash,
           FwStopped, FwWait, FwScan, FwSave, FwFailure, FwStartFails, FwScanFails, FwLoadFails,
           FwSaveFails
      <4> QED BY <2>0, <4>1
    <3> QED BY <3>1, <3>2, <3>3, <3>4
  <2>8. /\ fwLoop' \in [step : FwSteps, scan : [FwFiles -> -1 .. N]]
        /\ fwLoop'.step \in {"send", "save"} => fwLoop'.scan \in [FwFiles -> 0 .. N]
    <3>1. \/ fwLoop' = fwLoop \/ fwLoop' = FwIdle
          \/ fwLoop' = [step |-> "send", scan |-> fwFolder]
          \/ fwLoop' = [step |-> "send", scan |-> [f \in FwFiles |-> 0]]
          \/ fwLoop.step = "send" /\ fwLoop' = [fwLoop EXCEPT !.step = "save"]
          \/ \E s \in {"coalesce", "ended"} : fwLoop' = [fwLoop EXCEPT !.step = s]
      BY <1>2, Zenon DEF FwNext, FwProgress, fwVars, FwChange, FwStart, FwStop, FwCrash,
         FwHandleMessage, FwBaseline, FwStopped, FwWait, FwScan, FwSend, FwSave,
       FwFailure, FwStartFails, FwScanFails, FwLoadFails, FwSaveFails, scanFolder
    <3>2. CASE fwLoop' = fwLoop \/ fwLoop' = FwIdle
      BY <1>a, <2>0, <3>2, Zenon
    <3>3. CASE fwLoop' = [step |-> "send", scan |-> fwFolder]
      <4>1. fwFolder \in [FwFiles -> -1 .. N]
        BY <1>a, <2>0, Zenon
      <4> QED BY <2>0, <3>3, <4>1 DEF FwSteps
    <3>6. CASE fwLoop' = [step |-> "send", scan |-> [f \in FwFiles |-> 0]]
      <4> DEFINE Zero == [f \in FwFiles |-> 0]
      <4>1. Zero \in [FwFiles -> -1 .. N] /\ Zero \in [FwFiles -> 0 .. N]
        BY <1>a, Zenon
      <4>2. fwLoop' = [step |-> "send", scan |-> Zero]
        BY <3>6
      <4> HIDE DEF Zero
      <4> QED BY <4>1, <4>2 DEF FwSteps
    <3>4. CASE fwLoop.step = "send" /\ fwLoop' = [fwLoop EXCEPT !.step = "save"]
      BY <2>0, <3>4 DEF FwSteps
    <3>5. CASE \E s \in {"coalesce", "ended"} : fwLoop' = [fwLoop EXCEPT !.step = s]
      BY <2>0, <3>5 DEF FwSteps
    <3> QED BY <3>1, <3>2, <3>3, <3>4, <3>5, <3>6
  <2>9. fwLoop'.step \in FwSteps
    BY <2>8
  <2> QED BY <2>1, <2>2, <2>3, <2>4, <2>5, <2>6, <2>7, <2>8, <2>9, Zenon DEF FwTyped, FwTypeOK, FwSteps, N
<1> QED
  BY <1>1, <1>2

-----------------------------------------------------------------------------
(* The framers: what they keep and emit are bytes that were read. *)

\* A frame cut out of the buffer, and the rest, are of the buffer's bytes.
LEMMA FrCutTypes ==
    ASSUME NEW S, NEW b \in Seq(S), NEW skip \in Nat, NEW n \in Nat, NEW after \in Nat,
           skip + n + after <= Len(b)
    PROVE  /\ SubSeq(b, skip + 1, skip + n) \in Seq(S)
           /\ SubSeq(b, skip + n + after + 1, Len(b)) \in Seq(S)
<1>1. Len(b) \in Nat
  BY LenProperties
<1>2. /\ skip + 1 \in Int /\ skip + n \in Int /\ skip + n + after + 1 \in Int /\ Len(b) \in Int
      /\ \A i \in skip + 1 .. skip + n : i \in 1 .. Len(b)
      /\ \A i \in skip + n + after + 1 .. Len(b) : i \in 1 .. Len(b)
  BY <1>1
<1>3. \A i \in 1 .. Len(b) : b[i] \in S
  BY ElementOfSeq
<1>4. SubSeq(b, skip + 1, skip + n) \in Seq(S)
  BY <1>2, <1>3, SubSeqProperties
<1>5. SubSeq(b, skip + n + after + 1, Len(b)) \in Seq(S)
  BY <1>2, <1>3, SubSeqProperties
<1> QED
  BY <1>4, <1>5

\* A turn that cuts a frame off keeps the types.
LEMMA FrEmitTypes ==
    ASSUME FrTypeOK, NEW skip \in Nat, NEW n \in Nat, NEW after \in Nat,
           skip + n + after <= Len(frBuf), FrEmit(skip, n, after)
    PROVE  /\ frBuf' \in Seq(FrByte) /\ frOut' \in Seq(Seq(FrByte))
           /\ frBusy' \in BOOLEAN /\ frFailed' \in BOOLEAN
<1> DEFINE f == SubSeq(frBuf, skip + 1, skip + n)
           r == SubSeq(frBuf, skip + n + after + 1, Len(frBuf))
<1>1. frBuf \in Seq(FrByte) /\ frOut \in Seq(Seq(FrByte))
  BY Zenon DEF FrTypeOK
<1>2. f \in Seq(FrByte) /\ r \in Seq(FrByte)
  BY <1>1, FrCutTypes
<1>3. frOut' = Append(frOut, f) /\ frBuf' = r /\ frBusy' = frBusy /\ frFailed' = frFailed
  BY Zenon DEF FrEmit
<1> HIDE DEF f, r
<1>4. Append(frOut, f) \in Seq(Seq(FrByte))
  BY <1>1, <1>2
<1> QED
  BY <1>2, <1>3, <1>4, Zenon DEF FrTypeOK

\* So does every turn of every framer.
LEMMA FrTurnTypes ==
    ASSUME FrTypes, FrTypeOK, FrTurn
    PROVE  /\ frBuf' \in Seq(FrByte) /\ frOut' \in Seq(Seq(FrByte))
           /\ frBusy' \in BOOLEAN /\ frFailed' \in BOOLEAN
<1> DEFINE Good == /\ frBuf' \in Seq(FrByte) /\ frOut' \in Seq(Seq(FrByte))
                   /\ frBusy' \in BOOLEAN /\ frFailed' \in BOOLEAN
<1>0. /\ frBuf \in Seq(FrByte) /\ frFresh \in Seq(FrByte) /\ frOut \in Seq(Seq(FrByte))
      /\ <<>> \in Seq(FrByte) /\ frFailed \in BOOLEAN
      /\ Append(frOut, frFresh) \in Seq(Seq(FrByte))
  <2>1. frFresh \in Seq(FrByte) /\ frOut \in Seq(Seq(FrByte))
    BY Zenon DEF FrTypeOK
  <2>2. Append(frOut, frFresh) \in Seq(Seq(FrByte))
    BY <2>1
  <2> QED BY <2>2, EmptySeq, Zenon DEF FrTypeOK
<1>1. FrDone => Good
  BY <1>0, Zenon DEF FrDone
<1>2. FrError /\ (frBuf' = frBuf \/ frBuf' = <<>>) => Good
  BY <1>0, Zenon DEF FrError
<1>3. frBuf \in Seq(Nat) /\ Len(frBuf) \in Nat /\ frMode \in FrModes
  BY LenProperties, Zenon DEF FrTypes
<1>4. CASE frMode = "stream"
  <2>1. streamFramer
    BY <1>4 DEF FrTurn
  <2> QED BY <1>0, <1>2, <2>1, Zenon DEF streamFramer
<1>5. CASE frMode = "delimiter"
  <2>1. delimiterFramer
    BY <1>5 DEF FrTurn
  <2>2. CASE FrFound(frBuf) # {}
    <3>1. FrFirst(frBuf) \in FrFound(frBuf)
      BY <1>3, <2>2, FrFirstIs DEF FrIsFirst
    <3>2. /\ FrFirst(frBuf) \in 1 .. Len(frBuf)
          /\ FrFirst(frBuf) + Len(FrDelim) - 1 <= Len(frBuf)
      BY <3>1, Zenon DEF FrFound
    <3>3. FrEmit(0, FrFirst(frBuf) - 1, Len(FrDelim))
      BY <2>1, <2>2 DEF delimiterFramer
    <3>4. Len(FrDelim) \in Nat
      BY FrAssumption, LenProperties
    <3>5. FrFirst(frBuf) - 1 \in Nat /\ 0 + (FrFirst(frBuf) - 1) + Len(FrDelim) <= Len(frBuf)
      BY <1>3, <3>2, <3>4
    <3> QED BY <3>3, <3>4, <3>5, FrEmitTypes
  <2>3. CASE ~(FrFound(frBuf) # {})
    BY <1>1, <1>2, <2>1, <2>3, Zenon DEF delimiterFramer
  <2> QED BY <2>2, <2>3
<1>6. ASSUME NEW covers \in BOOLEAN, lengthPrefixFramer(covers) PROVE Good
  <2> DEFINE size == IF covers THEN frBuf[1] - 1 ELSE frBuf[1]
  <2>1. \/ FrDone
        \/ FrError /\ frBuf' = frBuf
        \/ /\ frBuf # <<>> /\ ~(covers /\ frBuf[1] < 1) /\ ~(Len(frBuf) < 1 + size)
           /\ FrEmit(1, size, 0)
    <3>1. ASSUME frBuf = <<>> PROVE FrDone
      BY <1>6, <3>1 DEF lengthPrefixFramer
    <3>2. CASE frBuf # <<>> /\ (covers /\ frBuf[1] < 1)
      BY <1>6, <3>2, Zenon DEF lengthPrefixFramer
    <3>3. CASE frBuf # <<>> /\ ~(covers /\ frBuf[1] < 1)
      <4>1. IF size > FrMax THEN FrError /\ UNCHANGED frBuf
            ELSE IF Len(frBuf) < 1 + size THEN FrDone ELSE FrEmit(1, size, 0)
        BY <1>6, <3>3, Zenon DEF lengthPrefixFramer
      <4> HIDE DEF size
      <4>2. CASE size > FrMax
        BY <4>1, <4>2, Zenon
      <4>3. ASSUME ~(size > FrMax), Len(frBuf) < 1 + size PROVE FrDone
        BY <4>1, <4>3
      <4>4. CASE ~(size > FrMax) /\ ~(Len(frBuf) < 1 + size)
        BY <3>3, <4>1, <4>4, Zenon
      <4> QED BY <4>2, <4>3, <4>4, Zenon
    <3> QED BY <3>1, <3>2, <3>3, Zenon
  <2>2. ASSUME frBuf # <<>>, ~(covers /\ frBuf[1] < 1), ~(Len(frBuf) < 1 + size), FrEmit(1, size, 0)
        PROVE  Good
    <3>1. frBuf[1] \in Nat
      BY <1>3, <2>2
    <3>2. size \in Nat
      BY <2>2, <3>1
    <3> HIDE DEF size
    <3>3. 1 + size + 0 <= Len(frBuf)
      BY <1>3, <2>2, <3>2
    <3> QED BY <2>2, <3>2, <3>3, FrEmitTypes
  <2> QED BY <1>1, <1>2, <2>1, <2>2
<1>7. CASE frMode = "fixed"
  <2>1. fixedLengthFramer
    BY <1>7 DEF FrTurn
  <2>2. CASE Len(frBuf) >= FrSize
    <3>1. FrEmit(0, FrSize, 0) /\ FrSize \in Nat /\ 0 + FrSize + 0 <= Len(frBuf)
      BY <1>3, <2>1, <2>2, FrAssumption DEF fixedLengthFramer
    <3> QED BY <3>1, FrEmitTypes
  <2>3. CASE ~(Len(frBuf) >= FrSize)
    BY <1>1, <2>1, <2>3 DEF fixedLengthFramer
  <2> QED BY <2>2, <2>3
<1>8. CASE frMode = "length" \/ frMode = "whole"
  <2>1. lengthPrefixFramer(FALSE) \/ lengthPrefixFramer(TRUE)
    BY <1>8 DEF FrTurn
  <2> QED BY <1>6, <2>1
<1> QED
  BY <1>3, <1>4, <1>5, <1>7, <1>8 DEF FrModes

\* The types of the framers.
LEMMA FrKeepsTypes ==
    /\ FrInit => FrTypeOK
    /\ FrTypes /\ FrTypeOK /\ [FrNext]_frVars => FrTypeOK'
<1>1. ASSUME FrInit PROVE FrTypeOK
  <2>1. <<>> \in Seq(FrByte) /\ <<>> \in Seq(Seq(FrByte))
    BY EmptySeq
  <2> QED BY <1>1, <2>1, Zenon DEF FrInit, FrTypeOK
<1>2. ASSUME FrTypes, FrTypeOK, [FrNext]_frVars PROVE FrTypeOK'
  <2>1. ASSUME NEW c \in FrChunks, FrRead(c) PROVE FrTypeOK'
    <3>1. c \in Seq(FrByte)
      <4>1. c \in Seq(Nat)
        BY FrAssumption
      <4>2. \A i \in 1 .. Len(c) : c[i] \in FrByte
        <5> SUFFICES ASSUME NEW i \in 1 .. Len(c) PROVE c[i] \in FrByte
          OBVIOUS
        <5> DEFINE of(d) == {d[j] : j \in 1 .. Len(d)}
        <5>1. c[i] \in of(c)
          OBVIOUS
        <5>2. of(c) \in {of(d) : d \in FrChunks}
          OBVIOUS
        <5>3. FrByte = UNION {of(d) : d \in FrChunks}
          BY DEF FrByte
        <5> HIDE DEF of
        <5> QED BY <5>1, <5>2, <5>3
      <4> QED BY <4>1, <4>2, SeqOfElements
    <3>2. frIn \o c \in Seq(FrByte) /\ frBuf \o c \in Seq(FrByte) /\ <<>> \in Seq(FrByte)
      BY <1>2, <3>1, ConcatProperties, EmptySeq DEF FrTypeOK
    <3>3. frIn' \in Seq(FrByte) /\ frFresh' \in Seq(FrByte) /\ frBuf' \in Seq(FrByte)
      BY <1>2, <2>1, <3>1, <3>2, Zenon DEF FrRead, FrTypeOK
    <3> QED BY <1>2, <2>1, <3>3, Zenon DEF FrRead, FrTypeOK
  <2>2. CASE FrTurn
    BY <1>2, <2>2, FrTurnTypes, Zenon DEF FrTurn, FrTypeOK
  <2>3. CASE UNCHANGED frVars
    BY <1>2, <2>3, Zenon DEF frVars, FrTypeOK
  <2> QED BY <1>2, <2>1, <2>2, <2>3 DEF FrNext
<1> QED
  BY <1>1, <1>2

-----------------------------------------------------------------------------
(* The tail: every byte at hand was written. *)
FtKnown(s, n) == \A i \in 1 .. Len(s) : s[i].id \in 1 .. n

FtRestTyped ==
    /\ ftCfg.mode \in FtModes /\ ftCfg.fromStart \in FtFromStarts /\ ftCfg.delim \in FtDelims
    /\ FtKnown(ftFile, ftNext) /\ FtKnown(ftRead.data, ftNext)
    /\ \A i \in 1 .. Len(ftSent) : ftSent[i] \in 1 .. ftNext
    /\ ftLost \in BOOLEAN

\* What is read of the file is known, up to the last line too.
LEMMA FtReadIsKnown ==
    ASSUME NEW s \in Seq(FtByte), NEW n, FtKnown(s, n), NEW c \in Nat, ~(c >= Len(s)),
           NEW b, b = SubSeq(s, c + 1, Len(s))
    PROVE  FtKnown(b, n) /\ FtKnown(trimToLastLine(b), n)
<1>1. Len(s) \in Nat /\ \A i \in 1 .. Len(s) : s[i] \in FtByte
  BY LenProperties, ElementOfSeq
<1>2. /\ b \in Seq(FtByte) /\ Len(b) = Len(s) - c /\ \A i \in 1 .. Len(b) : b[i] = s[c + i]
  BY <1>1
<1>3. \A i \in 1 .. Len(b) : c + i \in 1 .. Len(s)
  BY <1>1, <1>2
<1>4. FtKnown(b, n)
  BY <1>2, <1>3 DEF FtKnown
<1> DEFINE t == trimToLastLine(b)
<1>5. /\ t \in Seq(FtByte) /\ Len(t) <= Len(b) /\ \A i \in 1 .. Len(t) : t[i] = b[i]
  BY <1>2, FtTrims
<1> HIDE DEF t
<1>6. \A i \in 1 .. Len(t) : i \in 1 .. Len(b)
  BY <1>1, <1>2, <1>5
<1>7. FtKnown(t, n)
  BY <1>4, <1>5, <1>6 DEF FtKnown
<1> QED
  BY <1>4, <1>7 DEF t

\* What a file holds after bytes are written behind its end.
LEMMA FtJoined ==
    ASSUME NEW s \in Seq(FtByte), NEW t \in Seq(FtByte)
    PROVE  /\ Len(s \o t) = Len(s) + Len(t)
           /\ \A i \in 1 .. Len(s) + Len(t) :
                (s \o t)[i] = IF i <= Len(s) THEN s[i] ELSE t[i - Len(s)]
BY ConcatProperties

\* A step of the tail keeps its types.
LEMMA FtKeepsTypes ==
    ASSUME FtTypes, FtRestTyped, [FtNext]_ftVars
    PROVE  FtRestTyped'
<1>0. /\ ftFile \in Seq(FtByte) /\ ftNext \in Nat /\ ftSent \in Seq(Nat)
      /\ ftRead.data \in Seq(FtByte) /\ ftRead.cursor \in Nat
      /\ ftRead \in [step : {"idle", "load", "open", "save", "send"}, size : Nat, cursor : Nat,
                     reset : BOOLEAN, data : Seq(FtByte)]
      /\ ftOut.data \in Seq({"c", "n"}) /\ Len(ftOut.data) \in Nat
      /\ Len(ftFile) \in Nat /\ Len(ftSent) \in Nat
  BY DEF FtTypes
<1>1. /\ FtKnown(ftFile, ftNext) /\ FtKnown(ftRead.data, ftNext)
      /\ \A i \in 1 .. Len(ftSent) : ftSent[i] \in 1 .. ftNext
  BY DEF FtRestTyped
<1>2. FtKnown(<<>>, ftNext) /\ Len(<<>>) = 0 /\ FtIdle.data = <<>>
  BY FtIdleIs DEF FtKnown
<1>3. ftCfg' = ftCfg
  BY Zenon DEF FtNext, FtProgress, ftVars, FtOpen, FtWrite, FtStat, FtResetCursor, FtLoad, FtReadAll,
     FtSave, FtSend, FtCrash
<1>4. ftLost' \in BOOLEAN
  BY Zenon DEF FtNext, FtProgress, ftVars, FtOpen, FtWrite, FtStat, FtResetCursor, FtLoad, FtReadAll,
     FtSave, FtSend, FtCrash, FtRestTyped
<1>5. CASE FtWrite
  <2> DEFINE w == [i \in 1 .. Len(ftOut.data) |-> [id |-> ftNext + i, nl |-> ftOut.data[i] = "n"]]
             m == Len(ftOut.data)
  <2>1. /\ ftFile' = ftFile \o w /\ ftNext' = ftNext + m /\ ftRead' = ftRead /\ ftSent' = ftSent
    BY <1>5, Zenon DEF FtWrite
  <2>2. w \in Seq(FtByte) /\ Len(w) = m /\ \A i \in 1 .. m : w[i].id = ftNext + i
    <3>1. \A i \in 1 .. m : [id |-> ftNext + i, nl |-> ftOut.data[i] = "n"] \in FtByte
      BY <1>0 DEF FtByte
    <3> QED BY <1>0, <3>1
  <2>3. m \in Nat
    BY <1>0
  <2> HIDE DEF w, m
  <2>4. /\ Len(ftFile \o w) = Len(ftFile) + m
        /\ \A i \in 1 .. Len(ftFile) + m :
             (ftFile \o w)[i] = IF i <= Len(ftFile) THEN ftFile[i] ELSE w[i - Len(ftFile)]
    BY <1>0, <2>2, <2>3, FtJoined
  <2>5. ASSUME NEW i \in 1 .. Len(ftFile) + m
        PROVE  (ftFile \o w)[i].id \in 1 .. ftNext + m
    <3>1. CASE i <= Len(ftFile)
      <4>1. i \in 1 .. Len(ftFile)
        BY <1>0, <3>1
      <4>2. ftFile[i].id \in 1 .. ftNext
        BY <1>1, <4>1 DEF FtKnown
      <4> QED BY <1>0, <2>3, <2>4, <3>1, <4>2
    <3>2. CASE ~(i <= Len(ftFile))
      <4>1. i - Len(ftFile) \in 1 .. m
        BY <1>0, <2>3, <3>2
      <4>2. w[i - Len(ftFile)].id = ftNext + (i - Len(ftFile))
        BY <2>2, <4>1
      <4>3. ftNext + (i - Len(ftFile)) \in 1 .. ftNext + m
        BY <1>0, <2>3, <4>1
      <4> QED BY <2>4, <3>2, <4>2, <4>3
    <3> QED BY <3>1, <3>2
  <2>6. FtKnown(ftFile', ftNext')
    BY <2>1, <2>4, <2>5 DEF FtKnown
  <2>7. 1 .. ftNext \subseteq 1 .. ftNext + m
    BY <1>0, <2>3
  <2>8. FtKnown(ftRead'.data, ftNext') /\ \A i \in 1 .. Len(ftSent') : ftSent'[i] \in 1 .. ftNext'
    BY <1>1, <2>1, <2>7 DEF FtKnown
  <2> QED BY <1>3, <1>4, <2>6, <2>8 DEF FtRestTyped
<1>6. CASE ~FtWrite
  <2>1. ftNext' = ftNext /\ (ftFile' = ftFile \/ ftFile' = <<>>)
    BY <1>6, Zenon DEF FtNext, FtProgress, ftVars, FtOpen, FtStat, FtResetCursor, FtLoad, FtReadAll,
       FtSave, FtSend, FtCrash
  <2>2. FtKnown(ftRead'.data, ftNext)
    <3>1. CASE FtReadAll
      <4> DEFINE buf == IF ftRead.cursor >= Len(ftFile) THEN <<>>
                        ELSE SubSeq(ftFile, ftRead.cursor + 1, Len(ftFile))
                 data == IF ftCfg.delim = "none" THEN buf ELSE trimToLastLine(buf)
      <4>1. \/ ftRead' = FtIdle
            \/ ftRead' = [ftRead EXCEPT !.step = "save", !.data = data, !.cursor = @ + Len(data)]
        BY <3>1, Zenon DEF FtReadAll
      <4>2. FtKnown(data, ftNext)
        <5>1. CASE ftRead.cursor >= Len(ftFile)
          <6>1. buf = <<>> /\ (data = <<>> \/ data = trimToLastLine(<<>>))
            BY <5>1
          <6>2. trimToLastLine(<<>>) = <<>>
            <7>1. {i \in DOMAIN <<>> : <<>>[i].nl} = {}
              OBVIOUS
            <7> QED BY <7>1, Zenon DEF trimToLastLine
          <6> QED BY <1>2, <6>1, <6>2, Zenon
        <5>2. CASE ~(ftRead.cursor >= Len(ftFile))
          <6>1. buf = SubSeq(ftFile, ftRead.cursor + 1, Len(ftFile))
            BY <5>2
          <6> HIDE DEF buf
          <6>2. FtKnown(buf, ftNext) /\ FtKnown(trimToLastLine(buf), ftNext)
            BY <1>0, <1>1, <5>2, <6>1, FtReadIsKnown
          <6> QED BY <6>2
        <5> QED BY <5>1, <5>2
      <4> HIDE DEF data
      <4>3. ftRead'.data = <<>> \/ ftRead'.data = data
        BY <1>0, <1>2, <4>1
      <4> QED BY <1>2, <4>2, <4>3
    <3>2. CASE ~FtReadAll
      <4>1. \/ ftRead' = ftRead \/ ftRead' = FtIdle
            \/ \E n : ftRead' = [FtIdle EXCEPT !.step = "load", !.size = n]
            \/ \E c, r : ftRead' = [ftRead EXCEPT !.step = "open", !.cursor = c, !.reset = r]
            \/ ftRead' = [ftRead EXCEPT !.step = "save", !.cursor = 0]
            \/ ftRead' = [ftRead EXCEPT !.step = "send"]
        BY <1>6, <3>2, Zenon DEF FtNext, FtProgress, ftVars, FtOpen, FtStat, FtResetCursor, FtLoad,
           FtSave, FtSend, FtCrash
      <4>2. ftRead'.data = ftRead.data \/ ftRead'.data = <<>>
        BY <1>0, <1>2, <4>1, FtIdleIs
      <4> QED BY <1>1, <1>2, <4>2
    <3> QED BY <3>1, <3>2
  <2>3. \A i \in 1 .. Len(ftSent') : ftSent'[i] \in 1 .. ftNext
    <3>1. \/ ftSent' = ftSent \/ ftSent' = <<>>
          \/ ftSent' = ftSent \o [i \in DOMAIN ftRead.data |-> ftRead.data[i].id]
      BY <1>6, Zenon DEF FtNext, FtProgress, ftVars, FtOpen, FtStat, FtResetCursor, FtLoad, FtReadAll,
         FtSave, FtSend, FtCrash
    <3>2. CASE ftSent' = ftSent \/ ftSent' = <<>>
      BY <1>1, <1>2, <3>2
    <3>3. CASE ftSent' = ftSent \o [i \in DOMAIN ftRead.data |-> ftRead.data[i].id]
      <4> DEFINE d == FtIds(ftRead.data)
      <4>1. /\ d \in Seq(Nat) /\ Len(d) = Len(ftRead.data)
            /\ \A i \in 1 .. Len(d) : d[i] = ftRead.data[i].id
            /\ ftSent' = ftSent \o d
        BY <1>0, <3>3, FtIdsType
      <4> HIDE DEF d
      <4>2. \A i \in 1 .. Len(d) : d[i] \in 1 .. ftNext
        BY <1>1, <4>1 DEF FtKnown
      <4>3. ftSent \in Seq(1 .. ftNext) /\ d \in Seq(1 .. ftNext)
        BY <1>0, <1>1, <4>1, <4>2, SeqOfElements
      <4>4. ftSent' \in Seq(1 .. ftNext)
        BY <4>1, <4>3, ConcatProperties
      <4> QED BY <4>4, ElementOfSeq
    <3> QED BY <3>1, <3>2, <3>3
  <2> QED BY <1>1, <1>2, <1>3, <1>4, <2>1, <2>2, <2>3 DEF FtRestTyped
<1> QED
  BY <1>5, <1>6

\* The tail begins typed.
LEMMA FtBeginsTyped == FtInit => FtRestTyped
<1> SUFFICES ASSUME FtInit PROVE FtRestTyped
  OBVIOUS
<1>1. Len(ftFile) = 0 /\ Len(ftRead.data) = 0 /\ Len(ftSent) = 0
  BY FtIdleIs DEF FtInit
<1>2. ftCfg.mode \in FtModes /\ ftCfg.fromStart \in FtFromStarts /\ ftCfg.delim \in FtDelims
  BY DEF FtInit
<1>3. ftLost \in BOOLEAN
  BY Zenon DEF FtInit
<1> QED
  BY <1>1, <1>2, <1>3 DEF FtRestTyped, FtKnown

\* The types of the tail.
LEMMA FtTyped == ASSUME FtTypes, FtRestTyped PROVE FtTypeOK
<1>1. DOMAIN ftFile = 1 .. Len(ftFile) /\ \A i \in 1 .. Len(ftFile) : ftFile[i].nl \in BOOLEAN
  <2>1. ftFile \in Seq(FtByte)
    BY DEF FtTypes
  <2>2. \A i \in 1 .. Len(ftFile) : ftFile[i] \in FtByte
    BY <2>1, ElementOfSeq
  <2> QED BY <2>1, <2>2, LenProperties DEF FtByte
<1>2. ftSent \in Seq(1 .. ftNext)
  BY SeqOfElements DEF FtTypes, FtRestTyped
<1> QED
  BY <1>1, <1>2, Zenon DEF FtTypes, FtRestTyped, FtKnown, FtTypeOK
-----------------------------------------------------------------------------
(***************************************************************************)
(* Types of the observers: what ObInv leaves out.                          *)
(***************************************************************************)

(* The listeners a reporting goroutine has still to call. *)
ObCalls(r) == r.errors \subseteq 1 .. obSeq["catch"] /\ r.statuses \subseteq 1 .. obSeq["status"]

ObRestTyped ==
    /\ \A k \in ObKinds : obListeners[k] \subseteq 1 .. obSeq[k]
    /\ \A t \in ObThreads : ObCalls(obThread[t])
    /\ Len(obBranch) <= ObInbox
    /\ obTold \subseteq 1 .. ObGens
    /\ obCount \in [reports : 0 .. ObReports, ops : 0 .. ObOps]

\* Reports and operations stay within their bounds.
LEMMA ObCountTyped ==
    ASSUME obCount \in [reports : 0 .. ObReports, ops : 0 .. ObOps], [ObNext]_obVars
    PROVE  obCount' \in [reports : 0 .. ObReports, ops : 0 .. ObOps]
<1>1. \/ obCount' = obCount
      \/ obCount.reports < ObReports /\ obCount' = [obCount EXCEPT !.reports = @ + 1]
      \/ obCount.ops < ObOps /\ obCount' = [obCount EXCEPT !.ops = @ + 1]
  BY Zenon DEF ObNext, obVars, ObWorkerReports, ObReset, ObBranchHandles, ObEnter, handleError,
     handleStatus, ObLeave, ObOperation, ObLock, ObChange, ObShow
<1>2. obCount.reports \in 0 .. ObReports /\ obCount.ops \in 0 .. ObOps
  OBVIOUS
<1>3. CASE obCount' = obCount
  BY <1>3
<1>4. CASE obCount.reports < ObReports /\ obCount' = [obCount EXCEPT !.reports = @ + 1]
  <2>1. obCount.reports + 1 \in 0 .. ObReports
    BY <1>2, <1>4, ObAssumption
  <2> QED BY <1>4, <2>1
<1>5. CASE obCount.ops < ObOps /\ obCount' = [obCount EXCEPT !.ops = @ + 1]
  <2>1. obCount.ops + 1 \in 0 .. ObOps
    BY <1>2, <1>5, ObAssumption
  <2> QED BY <1>5, <2>1
<1> QED
  BY <1>1, <1>3, <1>4, <1>5

\* The channel of the branch holds no more than its capacity.
LEMMA ObBranchTyped ==
    ASSUME ObInv, Len(obBranch) <= ObInbox, [ObNext]_obVars
    PROVE  Len(obBranch') <= ObInbox
<1>0. obBranch \in Seq(ObGood) /\ Len(obBranch) \in Nat
  BY LenProperties DEF ObInv, ObReporters
<1>1. \/ obBranch' = obBranch
      \/ obBranch # <<>> /\ obBranch' = Tail(obBranch)
      \/ \E m : ObSend(m)
  BY Zenon DEF ObNext, obVars, ObWorkerReports, ObReset, ObBranchHandles, ObEnter, handleError,
     handleStatus, ObLeave, ObOperation, ObLock, ObChange, ObShow
<1>2. CASE obBranch # <<>> /\ obBranch' = Tail(obBranch)
  <2>1. Len(obBranch') = Len(obBranch) - 1
    BY <1>0, <1>2
  <2> QED BY <1>0, <2>1, ObAssumption
<1>3. ASSUME NEW m, ObSend(m) PROVE Len(obBranch') <= ObInbox
  <2>1. CASE Len(obBranch) < ObInbox
    <3>1. obBranch' = Append(obBranch, m)
      BY <1>3, <2>1 DEF ObSend
    <3>2. Len(obBranch') = Len(obBranch) + 1
      BY <1>0, <3>1
    <3> QED BY <1>0, <2>1, <3>2, ObAssumption
  <2>2. CASE ~(Len(obBranch) < ObInbox)
    BY <1>3, <2>2 DEF ObSend
  <2> QED BY <2>1, <2>2
<1> QED
  BY <1>1, <1>2, <1>3

\* The generations the status node sent.
LEMMA ObToldTyped ==
    ASSUME ObInv, obTold \subseteq 1 .. ObGens, [ObNext]_obVars
    PROVE  obTold' \subseteq 1 .. ObGens
<1>1. \/ obTold' = obTold
      \/ \E t \in ObThreads : /\ obThread[t].msg.gen < ObGens
                              /\ obTold' = obTold \cup {obThread[t].msg.gen + 1}
  BY Zenon DEF ObNext, obVars, ObWorkerReports, ObReset, ObBranchHandles, ObEnter, handleError,
     handleStatus, ObLeave, ObOperation, ObLock, ObChange, ObShow
<1>2. ASSUME NEW t \in ObThreads, obThread[t].msg.gen < ObGens
      PROVE  obThread[t].msg.gen + 1 \in 1 .. ObGens
  <2>1. obThread[t].msg \in ObGood
    BY DEF ObInv, ObReporters, ObStates
  <2>2. obThread[t].msg.gen \in 0 .. ObGens
    BY <2>1, ObMessages
  <2> QED BY <1>2, <2>2, ObAssumption
<1>3. ASSUME NEW t \in ObThreads, obThread[t].msg.gen < ObGens,
             obTold' = obTold \cup {obThread[t].msg.gen + 1}
      PROVE  obTold' \subseteq 1 .. ObGens
  BY <1>2, <1>3, Zenon
<1> QED
  BY <1>1, <1>3, Zenon

\* A report calls listeners that are registered, and each at most once.
LEMMA ObCallsTyped ==
    ASSUME ObInv, ObRestTyped, [ObNext]_obVars, ~ObChange
    PROVE  obSeq' = obSeq /\ \A t \in ObThreads : ObCalls(obThread'[t])
<1>0. /\ obThread \in [ObThreads -> ObStates] /\ \A t \in ObThreads : ObCalls(obThread[t])
      /\ obListeners["catch"] \subseteq 1 .. obSeq["catch"]
      /\ obListeners["status"] \subseteq 1 .. obSeq["status"]
      /\ "worker" \in ObThreads /\ "branch" \in ObThreads /\ "deploy" \in ObThreads
      /\ "reset" \in ObThreads
  BY DEF ObInv, ObReporters, ObRestTyped, ObKinds, ObThreads
<1>1. ASSUME NEW t \in ObThreads, NEW r, ObCalls(r), obThread' = [obThread EXCEPT ![t] = r]
      PROVE  \A u \in ObThreads : ObCalls(obThread'[u])
  <2>1. \A u \in ObThreads : obThread'[u] = IF u = t THEN r ELSE obThread[u]
    BY <1>0, <1>1, Zenon
  <2> QED BY <1>0, <1>1, <2>1, Zenon
<1>2. ObCalls(ObIdle)
  BY DEF ObCalls, ObIdle
<1>3. ASSUME NEW t \in ObThreads, NEW kind, NEW m, ObReport(t, kind, m)
      PROVE  \A u \in ObThreads : ObCalls(obThread'[u])
  <2> DEFINE q == [ObIdle EXCEPT !.at = IF kind = "catch" THEN "wantError" ELSE "wantStatus",
                                 !.msg = m]
  <2>1. ObCalls(q)
    BY DEF ObCalls, ObIdle
  <2>2. obThread' = [obThread EXCEPT ![t] = IF kind = "catch" /\ ~makeErrorFunc(m) THEN ObIdle ELSE q]
    BY <1>3, Zenon DEF ObReport
  <2> HIDE DEF q
  <2>3. ObCalls(IF kind = "catch" /\ ~makeErrorFunc(m) THEN ObIdle ELSE q)
    BY <1>2, <2>1
  <2> QED BY <1>1, <2>2, <2>3, Zenon
<1>4. ASSUME NEW t \in ObThreads, ObEnter(t)
      PROVE  \A u \in ObThreads : ObCalls(obThread'[u])
  <2> DEFINE e == [obThread[t] EXCEPT !.at = "inError", !.errors = obListeners["catch"]]
             s == [obThread[t] EXCEPT !.at = "inStatus", !.statuses = obListeners["status"]]
  <2>1. obThread' = [obThread EXCEPT ![t] = e] \/ obThread' = [obThread EXCEPT ![t] = s]
    BY <1>0, <1>4 DEF ObEnter
  <2>2. ObCalls(e) /\ ObCalls(s)
    BY <1>0 DEF ObCalls, ObStates
  <2> HIDE DEF e, s
  <2> QED BY <1>1, <2>1, <2>2, Zenon
<1>5. ASSUME NEW t \in ObThreads, handleError(t)
      PROVE  \A u \in ObThreads : ObCalls(obThread'[u])
  <2>1. PICK l : \/ obThread' = [obThread EXCEPT ![t].errors = @ \ {l}]
                 \/ obThread' = [obThread EXCEPT ![t].errors = @ \ {l}, ![t].at = "wantStatus",
                                                 ![t].nested = TRUE]
    BY <1>5, Zenon DEF handleError
  <2> DEFINE d == [obThread[t] EXCEPT !.errors = @ \ {l}]
             e == [obThread[t] EXCEPT !.errors = @ \ {l}, !.at = "wantStatus", !.nested = TRUE]
  <2>2. obThread' = [obThread EXCEPT ![t] = d] \/ obThread' = [obThread EXCEPT ![t] = e]
    BY <1>0, <2>1
  <2>3. ObCalls(d) /\ ObCalls(e)
    BY <1>0 DEF ObCalls, ObStates
  <2> HIDE DEF d, e
  <2> QED BY <1>1, <2>2, <2>3, Zenon
<1>6. ASSUME NEW t \in ObThreads, handleStatus(t)
      PROVE  \A u \in ObThreads : ObCalls(obThread'[u])
  <2>1. PICK l : obThread' = [obThread EXCEPT ![t].statuses = @ \ {l}]
    BY <1>6, Zenon DEF handleStatus
  <2> DEFINE d == [obThread[t] EXCEPT !.statuses = @ \ {l}]
  <2>2. obThread' = [obThread EXCEPT ![t] = d]
    BY <1>0, <2>1
  <2>3. ObCalls(d)
    BY <1>0 DEF ObCalls, ObStates
  <2> HIDE DEF d
  <2> QED BY <1>1, <2>2, <2>3, Zenon
<1>7. ASSUME NEW t \in ObThreads, ObLeave(t)
      PROVE  \A u \in ObThreads : ObCalls(obThread'[u])
  <2> DEFINE r == [obThread[t] EXCEPT !.at = "inError", !.nested = FALSE]
  <2>1. obThread' = [obThread EXCEPT ![t] = ObIdle] \/ obThread' = [obThread EXCEPT ![t] = r]
    BY <1>0, <1>7 DEF ObLeave
  <2>2. ObCalls(r)
    BY <1>0 DEF ObCalls, ObStates
  <2> HIDE DEF r
  <2> QED BY <1>1, <1>2, <2>1, <2>2, Zenon
<1>8. \/ obThread' = obThread
      \/ \E t \in ObThreads : \E kind : \E m : ObReport(t, kind, m)
      \/ \E t \in ObThreads : ObEnter(t) \/ handleError(t) \/ handleStatus(t) \/ ObLeave(t)
  BY <1>0, Zenon DEF ObNext, obVars, ObWorkerReports, ObReset, ObBranchHandles,
     ObOperation, ObLock, ObChange, ObShow
<1>9. obSeq' = obSeq
  BY Zenon DEF ObNext, obVars, ObWorkerReports, ObReset, ObBranchHandles, ObEnter, handleError,
     handleStatus, ObLeave, ObOperation, ObLock, ObShow
<1>10. \A t \in ObThreads : ObCalls(obThread'[t])
  BY <1>0, <1>3, <1>4, <1>5, <1>6, <1>7, <1>8, Zenon
<1> QED
  BY <1>9, <1>10

\* A step of the observers keeps their types.
LEMMA ObKeepsTypes ==
    ASSUME ObInv, ObRestTyped, [ObNext]_obVars
    PROVE  ObRestTyped'
<1>0. /\ obSeq \in [ObKinds -> Nat] /\ obListeners \in [ObKinds -> SUBSET Nat]
      /\ obDeploy.kind \in ObKinds
      /\ "catch" \in ObKinds /\ "status" \in ObKinds
  BY DEF ObInv, ObDeploys, ObTables, ObKinds
<1>1. /\ Len(obBranch') <= ObInbox /\ obTold' \subseteq 1 .. ObGens
      /\ obCount' \in [reports : 0 .. ObReports, ops : 0 .. ObOps]
  BY ObBranchTyped, ObToldTyped, ObCountTyped DEF ObRestTyped
<1>2. CASE ObChange
  <2> DEFINE k == obDeploy.kind
  <2>1. obThread' = obThread
    BY <1>2, Zenon DEF ObChange
  <2>2. /\ \/ obListeners' = [obListeners EXCEPT ![k] = {}] /\ obSeq' = obSeq
           \/ /\ obSeq' = [obSeq EXCEPT ![k] = @ + 1]
              /\ obListeners' = [obListeners EXCEPT ![k] = @ \cup {obSeq[k] + 1}]
    BY <1>2, Zenon DEF ObChange
  <2>3. \A j \in ObKinds : 1 .. obSeq[j] \subseteq 1 .. obSeq'[j]
    BY <1>0, <2>2
  <2>4. \A j \in ObKinds : obListeners'[j] \subseteq 1 .. obSeq'[j]
    <3> SUFFICES ASSUME NEW j \in ObKinds PROVE obListeners'[j] \subseteq 1 .. obSeq'[j]
      OBVIOUS
    <3>1. obListeners[j] \subseteq 1 .. obSeq[j]
      BY DEF ObRestTyped
    <3>2. CASE j # k
      BY <1>0, <2>2, <3>1, <3>2
    <3>3. CASE j = k
      BY <1>0, <2>2, <3>1, <3>3
    <3> QED BY <3>2, <3>3
  <2>5. \A t \in ObThreads : ObCalls(obThread[t])'
    BY <1>0, <2>1, <2>3 DEF ObRestTyped, ObCalls
  <2> QED BY <1>1, <2>4, <2>5 DEF ObRestTyped
<1>3. CASE ~ObChange
  <2>1. obListeners' = obListeners
    BY <1>3, Zenon DEF ObNext, obVars, ObWorkerReports, ObReset, ObBranchHandles, ObEnter, handleError,
       handleStatus, ObLeave, ObOperation, ObLock, ObShow
  <2>2. obSeq' = obSeq /\ \A t \in ObThreads : ObCalls(obThread'[t])
    BY <1>3, ObCallsTyped
  <2>3. \A t \in ObThreads : ObCalls(obThread[t])'
    BY <2>2 DEF ObCalls
  <2> QED BY <1>1, <2>1, <2>2, <2>3 DEF ObRestTyped
<1> QED
  BY <1>2, <1>3

\* The observers begin with no listener, report or message.
LEMMA ObBeginsTyped == ObInit => ObRestTyped
<1> SUFFICES ASSUME ObInit PROVE ObRestTyped
  OBVIOUS
<1>1. \A k \in ObKinds : obListeners[k] \subseteq 1 .. obSeq[k]
  BY DEF ObInit
<1>2. \A t \in ObThreads : ObCalls(obThread[t])
  BY DEF ObInit, ObCalls, ObIdle
<1>3. Len(obBranch) <= ObInbox
  BY ObAssumption DEF ObInit
<1>4. obTold \subseteq 1 .. ObGens
  BY DEF ObInit
<1>5. obCount \in [reports : 0 .. ObReports, ops : 0 .. ObOps]
  BY ObAssumption DEF ObInit
<1> QED
  BY <1>1, <1>2, <1>3, <1>4, <1>5 DEF ObRestTyped

\* The two together are the types of the observers.
LEMMA ObTyped == ObInv /\ ObRestTyped => ObTypeOK
<1> SUFFICES ASSUME ObInv, ObRestTyped PROVE ObTypeOK
  OBVIOUS
<1>1. \A t \in ObThreads :
         /\ obThread[t].at \in {"idle", "wantError", "inError", "wantStatus", "inStatus"}
         /\ obThread[t].msg \in ObMsg /\ obThread[t].nested \in BOOLEAN
  BY DEF ObInv, ObReporters, ObStates, ObGood
<1>2. obBranch \in Seq(ObMsg)
  <2>1. obBranch \in Seq(ObGood) /\ ObGood \subseteq ObMsg
    BY DEF ObInv, ObReporters, ObGood
  <2> HIDE DEF ObGood, ObMsg
  <2> QED BY <2>1, SeqOfElements
<1>3. obShown \in [ObKinds -> [text : {"none", "idle", "blink"}, msg : ObMsg]]
  <2>1. ObTexts \subseteq [text : {"none", "idle", "blink"}, msg : ObMsg]
    BY DEF ObTexts, ObGood
  <2> QED BY <2>1 DEF ObInv, ObShows
<1> QED
  BY <1>1, <1>2, <1>3, Zenon DEF ObTypeOK, ObInv, ObDeploys, ObTables, ObRestTyped, ObCalls

-----------------------------------------------------------------------------
\* A step of NodesSpec is a step of every part, or leaves it alone.
LEMMA NodesMoveEach ==
    ASSUME [NodesNext]_nodesVars
    PROVE  /\ [DelayNext]_delayVars /\ [SmNext]_smVars /\ [ObNext]_obVars /\ [FtNext]_ftVars
           /\ [FwNext]_fwVars /\ [TrNext]_trVars
<1>1. CASE UNCHANGED nodesVars
  BY <1>1, Zenon DEF nodesVars
<1>2. ASSUME NEW p, Only(p) PROVE /\ p # "delay" => UNCHANGED delayVars
                                  /\ p # "machine" => UNCHANGED smVars
                                  /\ p # "observers" => UNCHANGED obVars
                                  /\ p # "tail" => UNCHANGED ftVars
                                  /\ p # "watch" => UNCHANGED fwVars
                                  /\ p # "request" => UNCHANGED trVars
  BY <1>2 DEF Only
<1>3. CASE NodesNext
  <2>1. ASSUME NEW p \in {"client", "udp", "framing", "log"}, Only(p)
        PROVE  /\ UNCHANGED delayVars /\ UNCHANGED smVars /\ UNCHANGED obVars
               /\ UNCHANGED ftVars /\ UNCHANGED fwVars /\ UNCHANGED trVars
    BY <1>2, <2>1
  <2>2. CASE Only("delay") /\ DelayNext
    BY <1>2, <2>2
  <2>3. CASE Only("machine") /\ SmNext
    BY <1>2, <2>3
  <2>4. CASE Only("observers") /\ ObNext
    BY <1>2, <2>4
  <2>5. CASE Only("tail") /\ FtNext
    BY <1>2, <2>5
  <2>6. CASE Only("watch") /\ FwNext
    BY <1>2, <2>6
  <2>7. CASE Only("request") /\ TrNext
    BY <1>2, <2>7
  <2> QED BY <1>3, <2>1, <2>2, <2>3, <2>4, <2>5, <2>6, <2>7 DEF NodesNext
<1> QED
  BY <1>1, <1>3

\* The invariants of the parts, and what they leave open of the types.
NodesInv ==
    /\ DlInv /\ SmInv /\ ObInv /\ FtInv /\ TrInv /\ ToInv /\ FrInv /\ FrIdle /\ LbInv
    /\ DlRestTyped /\ SmPanicType /\ ObRestTyped /\ FtRestTyped /\ FwTyped
    /\ trStopped \in BOOLEAN /\ ToRestTyped /\ UdTyped /\ FrTypeOK /\ LbRestTyped

(***************************************************************************)
(* Every variable of the ten parts keeps its type, for any number of       *)
(* messages, files, times, states, bytes and entries: no queue outgrows    *)
(* its channel, no ring its capacity, no id or offset what was handed out. *)
(***************************************************************************)
THEOREM NodesTyped == NodesSpec => []NodesTypeOK
<1>1. NodesInit => NodesInv
  <2> SUFFICES ASSUME NodesInit PROVE NodesInv
    OBVIOUS
  <2>1. /\ DelayInit /\ SmInit /\ ObInit /\ FtInit /\ FwInit /\ TrInit /\ ToInit /\ UdInit
        /\ FrInit /\ LbInit
    BY Zenon DEF NodesInit
  <2>2. DlInv /\ SmInv /\ ObInv /\ FtInv /\ TrInv /\ ToInv /\ FrInv /\ FrIdle /\ LbInv
    BY <2>1, DlInitInv, SmInitInv, ObInitInv, FtInitInv, TrInitInv, ToInitInv, FrInitHolds,
       LbInitInv
  <2>3. DlRestTyped /\ SmPanicType /\ ObRestTyped /\ FtRestTyped /\ FwTyped
    BY <2>1, DlBeginsTyped, SmPanicMoves, ObBeginsTyped, FtBeginsTyped, FwKeepsTypes
  <2>4. trStopped \in BOOLEAN /\ ToRestTyped /\ UdTyped /\ FrTypeOK /\ LbRestTyped
    BY <2>1, TrTyped, ToBeginsTyped, UdKeepsTypes, FrKeepsTypes, LbBeginsTyped
  <2> QED BY <2>2, <2>3, <2>4 DEF NodesInv
<1>2. NodesInv /\ [NodesNext]_nodesVars => NodesInv'
  <2> SUFFICES ASSUME NodesInv, [NodesNext]_nodesVars PROVE NodesInv'
    OBVIOUS
  <2>1. /\ [DelayNext]_delayVars /\ [SmNext]_smVars /\ [ObNext]_obVars /\ [FtNext]_ftVars
        /\ [FwNext]_fwVars /\ [TrNext]_trVars
        /\ [ToNext]_toVars /\ [UdNext]_udVars /\ [FrNext]_frVars /\ [LbNext]_lbVars
    BY NodesMove, NodesMoveEach
  <2>2. DlInv' /\ SmInv' /\ ObInv' /\ FtInv' /\ TrInv'
    BY <2>1, DlNextInv, SmNextInv, ObNextInv, FtNextInv, TrNextInv DEF NodesInv
  <2>3. ToInv' /\ FrInv' /\ FrIdle' /\ LbInv'
    BY <2>1, ToNextInv, FrNextKeeps, LbNextInv DEF NodesInv
  <2>4. DlTypes /\ DlTypes' /\ FtTypes /\ FrTypes
    BY <2>2, Zenon DEF NodesInv, DlInv, FtInv, FrInv
  <2>5. DlRestTyped' /\ SmPanicType' /\ ObRestTyped' /\ FtRestTyped' /\ FwTyped'
    BY <2>1, <2>4, DlKeepsTypes, SmPanicMoves, ObKeepsTypes, FtKeepsTypes, FwKeepsTypes DEF NodesInv
  <2>6. (trStopped \in BOOLEAN)' /\ ToRestTyped' /\ UdTyped' /\ FrTypeOK' /\ LbRestTyped'
    BY <2>1, <2>4, TrTyped, ToKeepsTypes, UdKeepsTypes, FrKeepsTypes, LbKeepsTypes DEF NodesInv
  <2> QED BY <2>2, <2>3, <2>5, <2>6 DEF NodesInv
<1>3. NodesInv => NodesTypeOK
  <2> SUFFICES ASSUME NodesInv PROVE NodesTypeOK
    OBVIOUS
  <2>1. DlTypes /\ FtTypes
    BY Zenon DEF NodesInv, DlInv, FtInv
  <2>2. DelayTypeOK /\ ObTypeOK /\ FtTypeOK /\ TrTypeOK /\ ToTypeOK /\ LbTypeOK
    BY <2>1, DlTyped, ObTyped, FtTyped, TrTyped, ToTyped, LbTyped DEF NodesInv
  <2>3. SmTypeOK /\ UdTypeOK /\ FwTypeOK /\ FrTypeOK
    BY SmInvIsSound, Zenon DEF NodesInv, UdTyped, FwTyped
  <2> QED BY <2>2, <2>3 DEF NodesTypeOK
<1> QED
  BY <1>1, <1>2, <1>3, PTL DEF NodesSpec
=============================================================================
