--------------------------- MODULE DevicesProofs ---------------------------
(***************************************************************************)
(* Proofs about the devices of MCDevices, each for every value of its      *)
(* constants.  A section has the inductive invariant of its component, one *)
(* lemma per action, and the theorem that the invariant gives.             *)
(***************************************************************************)
EXTENDS MCDevices, SequenceTheorems, FiniteSetTheorems, TLAPS

-----------------------------------------------------------------------------
(***************************************************************************)
(* Modbus.                                                                 *)
(***************************************************************************)

MbAnswers == MbUnits \X (0 .. 1)
MbNoAnswer == <<>>

\* The part of the type invariant the argument needs.
MbShape ==
  /\ mbCfg \in [MbNodes -> MbProps]
  /\ mbMu \in MbNodes \cup {MbFree}
  /\ mbMem \in [MbUnits -> 0 .. 1]
  /\ mbCall \in [MbNodes -> [step : {"idle", "want", "set", "wire", "got", "send"},
                             unit : MbUnits \cup {0}, got : MbAnswers \cup {MbNoAnswer}]]
  /\ mbLast \in [MbReaders -> {<<v>> : v \in 0 .. 1} \cup {MbNoAnswer}]
  /\ mbOut \in [MbReaders -> Seq(MbAnswers)]

\* The mutex of the server is held by the node between lock and unlock, and
\* once its unit is set the transport addresses that unit.
MbSection ==
  \A n \in MbNodes :
    /\ mbCall[n].step \in {"set", "wire"} => mbMu = n
    /\ mbCall[n].step # "idle" => mbCall[n].unit \in MbUnits
    /\ mbCall[n].step = "wire" => mbSlave = mbCall[n].unit

\* An answer is of the unit that was asked.
MbAnswered ==
  \A n \in MbNodes : mbCall[n].got # MbNoAnswer => mbCall[n].got[1] = mbCall[n].unit

\* What a reader is about to send it has just remembered.
MbRemembered ==
  \A n \in MbNodes : mbCall[n].step = "send" =>
    /\ n \in MbReaders /\ mbCall[n].got \in MbAnswers
    /\ mbCfg[n].onChange => mbLast[n] = <<mbCall[n].got[2]>>

\* What a reader sent last is what it remembers.
MbSentLast ==
  \A n \in MbReaders : (mbCfg[n].onChange /\ mbCall[n].step # "send" /\ mbOut[n] # <<>>)
                          => mbLast[n] = <<mbOut[n][Len(mbOut[n])][2]>>

MbInv == MbShape /\ MbSection /\ MbAnswered /\ MbRemembered /\ MbSentLast

mbData == <<mbCfg, mbMu, mbSlave, mbMem, mbCall, mbLast, mbOut>>

-----------------------------------------------------------------------------
\* The invariant speaks of the calls only.
LEMMA MbStable == MbInv /\ UNCHANGED mbData => MbInv'
BY DEF MbInv, mbData, MbShape, MbSection, MbAnswered, MbRemembered, MbSentLast

\* A call is for a unit that exists.
LEMMA MbUnitOfCall ==
  ASSUME MbShape, NEW n \in MbNodes, NEW override \in MbUnits \cup {0}
  PROVE  EffectiveUnit(n, override) \in MbUnits
BY MbAssumption DEF MbShape, EffectiveUnit

\* No call is under way.
LEMMA MbInitially == MbInit => MbInv
<1> SUFFICES ASSUME MbInit PROVE MbInv
  OBVIOUS
<1>1. MbShape
  BY DEF MbInit, MbShape, MbIdle, MbNoAnswer, MbNodes
<1>2. MbSection /\ MbAnswered /\ MbRemembered /\ MbSentLast
  BY DEF MbInit, MbIdle, MbSection, MbAnswered, MbRemembered, MbSentLast, MbNodes, MbNoAnswer
<1> QED
  BY <1>1, <1>2 DEF MbInv

\* A call begins, with the mutex not yet taken.
LEMMA MbBegins ==
  ASSUME MbInv, NEW n \in MbNodes, NEW u \in MbUnits, mbCall[n] = MbIdle,
         mbCall' = [mbCall EXCEPT ![n] = [step |-> "want", unit |-> u, got |-> <<>>]],
         UNCHANGED <<mbCfg, mbMu, mbSlave, mbMem, mbLast, mbOut>>
  PROVE  MbInv'
<1>1. MbShape'
  BY DEF MbInv, MbShape, MbNoAnswer
<1>2. MbSection' /\ MbAnswered' /\ MbRemembered'
  BY DEF MbInv, MbShape, MbSection, MbAnswered, MbRemembered, MbNoAnswer
<1>3. MbSentLast'
  BY DEF MbInv, MbShape, MbSentLast, MbIdle, MbNodes
<1> QED
  BY <1>1, <1>2, <1>3 DEF MbInv

\* A call gets the mutex and a connection, or fails.
LEMMA MbLockKeeps == ASSUME MbInv, NEW n \in MbNodes, MbLock(n) PROVE MbInv'
<1>1. MbShape'
  BY DEF MbInv, MbShape, MbLock
<1>2. MbSection'
  BY MbAssumption DEF MbInv, MbShape, MbSection, MbLock
<1>3. MbAnswered' /\ MbRemembered' /\ MbSentLast'
  BY DEF MbInv, MbShape, MbAnswered, MbRemembered, MbSentLast, MbLock, MbNodes
<1> QED
  BY <1>1, <1>2, <1>3 DEF MbInv

\* The call sets the unit on the transport.
LEMMA MbSetSlaveIDKeeps == ASSUME MbInv, NEW n \in MbNodes, MbSetSlaveID(n) PROVE MbInv'
<1>1. MbShape'
  BY DEF MbInv, MbShape, MbSetSlaveID
<1>2. MbSection'
  BY DEF MbInv, MbShape, MbSection, MbSetSlaveID
<1>3. MbAnswered' /\ MbRemembered' /\ MbSentLast'
  BY DEF MbInv, MbShape, MbAnswered, MbRemembered, MbSentLast, MbSetSlaveID, MbNodes
<1> QED
  BY <1>1, <1>2, <1>3 DEF MbInv

\* The answer is of mbSlave, which is the unit asked for.
LEMMA MbWireKeeps == ASSUME MbInv, NEW n \in MbNodes, MbWire(n) PROVE MbInv'
<1>1. mbSlave \in MbUnits /\ mbSlave = mbCall[n].unit
  BY DEF MbInv, MbSection, MbWire
<1>2. mbMem' \in [MbUnits -> 0 .. 1]
  <2>1. mbMem \in [MbUnits -> 0 .. 1] /\ mbMem[mbSlave] \in 0 .. 1
    BY <1>1 DEF MbInv, MbShape
  <2>2. 1 - mbMem[mbSlave] \in 0 .. 1
    BY <2>1
  <2>3. mbMem' = mbMem \/ mbMem' = [mbMem EXCEPT ![mbSlave] = 1 - mbMem[mbSlave]]
    BY DEF MbWire
  <2> QED
    BY <2>1, <2>2, <2>3
<1> DEFINE a == <<mbSlave, mbMem'[mbSlave]>>
<1>3. a \in MbAnswers /\ a[1] = mbSlave
  BY <1>1, <1>2 DEF MbAnswers
<1>4. mbCall' = [mbCall EXCEPT ![n].step = "got", ![n].got = a]
  BY DEF MbWire
<1>5. UNCHANGED <<mbCfg, mbSlave, mbLast, mbOut>> /\ mbMu' = MbFree /\ mbCall[n].step = "wire"
  BY DEF MbWire
<1> HIDE DEF a
<1>6. MbShape'
  BY <1>2, <1>3, <1>4, <1>5 DEF MbInv, MbShape
<1>7. MbSection'
  BY <1>4, <1>5, MbAssumption DEF MbInv, MbShape, MbSection
<1>8. MbAnswered'
  BY <1>1, <1>3, <1>4 DEF MbInv, MbShape, MbAnswered
<1>9. MbRemembered' /\ MbSentLast'
  BY <1>4, <1>5 DEF MbInv, MbShape, MbRemembered, MbSentLast, MbNodes
<1> QED
  BY <1>6, <1>7, <1>8, <1>9 DEF MbInv

\* The request fails.
LEMMA MbWireFailsKeeps == ASSUME MbInv, NEW n \in MbNodes, MbWireFails(n) PROVE MbInv'
<1>1. MbShape'
  BY DEF MbInv, MbShape, MbWireFails, MbNoAnswer
<1>2. MbSection'
  BY MbAssumption DEF MbInv, MbShape, MbSection, MbWireFails
<1>3. MbAnswered' /\ MbRemembered' /\ MbSentLast'
  BY DEF MbInv, MbShape, MbAnswered, MbRemembered, MbSentLast, MbWireFails, MbNodes, MbNoAnswer
<1> QED
  BY <1>1, <1>2, <1>3 DEF MbInv

\* Either the call ends and nothing is remembered, or the answer is remembered
\* and about to be sent.
LEMMA MbAfterKeeps == ASSUME MbInv, NEW n \in MbNodes, MbAfter(n) PROVE MbInv'
<1> DEFINE got == mbCall[n].got
<1>0. /\ mbCall[n].step = "got" /\ got \in MbAnswers \cup {MbNoAnswer}
      /\ UNCHANGED <<mbCfg, mbMu, mbSlave, mbMem, mbOut>>
  BY DEF MbAfter, MbInv, MbShape
<1>1. CASE got # <<>> /\ n \in MbReaders /\ ~(mbCfg[n].onChange /\ mbLast[n] = <<got[2]>>)
  <2>1. /\ mbLast' = [mbLast EXCEPT ![n] = IF mbCfg[n].onChange THEN <<got[2]>> ELSE @]
        /\ mbCall' = [mbCall EXCEPT ![n].step = "send"]
    BY <1>1 DEF MbAfter
  <2>2. got \in MbAnswers /\ got[2] \in 0 .. 1
    BY <1>0, <1>1 DEF MbNoAnswer, MbAnswers
  <2>3. MbShape'
    BY <1>0, <1>1, <2>1, <2>2 DEF MbInv, MbShape
  <2>4. MbSection' /\ MbAnswered'
    BY <1>0, <2>1 DEF MbInv, MbShape, MbSection, MbAnswered
  <2>5. MbRemembered'
    BY <1>0, <1>1, <2>1, <2>2 DEF MbInv, MbShape, MbRemembered
  <2>6. MbSentLast'
    BY <1>0, <1>1, <2>1 DEF MbInv, MbShape, MbSentLast, MbNodes
  <2> QED
    BY <2>3, <2>4, <2>5, <2>6 DEF MbInv
<1>2. CASE ~(got # <<>> /\ n \in MbReaders /\ ~(mbCfg[n].onChange /\ mbLast[n] = <<got[2]>>))
  <2>1. mbCall' = [mbCall EXCEPT ![n] = MbIdle] /\ mbLast' = mbLast
    BY <1>2 DEF MbAfter
  <2>2. MbShape'
    BY <1>0, <2>1 DEF MbInv, MbShape, MbIdle, MbNoAnswer
  <2>3. MbSection' /\ MbAnswered' /\ MbRemembered'
    BY <1>0, <2>1 DEF MbInv, MbShape, MbSection, MbAnswered, MbRemembered, MbIdle, MbNoAnswer
  <2>4. MbSentLast'
    BY <1>0, <2>1 DEF MbInv, MbShape, MbSentLast, MbNodes
  <2> QED
    BY <2>2, <2>3, <2>4 DEF MbInv
<1> QED
  BY <1>1, <1>2

\* A reader sends its payload.
LEMMA MbSendKeeps == ASSUME MbInv, NEW n \in MbNodes, MbSend(n) PROVE MbInv'
<1> DEFINE got == mbCall[n].got
<1>0. /\ mbCall[n].step = "send" /\ n \in MbReaders /\ got \in MbAnswers
      /\ mbCfg[n].onChange => mbLast[n] = <<got[2]>>
      /\ mbOut[n] \in Seq(MbAnswers)
  BY DEF MbSend, MbInv, MbRemembered, MbShape
<1>1. /\ mbCall' = [mbCall EXCEPT ![n] = MbIdle]
      /\ mbOut' = [mbOut EXCEPT ![n] = Append(@, got)]
      /\ UNCHANGED <<mbCfg, mbMu, mbSlave, mbMem, mbLast>>
  BY DEF MbSend
<1>2. Append(mbOut[n], got) \in Seq(MbAnswers)
      /\ Append(mbOut[n], got)[Len(Append(mbOut[n], got))] = got
  BY <1>0
<1> HIDE DEF got
<1>3. MbShape'
  BY <1>0, <1>1, <1>2 DEF MbInv, MbShape, MbIdle, MbNoAnswer
<1>4. MbSection' /\ MbAnswered' /\ MbRemembered'
  BY <1>0, <1>1 DEF MbInv, MbShape, MbSection, MbAnswered, MbRemembered, MbIdle, MbNoAnswer
<1>5. MbSentLast'
  <2> SUFFICES ASSUME NEW m \in MbReaders, mbCfg'[m].onChange, mbCall'[m].step # "send",
                      mbOut'[m] # <<>>
               PROVE  mbLast'[m] = <<mbOut'[m][Len(mbOut'[m])][2]>>
    BY DEF MbSentLast
  <2>1. CASE m = n
    <3>1. mbOut'[m] = Append(mbOut[n], got)
      BY <1>0, <1>1, <2>1 DEF MbInv, MbShape
    <3> QED
      BY <1>0, <1>1, <1>2, <2>1, <3>1
  <2>2. CASE m # n
    BY <1>1, <2>2 DEF MbInv, MbShape, MbSentLast, MbNodes
  <2> QED
    BY <2>1, <2>2
<1> QED
  BY <1>3, <1>4, <1>5 DEF MbInv

\* Every step keeps the invariant of the Modbus connection.
LEMMA MbInductive == MbInv /\ [MbNext]_mbVars => MbInv'
<1> SUFFICES ASSUME MbInv, [MbNext]_mbVars PROVE MbInv'
  OBVIOUS
<1>1. CASE UNCHANGED mbVars
  BY <1>1, MbStable DEF mbVars, mbData
<1>2. CASE MbServerStart \/ MbServerStop
  BY <1>2, MbStable DEF MbServerStart, MbServerStop, mbData
<1>3. ASSUME NEW n \in MbNodes, MbNodeStart(n) \/ MbNodeStop(n) \/ MbNodeStopped(n)
      PROVE  MbInv'
  BY <1>3, MbStable DEF MbNodeStart, MbNodeStop, MbNodeStopped, mbData
<1>4. ASSUME NEW n \in MbNodes, MbTick(n) PROVE MbInv'
  <2>1. EffectiveUnit(n, 0) \in MbUnits
    BY MbUnitOfCall DEF MbInv
  <2> QED
    BY <1>4, <2>1, MbBegins DEF MbTick
<1>5. ASSUME NEW n \in MbNodes, MbHandleMessage(n) PROVE MbInv'
  <2>1. PICK override \in MbUnits \cup {0} :
          mbCall' = [mbCall EXCEPT ![n] =
                       [step |-> "want", unit |-> EffectiveUnit(n, override), got |-> <<>>]]
    BY <1>5 DEF MbHandleMessage
  <2>2. EffectiveUnit(n, override) \in MbUnits
    BY MbUnitOfCall DEF MbInv
  <2> QED
    BY <1>5, <2>1, <2>2, MbBegins DEF MbHandleMessage
<1>6. ASSUME NEW n \in MbNodes, MbCallStep(n) PROVE MbInv'
  BY <1>6, MbLockKeeps, MbSetSlaveIDKeeps, MbWireKeeps, MbWireFailsKeeps, MbAfterKeeps,
     MbSendKeeps DEF MbCallStep
<1> QED
  BY <1>1, <1>2, <1>3, <1>4, <1>5, <1>6 DEF MbNext

\* The invariant says what MbRightUnit does.
LEMMA MbInvIsSound == MbInv => MbRightUnit
BY DEF MbInv, MbAnswered, MbSentLast, MbRightUnit, MbNoAnswer

(***************************************************************************)
(* Requests of several nodes on one connection never get mixed up (the     *)
(* critical section of modbusServer.Read and the writes), and what a       *)
(* reader sent last is what it compares with (emitOnChange), for any       *)
(* number of nodes, units, calls and failures.                             *)
(***************************************************************************)
THEOREM RightUnit == MbSpec => []MbRightUnit
BY MbInvIsSound, MbInitially, MbInductive, PTL DEF MbSpec

-----------------------------------------------------------------------------
(***************************************************************************)
(* mqtt-request.  A request that is not over is held in one place: in the  *)
(* map, by the router, by its timer, or by one of the two callers of       *)
(* failAllInflight.                                                        *)
(***************************************************************************)
RqRouted(r) == rqRouter.step = "took" /\ rqRouter.req = r

RqHeld(r) ==
  \/ r \in rqPending \/ RqRouted(r) \/ rqTimer[r] = "took"
  \/ r \in rqTaken["down"] \/ r \in rqTaken["stop"]

RqOneHolder(r) ==
  /\ r \in rqPending =>
       ~RqRouted(r) /\ rqTimer[r] # "took" /\ r \notin rqTaken["down"] /\ r \notin rqTaken["stop"]
  /\ RqRouted(r) => rqTimer[r] # "took" /\ r \notin rqTaken["down"] /\ r \notin rqTaken["stop"]
  /\ rqTimer[r] = "took" => r \notin rqTaken["down"] /\ r \notin rqTaken["stop"]
  /\ r \in rqTaken["down"] => r \notin rqTaken["stop"]

\* What the flow was told: at most one end besides errors; only errors; lost.
RqOnce(o) == \A i, j \in DOMAIN o : o[i] # "error" /\ o[j] # "error" => i = j
RqErrors(o) == \A i \in DOMAIN o : o[i] = "error"
RqLost(o) == \E i \in DOMAIN o : o[i] = "lost"

\* While a request is held its flow knows of no end, and nothing at all while
\* it is in the map; a request that is over was reported.
RqTold(r) ==
  /\ RqOnce(rqOut[r])
  /\ RqHeld(r) => RqErrors(rqOut[r])
  /\ r \in rqPending => rqOut[r] = <<>>
  /\ r < rqLeft.next => RqHeld(r) \/ rqOut[r] # <<>>

\* The response topic is subscribed while the request is in the map, and
\* after the request only if the connection was lost.
RqShot(r) ==
  /\ r \in rqSub => RqHeld(r) \/ RqLost(rqOut[r])
  /\ r \in rqPending /\ ~(rqLoop.step = "subscribe" /\ rqLoop.req = r) => r \in rqSub

\* A request the loop has not seen yet.
RqNew(r) ==
  r >= rqLeft.next => /\ ~RqHeld(r) /\ rqOut[r] = <<>> /\ rqTimer[r] = "none"
                      /\ r \notin rqSub /\ r \notin rqSent

\* The request the loop sets up has no timer yet; before the subscribe it is
\* not sent either, and it is held or was lost.
RqSetup ==
  /\ rqLoop.step = "idle" <=> rqLoop.req = 0
  /\ rqLoop.step # "idle" =>
       /\ rqLoop.req < rqLeft.next /\ rqTimer[rqLoop.req] = "none"
       /\ rqLoop.step = "subscribe" =>
            /\ rqLoop.req \notin rqSub /\ rqLoop.req \notin rqSent
            /\ RqHeld(rqLoop.req) \/ RqLost(rqOut[rqLoop.req])

\* The router answers what was sent; nobody has taken anything while there
\* is nothing to fail.
RqCallers ==
  /\ rqRouter.step # "idle" => rqRouter.req \in rqSent
  /\ rqConn # "lost" => rqTaken["down"] = {}
  /\ rqLife = "running" => rqTaken["stop"] = {}

RqInv ==
  /\ RqTypeOK /\ RqSetup /\ RqCallers
  /\ \A r \in RqReq : RqOneHolder(r) /\ RqTold(r) /\ RqShot(r) /\ RqNew(r)


RqRest(q) == RqOneHolder(q) /\ RqTold(q) /\ RqShot(q) /\ RqNew(q)

\* What is sent about a request is of that request.
LEMMA RqTell ==
  ASSUME rqOut \in [RqReq -> Seq(RqOutcomes)], NEW r \in RqReq, NEW o \in RqOutcomes, Tell(r, o)
  PROVE  /\ rqOut' \in [RqReq -> Seq(RqOutcomes)]
         /\ \A q \in RqReq \ {r} : rqOut'[q] = rqOut[q]
         /\ rqOut'[r] # <<>>
         /\ RqErrors(rqOut[r]) => RqOnce(rqOut'[r])
         /\ RqErrors(rqOut[r]) /\ o = "error" => RqErrors(rqOut'[r])
         /\ RqOnce(rqOut[r]) /\ o = "error" => RqOnce(rqOut'[r])
         /\ RqLost(rqOut[r]) \/ o = "lost" => RqLost(rqOut'[r])
<1> DEFINE s == rqOut[r]
           t == Append(s, o)
<1>1. /\ rqOut' \in [RqReq -> Seq(RqOutcomes)] /\ rqOut'[r] = t
      /\ \A q \in RqReq \ {r} : rqOut'[q] = rqOut[q]
  BY DEF Tell
<1>2. s \in Seq(RqOutcomes)
  OBVIOUS
<1> HIDE DEF s
<1>3. /\ Len(s) \in Nat /\ DOMAIN s = 1 .. Len(s) /\ DOMAIN t = 1 .. Len(s) + 1
      /\ t[Len(s) + 1] = o /\ (\A i \in 1 .. Len(s) : t[i] = s[i]) /\ t # <<>>
  BY <1>2
<1> HIDE DEF t
<1>4. \A i \in DOMAIN t : i \in DOMAIN s \/ i = Len(s) + 1
  BY <1>3
<1>5. RqErrors(s) => RqOnce(t)
  BY <1>3, <1>4 DEF RqErrors, RqOnce
<1>6. RqErrors(s) /\ o = "error" => RqErrors(t)
  BY <1>3, <1>4 DEF RqErrors
<1>7. RqOnce(s) /\ o = "error" => RqOnce(t)
  BY <1>3, <1>4 DEF RqOnce
<1>8. RqLost(s) \/ o = "lost" => RqLost(t)
  BY <1>3 DEF RqLost
<1> QED
  BY <1>1, <1>3, <1>5, <1>6, <1>7, <1>8 DEF s

\* Nothing told is nothing told twice.
LEMMA RqSilent == RqErrors(<<>>) /\ RqOnce(<<>>)
BY DEF RqErrors, RqOnce

\* No request has come.
LEMMA RqInitially == RqInit => RqInv
<1> SUFFICES ASSUME RqInit PROVE RqInv
  OBVIOUS
<1>1. RqTypeOK
  BY RqAssumption DEF RqInit, RqTypeOK, RqIdle, RqReq
<1>2. RqSetup /\ RqCallers
  BY DEF RqInit, RqSetup, RqCallers, RqIdle
<1>3. ASSUME NEW r \in RqReq PROVE RqRest(r)
  <2>1. /\ rqOut[r] = <<>> /\ rqTimer[r] = "none" /\ rqTaken["down"] = {} /\ rqTaken["stop"] = {}
        /\ rqPending = {} /\ rqSub = {} /\ rqSent = {} /\ rqLeft.next = 1 /\ r \in 1 .. RqReqs
        /\ rqRouter.step = "idle"
    BY DEF RqInit, RqReq
  <2>2. ~RqHeld(r)
    BY <2>1 DEF RqHeld, RqRouted
  <2>3. ~(r < 1)
    BY <2>1, RqAssumption
  <2> QED
    BY <2>1, <2>2, <2>3, RqSilent DEF RqRest, RqOneHolder, RqTold, RqShot, RqNew, RqRouted
<1> QED
  BY <1>1, <1>2, <1>3 DEF RqInv, RqRest

\* A request is accepted or refused.
LEMMA RqAcceptKeeps == ASSUME RqInv, NEW r \in RqReq, RqAccept(r) PROVE RqInv'
<1>0. /\ rqLoop.step = "idle" /\ rqLeft.next = r /\ rqLeft'.next = r + 1 /\ rqPending' = rqPending \cup {r}
      /\ rqLoop'.step = "subscribe" /\ rqLoop'.req = r /\ r \in 1 .. RqReqs
      /\ UNCHANGED <<rqConn, rqSub, rqSent, rqTimer, rqRouter, rqTaken, rqLife, rqOut>>
  BY DEF RqAccept, RqIdle, RqInv, RqTypeOK, RqReq
<1>1. RqTypeOK'
  <2>1. rqLeft' \in [drops : 0 .. RqDrops, fails : 0 .. RqFails, next : 1 .. RqReqs + 1]
    <3>1. r + 1 \in 1 .. RqReqs + 1
      BY <1>0, RqAssumption
    <3> QED
      BY <3>1 DEF RqInv, RqTypeOK, RqAccept
  <2>2. rqLoop' \in [step : {"idle", "subscribe", "publish", "undo", "arm"}, req : 0 .. RqReqs]
    BY <1>0, RqAssumption DEF RqAccept
  <2> QED
    BY <2>1, <2>2 DEF RqInv, RqTypeOK, RqAccept
<1>2. RqRest(r)
  BY DEF RqInv, RqRest
<1>3. ~RqHeld(r) /\ rqOut[r] = <<>> /\ rqTimer[r] = "none" /\ r \notin rqSub /\ r \notin rqSent
  BY <1>0, <1>2 DEF RqRest, RqNew
<1>4. RqHeld(r)'
  BY <1>0 DEF RqHeld
<1>5. RqSetup' /\ RqCallers'
  BY <1>0, <1>3, <1>4 DEF RqInv, RqSetup, RqCallers
<1>6. ASSUME NEW q \in RqReq PROVE RqRest(q)'
  <2>1. q \in 1 .. RqReqs
    BY DEF RqReq
  <2>2. CASE q = r
    BY <1>0, <1>3, <1>4, <2>2, RqSilent
       DEF RqRest, RqOneHolder, RqTold, RqShot, RqNew, RqHeld, RqRouted
  <2>3. CASE q # r
    <3>1. RqHeld(q)' <=> RqHeld(q)
      BY <1>0, <2>3 DEF RqHeld, RqRouted
    <3>2. RqRest(q)
      BY DEF RqInv, RqRest
    <3>3. q < r + 1 => q < r
      BY <1>0, <2>1, <2>3
    <3>4. q >= r + 1 => q >= r
      BY <1>0, <2>1
    <3> QED
      BY <1>0, <2>3, <3>1, <3>2, <3>3, <3>4 DEF RqRest, RqOneHolder, RqTold, RqShot, RqNew, RqRouted
  <2> QED
    BY <2>2, <2>3
<1> QED
  BY <1>1, <1>5, <1>6 DEF RqInv, RqRest


\* The broker's error leaves the loop where it was in the bounds.
LEMMA RqErrorLeft ==
  ASSUME RqTypeOK, RqError
  PROVE  /\ rqLeft' \in [drops : 0 .. RqDrops, fails : 0 .. RqFails, next : 1 .. RqReqs + 1]
         /\ rqLeft'.next = rqLeft.next
<1>1. rqLeft.fails \in 0 .. RqFails /\ rqLeft.next \in 1 .. RqReqs + 1 /\ rqLeft.drops \in 0 .. RqDrops
  BY DEF RqTypeOK
<1>2. (IF rqConn = "up" THEN rqLeft.fails - 1 ELSE rqLeft.fails) \in 0 .. RqFails
  BY <1>1, RqAssumption DEF RqError
<1> QED
  BY <1>1, <1>2 DEF RqTypeOK, RqError

\* The request of a loop that is at work.
LEMMA RqAtWork ==
  ASSUME RqInv, rqLoop.step # "idle"
  PROVE  /\ rqLoop.req \in RqReq /\ rqLoop.req < rqLeft.next /\ rqTimer[rqLoop.req] = "none"
         /\ RqRest(rqLoop.req) /\ rqLoop.req # 0
<1>1. rqLoop.req \in 0 .. RqReqs /\ rqLoop.req # 0
  BY DEF RqInv, RqTypeOK, RqSetup
<1>2. rqLoop.req \in RqReq
  BY <1>1, RqAssumption DEF RqReq
<1> QED
  BY <1>1, <1>2 DEF RqInv, RqSetup, RqRest

\* A request the step does not touch.
LEMMA RqSame ==
  ASSUME NEW q \in RqReq, RqRest(q), rqOut'[q] = rqOut[q], rqTimer'[q] = rqTimer[q],
         q \in rqPending' <=> q \in rqPending, q \in rqSub' <=> q \in rqSub,
         q \in rqSent' => q \in rqSent, RqRouted(q)' <=> RqRouted(q),
         q \in rqTaken'["down"] <=> q \in rqTaken["down"],
         q \in rqTaken'["stop"] <=> q \in rqTaken["stop"],
         rqLeft'.next = rqLeft.next,
         q \in rqPending => ((rqLoop'.step = "subscribe" /\ rqLoop'.req = q)
                              <=> (rqLoop.step = "subscribe" /\ rqLoop.req = q))
  PROVE  RqRest(q)'
<1>1. RqHeld(q)' <=> RqHeld(q)
  BY DEF RqHeld
<1> QED
  BY <1>1 DEF RqRest, RqOneHolder, RqTold, RqShot, RqNew

\* The response topic is subscribed, or not.
LEMMA RqSubscribeKeeps == ASSUME RqInv, RqSubscribe PROVE RqInv'
<1>0. /\ rqLoop.step = "subscribe"
      /\ UNCHANGED <<rqTimeout, rqConn, rqSent, rqTimer, rqRouter, rqTaken, rqLife, rqFill>>
  BY DEF RqSubscribe
<1>r. PICK r \in RqReq : r = rqLoop.req
  BY <1>0, RqAtWork
<1>1. /\ r \in RqReq /\ r < rqLeft.next /\ rqTimer[r] = "none" /\ RqRest(r) /\ r # 0
      /\ r \notin rqSub /\ r \notin rqSent /\ (RqHeld(r) \/ RqLost(rqOut[r]))
  BY <1>0, <1>r, RqAtWork DEF RqInv, RqSetup
<1>2. rqLoop \in [step : {"idle", "subscribe", "publish", "undo", "arm"}, req : 0 .. RqReqs]
  BY DEF RqInv, RqTypeOK
<1>3. CASE /\ rqConn = "up" /\ rqSub' = rqSub \cup {r}
           /\ rqLoop' = [rqLoop EXCEPT !.step = "publish"]
           /\ UNCHANGED <<rqPending, rqOut, rqLeft>>
  <2>1. rqLoop'.step = "publish" /\ rqLoop'.req = r
    BY <1>2, <1>3, <1>r
  <2>2. RqTypeOK'
    BY <1>0, <1>r, <1>1, <1>3 DEF RqInv, RqTypeOK
  <2>3. \A q \in RqReq : (RqHeld(q)' <=> RqHeld(q)) /\ (RqRouted(q)' <=> RqRouted(q))
    BY <1>0, <1>3 DEF RqHeld, RqRouted
  <2>4. RqSetup' /\ RqCallers'
    BY <1>0, <1>r, <1>1, <1>3, <2>1 DEF RqInv, RqSetup, RqCallers
  <2>5. RqRest(r)'
    BY <1>0, <1>r, <1>1, <1>3, <2>1, <2>3 DEF RqRest, RqOneHolder, RqTold, RqShot, RqNew
  <2>6. ASSUME NEW q \in RqReq, q # r PROVE RqRest(q)'
    BY <1>0, <1>r, <1>1, <1>3, <2>1, <2>3, <2>6, RqSame DEF RqInv, RqRest
  <2> QED
    BY <2>2, <2>4, <2>5, <2>6 DEF RqInv, RqRest
<1>4. CASE /\ RqError /\ rqPending' = rqPending \ {r} /\ Tell(r, "error") /\ rqLoop' = RqIdle
           /\ UNCHANGED rqSub
  <2>1. /\ rqLoop'.step = "idle" /\ rqLoop'.req = 0 /\ rqLeft'.next = rqLeft.next
        /\ rqLeft' \in [drops : 0 .. RqDrops, fails : 0 .. RqFails, next : 1 .. RqReqs + 1]
        /\ rqLoop' \in [step : {"idle", "subscribe", "publish", "undo", "arm"}, req : 0 .. RqReqs]
    BY <1>4, RqErrorLeft, RqAssumption DEF RqIdle, RqInv
  <2>2. /\ rqOut' \in [RqReq -> Seq(RqOutcomes)] /\ \A q \in RqReq \ {r} : rqOut'[q] = rqOut[q]
        /\ rqOut'[r] # <<>> /\ (RqErrors(rqOut[r]) => RqErrors(rqOut'[r]))
        /\ RqOnce(rqOut[r]) => RqOnce(rqOut'[r])
        /\ RqLost(rqOut[r]) => RqLost(rqOut'[r])
    BY <1>1, <1>4, RqTell DEF RqInv, RqTypeOK, RqOutcomes
  <2>3. RqTypeOK'
    BY <1>0, <1>4, <2>1, <2>2 DEF RqInv, RqTypeOK
  <2>4. RqSetup' /\ RqCallers'
    BY <1>0, <2>1 DEF RqInv, RqSetup, RqCallers
  <2>5. RqRest(r)'
    <3>1. RqHeld(r)' => RqHeld(r)
      BY <1>0, <1>4 DEF RqHeld, RqRouted
    <3> QED
      BY <1>0, <1>r, <1>1, <1>4, <2>1, <2>2, <3>1 DEF RqRest, RqOneHolder, RqTold, RqShot, RqNew, RqRouted
  <2>6. ASSUME NEW q \in RqReq, q # r PROVE RqRest(q)'
    BY <1>0, <1>r, <1>1, <1>4, <2>1, <2>2, <2>6, RqSame DEF RqInv, RqRest, RqRouted
  <2> QED
    BY <2>3, <2>4, <2>5, <2>6 DEF RqInv, RqRest
<1> QED
  BY <1>3, <1>4, <1>r DEF RqSubscribe


\* The request is published, or not.
LEMMA RqPublishKeeps == ASSUME RqInv, RqPublish PROVE RqInv'
<1>0. /\ rqLoop.step = "publish" /\ rqLeft'.next = rqLeft.next
      /\ rqLeft' \in [drops : 0 .. RqDrops, fails : 0 .. RqFails, next : 1 .. RqReqs + 1]
      /\ UNCHANGED <<rqTimeout, rqConn, rqPending, rqSub, rqTimer, rqRouter, rqTaken, rqLife,
                     rqOut, rqFill>>
  BY RqErrorLeft DEF RqPublish, RqInv, RqTypeOK
<1>1. PICK r \in RqReq : r = rqLoop.req
  BY <1>0, RqAtWork
<1>2. /\ r < rqLeft.next /\ rqTimer[r] = "none" /\ RqRest(r) /\ r # 0
  BY <1>0, <1>1, RqAtWork
<1>3. /\ rqLoop'.step \in {"arm", "undo"} /\ rqLoop'.req = r
      /\ rqLoop' \in [step : {"idle", "subscribe", "publish", "undo", "arm"}, req : 0 .. RqReqs]
      /\ rqSent' \in {rqSent, rqSent \cup {r}}
  BY <1>1 DEF RqInv, RqTypeOK, RqPublish
<1>4. RqTypeOK'
  BY <1>0, <1>3 DEF RqInv, RqTypeOK
<1>5. RqSetup' /\ RqCallers'
  BY <1>0, <1>2, <1>3 DEF RqInv, RqSetup, RqCallers
<1>6. RqRest(r)'
  <2>1. (RqHeld(r)' <=> RqHeld(r)) /\ (RqRouted(r)' <=> RqRouted(r))
    BY <1>0 DEF RqHeld, RqRouted
  <2>2. ~(r >= rqLeft.next)
    BY <1>2 DEF RqInv, RqTypeOK, RqReq
  <2> QED
    BY <1>0, <1>2, <1>3, <2>1, <2>2 DEF RqRest, RqOneHolder, RqTold, RqShot, RqNew
<1>7. ASSUME NEW q \in RqReq, q # r PROVE RqRest(q)'
  BY <1>0, <1>1, <1>3, <1>7, RqSame DEF RqInv, RqRest, RqRouted
<1> QED
  BY <1>4, <1>5, <1>6, <1>7 DEF RqInv, RqRest

\* A request that was not published is taken back.
LEMMA RqUndoKeeps == ASSUME RqInv, RqUndo PROVE RqInv'
<1>0. /\ rqLoop.step = "undo" /\ rqLoop' = RqIdle
      /\ UNCHANGED <<rqTimeout, rqConn, rqSent, rqTimer, rqRouter, rqTaken, rqLife, rqFill, rqLeft>>
  BY DEF RqUndo
<1>1. PICK r \in RqReq : r = rqLoop.req
  BY <1>0, RqAtWork
<1>2. /\ r < rqLeft.next /\ rqTimer[r] = "none" /\ RqRest(r) /\ r # 0
      /\ rqPending' = rqPending \ {r} /\ rqSub' = rqSub \ {r} /\ Tell(r, "error")
  BY <1>0, <1>1, RqAtWork DEF RqUndo
<1>3. /\ rqLoop'.step = "idle" /\ rqLoop'.req = 0
      /\ rqLoop' \in [step : {"idle", "subscribe", "publish", "undo", "arm"}, req : 0 .. RqReqs]
  BY <1>0, RqAssumption DEF RqIdle
<1>4. /\ rqOut' \in [RqReq -> Seq(RqOutcomes)] /\ \A q \in RqReq \ {r} : rqOut'[q] = rqOut[q]
      /\ rqOut'[r] # <<>> /\ (RqErrors(rqOut[r]) => RqErrors(rqOut'[r]))
      /\ RqOnce(rqOut[r]) => RqOnce(rqOut'[r])
  BY <1>2, RqTell DEF RqInv, RqTypeOK, RqOutcomes
<1>5. RqTypeOK'
  BY <1>0, <1>2, <1>3, <1>4 DEF RqInv, RqTypeOK
<1>6. RqSetup' /\ RqCallers'
  BY <1>0, <1>3 DEF RqInv, RqSetup, RqCallers
<1>7. RqRest(r)'
  <2>1. RqHeld(r)' => RqHeld(r)
    BY <1>0, <1>2 DEF RqHeld, RqRouted
  <2>2. ~(r >= rqLeft.next)
    BY <1>2 DEF RqInv, RqTypeOK, RqReq
  <2> QED
    BY <1>0, <1>2, <1>3, <1>4, <2>1, <2>2 DEF RqRest, RqOneHolder, RqTold, RqShot, RqNew, RqRouted
<1>8. ASSUME NEW q \in RqReq, q # r PROVE RqRest(q)'
  BY <1>0, <1>1, <1>2, <1>3, <1>4, <1>8, RqSame DEF RqInv, RqRest, RqRouted
<1> QED
  BY <1>5, <1>6, <1>7, <1>8 DEF RqInv, RqRest

\* The timer of a published request is set.
LEMMA RqArmKeeps == ASSUME RqInv, RqArm PROVE RqInv'
<1>0. /\ rqLoop.step = "arm" /\ rqLoop' = RqIdle
      /\ UNCHANGED <<rqTimeout, rqConn, rqPending, rqSub, rqSent, rqRouter, rqTaken, rqLife, rqOut,
                     rqLeft>>
  BY DEF RqArm
<1>1. PICK r \in RqReq : r = rqLoop.req
  BY <1>0, RqAtWork
<1>2. /\ r < rqLeft.next /\ rqTimer[r] = "none" /\ RqRest(r) /\ r # 0
  BY <1>0, <1>1, RqAtWork
<1>3. /\ rqLoop'.step = "idle" /\ rqLoop'.req = 0
      /\ rqLoop' \in [step : {"idle", "subscribe", "publish", "undo", "arm"}, req : 0 .. RqReqs]
  BY <1>0, RqAssumption DEF RqIdle
<1>4. /\ rqTimer' \in [RqReq -> {"none", "armed", "took", "done"}] /\ rqTimer'[r] # "took"
      /\ \A q \in RqReq \ {r} : rqTimer'[q] = rqTimer[q]
  BY <1>1, <1>2 DEF RqArm, RqInv, RqTypeOK
<1>5. RqTypeOK'
  <2>1. rqFill' \in {"green", "yellow"}
    BY DEF RqArm
  <2> QED
    BY <1>0, <1>3, <1>4, <2>1 DEF RqInv, RqTypeOK
<1>6. RqSetup' /\ RqCallers'
  BY <1>0, <1>3 DEF RqInv, RqSetup, RqCallers
<1>7. RqRest(r)'
  <2>1. (RqHeld(r)' <=> RqHeld(r)) /\ (RqRouted(r)' <=> RqRouted(r))
    BY <1>0, <1>2, <1>4 DEF RqHeld, RqRouted
  <2>2. ~(r >= rqLeft.next)
    BY <1>2 DEF RqInv, RqTypeOK, RqReq
  <2> QED
    BY <1>0, <1>2, <1>3, <1>4, <2>1, <2>2 DEF RqRest, RqOneHolder, RqTold, RqShot, RqNew
<1>8. ASSUME NEW q \in RqReq, q # r PROVE RqRest(q)'
  BY <1>0, <1>1, <1>3, <1>4, <1>8, RqSame DEF RqInv, RqRest, RqRouted
<1> QED
  BY <1>5, <1>6, <1>7, <1>8 DEF RqInv, RqRest

\* The request the router has.
LEMMA RqAnswering ==
  ASSUME RqInv, rqRouter.step # "idle"
  PROVE  /\ rqRouter.req \in RqReq /\ rqRouter.req \in rqSent /\ RqRest(rqRouter.req)
         /\ rqRouter.req < rqLeft.next
<1>1. rqRouter.req \in RqReq /\ rqRouter.req \in rqSent /\ RqRest(rqRouter.req)
  BY DEF RqInv, RqTypeOK, RqCallers, RqRest
<1>2. ~(rqRouter.req >= rqLeft.next)
  BY <1>1 DEF RqRest, RqNew
<1>3. rqRouter.req \in Nat /\ rqLeft.next \in Nat
  BY <1>1 DEF RqInv, RqTypeOK, RqReq
<1> QED
  BY <1>1, <1>2, <1>3

\* A response arrives at the router.
LEMMA RqRespondKeeps == ASSUME RqInv, NEW r \in RqReq, RqRespond(r) PROVE RqInv'
<1>0. /\ rqRouter.step = "idle" /\ r \in rqSent /\ rqRouter'.step = "got" /\ rqRouter'.req = r
      /\ rqRouter' \in [step : {"idle", "got", "took"}, req : 0 .. RqReqs, ok : BOOLEAN]
      /\ UNCHANGED <<rqTimeout, rqConn, rqLoop, rqPending, rqSub, rqSent, rqTimer, rqTaken, rqLife,
                     rqOut, rqFill, rqLeft>>
  <2>1. PICK out, m : rqRouter' = [step |-> "got", req |-> r,
                                   ok |-> DecodeCorrelationData(m.correlation) = "same"]
    BY Zenon DEF RqRespond
  <2>2. PICK b \in BOOLEAN : rqRouter' = [step |-> "got", req |-> r, ok |-> b]
    BY <2>1, Zenon
  <2>3. r \in 0 .. RqReqs
    BY RqAssumption DEF RqReq
  <2>4. /\ rqRouter'.step = "got" /\ rqRouter'.req = r
        /\ rqRouter' \in [step : {"idle", "got", "took"}, req : 0 .. RqReqs, ok : BOOLEAN]
    BY <2>2, <2>3
  <2> QED
    BY <2>4, Zenon DEF RqRespond
<1>1. RqTypeOK'
  BY <1>0 DEF RqInv, RqTypeOK
<1>2. \A q \in RqReq : (RqHeld(q)' <=> RqHeld(q)) /\ (RqRouted(q)' <=> RqRouted(q))
  BY <1>0 DEF RqHeld, RqRouted
<1>3. RqSetup' /\ RqCallers'
  <2>1. rqLoop.step # "idle" => rqLoop.req \in RqReq
    BY RqAtWork
  <2> QED
    BY <1>0, <1>2, <2>1 DEF RqInv, RqSetup, RqCallers
<1>4. ASSUME NEW q \in RqReq PROVE RqRest(q)'
  BY <1>0, <1>2, RqSame DEF RqInv, RqRest
<1> QED
  BY <1>1, <1>3, <1>4 DEF RqInv, RqRest

\* The router takes the request of a response out of the map.
LEMMA RqTakeResponseKeeps == ASSUME RqInv, RqTakeResponse PROVE RqInv'
<1>0. /\ rqRouter.step = "got"
      /\ UNCHANGED <<rqTimeout, rqConn, rqLoop, rqSub, rqSent, rqTaken, rqLife, rqOut, rqFill, rqLeft>>
  BY DEF RqTakeResponse
<1>1. PICK r \in RqReq : r = rqRouter.req
  BY <1>0, RqAnswering
<1>2. r \in rqSent /\ RqRest(r) /\ r < rqLeft.next
  BY <1>0, <1>1, RqAnswering
<1>3. CASE rqRouter.ok /\ r \in rqPending
  <2>1. /\ rqPending' = rqPending \ {r}
        /\ rqTimer' = [rqTimer EXCEPT ![r] = IF @ = "armed" THEN "done" ELSE @]
        /\ rqRouter' = [rqRouter EXCEPT !.step = "took"]
    BY <1>1, <1>3 DEF RqTakeResponse
  <2>2. /\ rqRouter'.step = "took" /\ rqRouter'.req = r
        /\ rqRouter' \in [step : {"idle", "got", "took"}, req : 0 .. RqReqs, ok : BOOLEAN]
    BY <1>1, <2>1 DEF RqInv, RqTypeOK
  <2>3. /\ rqTimer' \in [RqReq -> {"none", "armed", "took", "done"}] /\ rqTimer'[r] # "took"
        /\ (rqTimer[r] = "none" => rqTimer'[r] = "none")
        /\ \A q \in RqReq \ {r} : rqTimer'[q] = rqTimer[q]
    BY <1>2, <1>3, <2>1 DEF RqInv, RqTypeOK, RqRest, RqOneHolder
  <2>4. RqTypeOK'
    BY <1>0, <2>1, <2>2, <2>3 DEF RqInv, RqTypeOK
  <2>5. RqHeld(r) /\ RqHeld(r)' /\ RqRouted(r)'
    BY <1>3, <2>2 DEF RqHeld, RqRouted
  <2>6. ASSUME NEW q \in RqReq, q # r
        PROVE  (RqHeld(q)' <=> RqHeld(q)) /\ (RqRouted(q)' <=> RqRouted(q))
    BY <1>0, <1>1, <2>1, <2>2, <2>3, <2>6 DEF RqHeld, RqRouted
  <2>7. RqSetup' /\ RqCallers'
    <3>1. rqLoop.step # "idle" => rqLoop.req \in RqReq
      BY RqAtWork
    <3> QED
      BY <1>0, <1>1, <1>2, <2>2, <2>3, <2>5, <2>6, <3>1 DEF RqInv, RqSetup, RqCallers
  <2>8. RqRest(r)'
    <3>1. ~(r >= rqLeft.next)
      BY <1>2 DEF RqInv, RqTypeOK, RqReq
    <3> QED
      BY <1>0, <1>2, <1>3, <2>1, <2>3, <2>5, <3>1, RqSilent
         DEF RqRest, RqOneHolder, RqTold, RqShot, RqNew
  <2>9. ASSUME NEW q \in RqReq, q # r PROVE RqRest(q)'
    BY <1>0, <2>1, <2>3, <2>6, <2>9, RqSame DEF RqInv, RqRest
  <2> QED
    BY <2>4, <2>7, <2>8, <2>9 DEF RqInv, RqRest
<1>4. CASE ~(rqRouter.ok /\ r \in rqPending)
  <2>1. /\ rqRouter' = [step |-> "idle", req |-> 0, ok |-> FALSE]
        /\ UNCHANGED <<rqPending, rqTimer>>
    BY <1>1, <1>4 DEF RqTakeResponse
  <2>2. \A q \in RqReq : (RqHeld(q)' <=> RqHeld(q)) /\ (RqRouted(q)' <=> RqRouted(q))
    BY <1>0, <2>1 DEF RqHeld, RqRouted
  <2>3. RqTypeOK'
    BY <1>0, <2>1, RqAssumption DEF RqInv, RqTypeOK
  <2>4. RqSetup' /\ RqCallers'
    <3>1. rqLoop.step # "idle" => rqLoop.req \in RqReq
      BY RqAtWork
    <3> QED
      BY <1>0, <2>1, <2>2, <3>1 DEF RqInv, RqSetup, RqCallers
  <2>5. ASSUME NEW q \in RqReq PROVE RqRest(q)'
    BY <1>0, <2>1, <2>2, RqSame DEF RqInv, RqRest
  <2> QED
    BY <2>3, <2>4, <2>5 DEF RqInv, RqRest
<1> QED
  BY <1>3, <1>4


\* The holder of request r tells the flow of its end and lets go of it.
LEMMA RqEnds ==
  ASSUME RqInv, NEW r \in RqReq, NEW o \in RqOutcomes, Tell(r, o), RqHeld(r), r \notin rqPending,
         rqSub' = rqSub \ {r}, UNCHANGED <<rqPending, rqSent, rqLoop, rqLeft>>,
         ~RqHeld(r)', rqTimer'[r] # "took",
         \A q \in RqReq \ {r} :
           /\ rqTimer'[q] = rqTimer[q] /\ (RqRouted(q)' <=> RqRouted(q))
           /\ q \in rqTaken'["down"] <=> q \in rqTaken["down"]
           /\ q \in rqTaken'["stop"] <=> q \in rqTaken["stop"],
         rqTimer[r] = "none" => rqTimer'[r] = "none",
         (rqLoop.step = "subscribe" /\ rqLoop.req = r) => o = "lost"
  PROVE  /\ rqOut' \in [RqReq -> Seq(RqOutcomes)]
         /\ RqSetup' /\ \A q \in RqReq : RqRest(q)'
<1>1. /\ rqOut' \in [RqReq -> Seq(RqOutcomes)] /\ \A q \in RqReq \ {r} : rqOut'[q] = rqOut[q]
      /\ rqOut'[r] # <<>> /\ (RqErrors(rqOut[r]) => RqOnce(rqOut'[r]))
      /\ o = "lost" => RqLost(rqOut'[r])
  BY RqTell DEF RqInv, RqTypeOK
<1>2. RqRest(r) /\ RqErrors(rqOut[r])
  BY DEF RqInv, RqRest, RqTold
<1>3. r < rqLeft.next /\ ~(r >= rqLeft.next)
  <2>1. ~(r >= rqLeft.next)
    BY <1>2 DEF RqRest, RqNew
  <2> QED
    BY <2>1 DEF RqInv, RqTypeOK, RqReq
<1>4. RqRest(r)'
  BY <1>1, <1>2, <1>3 DEF RqRest, RqOneHolder, RqTold, RqShot, RqNew, RqHeld
<1>5. ASSUME NEW q \in RqReq, q # r PROVE RqRest(q)' /\ (RqHeld(q)' <=> RqHeld(q))
  <2>1. RqRest(q)'
    BY <1>1, <1>5, RqSame DEF RqInv, RqRest
  <2> QED
    BY <1>5, <2>1 DEF RqHeld
<1>6. RqSetup'
  <2>1. rqLoop.step # "idle" => rqLoop.req \in RqReq
    BY RqAtWork
  <2> QED
    BY <1>1, <1>5, <2>1 DEF RqInv, RqSetup
<1> QED
  BY <1>1, <1>4, <1>5, <1>6

\* The router sends the response.
LEMMA RqResponseKeeps == ASSUME RqInv, RqResponse PROVE RqInv'
<1>0. /\ rqRouter.step = "took"
      /\ UNCHANGED <<rqTimeout, rqConn, rqLoop, rqPending, rqSent, rqTimer, rqTaken, rqLife, rqLeft>>
      /\ rqRouter'.step = "idle" /\ rqFill' = "green"
      /\ rqRouter' \in [step : {"idle", "got", "took"}, req : 0 .. RqReqs, ok : BOOLEAN]
  BY RqAssumption DEF RqResponse
<1>1. PICK r \in RqReq : r = rqRouter.req
  BY <1>0, RqAnswering
<1>2. r \in rqSent /\ RqRest(r) /\ RqRouted(r) /\ RqHeld(r)
  BY <1>0, <1>1, RqAnswering DEF RqRouted, RqHeld
<1>3. r \notin rqPending /\ rqTimer'[r] # "took" /\ ~RqHeld(r)'
  BY <1>0, <1>2 DEF RqRest, RqOneHolder, RqHeld, RqRouted
<1>4. Tell(r, "response") /\ rqSub' = rqSub \ {r} /\ "response" \in RqOutcomes
  BY <1>1 DEF RqResponse, RqOutcomes
<1>5. \A q \in RqReq \ {r} : RqRouted(q)' <=> RqRouted(q)
  BY <1>0, <1>1 DEF RqRouted
<1>6. ~(rqLoop.step = "subscribe" /\ rqLoop.req = r)
  BY <1>2 DEF RqInv, RqSetup
<1>7. /\ rqOut' \in [RqReq -> Seq(RqOutcomes)]
      /\ RqSetup' /\ \A q \in RqReq : RqRest(q)'
  BY <1>0, <1>2, <1>3, <1>4, <1>5, <1>6, RqEnds
<1>8. RqTypeOK' /\ RqCallers'
  BY <1>0, <1>4, <1>7 DEF RqInv, RqTypeOK, RqCallers
<1> QED
  BY <1>7, <1>8 DEF RqInv, RqRest

\* A timer takes its request out of the map.
LEMMA RqTimedOutKeeps == ASSUME RqInv, NEW r \in RqReq, RqTimedOut(r) PROVE RqInv'
<1>0. /\ rqTimer[r] = "took"
      /\ UNCHANGED <<rqTimeout, rqConn, rqLoop, rqPending, rqSent, rqRouter, rqTaken, rqLife, rqLeft>>
      /\ rqFill' = "green" /\ Tell(r, "timeout") /\ rqSub' = rqSub \ {r} /\ "timeout" \in RqOutcomes
  BY DEF RqTimedOut, RqOutcomes
<1>1. /\ rqTimer' \in [RqReq -> {"none", "armed", "took", "done"}] /\ rqTimer'[r] = "done"
      /\ \A q \in RqReq \ {r} : rqTimer'[q] = rqTimer[q]
  BY DEF RqTimedOut, RqInv, RqTypeOK
<1>2. RqRest(r) /\ RqHeld(r)
  BY <1>0 DEF RqInv, RqRest, RqHeld
<1>3. r \notin rqPending /\ ~RqHeld(r)'
  BY <1>0, <1>1, <1>2 DEF RqRest, RqOneHolder, RqHeld, RqRouted
<1>4. ~(rqLoop.step = "subscribe" /\ rqLoop.req = r)
  BY <1>0 DEF RqInv, RqSetup
<1>5. \A q \in RqReq : RqRouted(q)' <=> RqRouted(q)
  BY <1>0 DEF RqRouted
<1>6. /\ rqOut' \in [RqReq -> Seq(RqOutcomes)]
      /\ RqSetup' /\ \A q \in RqReq : RqRest(q)'
  BY <1>0, <1>1, <1>2, <1>3, <1>4, <1>5, RqEnds
<1>7. RqTypeOK' /\ RqCallers'
  BY <1>0, <1>1, <1>6 DEF RqInv, RqTypeOK, RqCallers
<1> QED
  BY <1>6, <1>7 DEF RqInv, RqRest

\* A lost connection, or Stop, fails one of the requests it took.
LEMMA RqFailOneKeeps ==
  ASSUME RqInv, NEW who \in {"down", "stop"}, RqFailOne(who) PROVE RqInv'
<1>0. PICK r \in rqTaken[who] :
        /\ rqTaken' = [rqTaken EXCEPT ![who] = @ \ {r}]
        /\ rqTimer' = [rqTimer EXCEPT ![r] = IF @ = "armed" THEN "done" ELSE @]
        /\ rqSub' = rqSub \ {r}
        /\ Tell(r, "lost")
        /\ rqFill' = IF rqTaken'[who] = {} THEN "green" ELSE rqFill
  BY DEF RqFailOne
<1>1. UNCHANGED <<rqTimeout, rqConn, rqLoop, rqPending, rqSent, rqRouter, rqLife, rqLeft>>
  BY DEF RqFailOne
<1>2. r \in RqReq /\ RqRest(r) /\ RqHeld(r) /\ "lost" \in RqOutcomes
  BY <1>0 DEF RqInv, RqTypeOK, RqRest, RqHeld, RqOutcomes
<1>3. /\ rqTaken' \in [{"down", "stop"} -> SUBSET RqReq]
      /\ rqTaken'[who] = rqTaken[who] \ {r}
      /\ \A w \in {"down", "stop"} : rqTaken'[w] \subseteq rqTaken[w]
      /\ \A q \in RqReq \ {r} : /\ q \in rqTaken'["down"] <=> q \in rqTaken["down"]
                                /\ q \in rqTaken'["stop"] <=> q \in rqTaken["stop"]
  BY <1>0 DEF RqInv, RqTypeOK
<1>4. r \notin rqPending /\ ~RqRouted(r) /\ rqTimer[r] # "took"
      /\ r \notin rqTaken'["down"] /\ r \notin rqTaken'["stop"]
  BY <1>0, <1>2, <1>3 DEF RqRest, RqOneHolder
<1>5. /\ rqTimer' \in [RqReq -> {"none", "armed", "took", "done"}] /\ rqTimer'[r] # "took"
      /\ (rqTimer[r] = "none" => rqTimer'[r] = "none")
      /\ \A q \in RqReq \ {r} : rqTimer'[q] = rqTimer[q]
  BY <1>0, <1>2, <1>4 DEF RqInv, RqTypeOK
<1>6. \A q \in RqReq : RqRouted(q)' <=> RqRouted(q)
  BY <1>1 DEF RqRouted
<1>7. ~RqHeld(r)'
  BY <1>1, <1>2, <1>4, <1>5, <1>6 DEF RqHeld
<1>8. /\ rqOut' \in [RqReq -> Seq(RqOutcomes)]
      /\ RqSetup' /\ \A q \in RqReq : RqRest(q)'
  BY <1>0, <1>1, <1>2, <1>3, <1>4, <1>5, <1>6, <1>7, RqEnds
<1>9. RqTypeOK' /\ RqCallers'
  BY <1>0, <1>1, <1>3, <1>5, <1>8 DEF RqInv, RqTypeOK, RqCallers
<1> QED
  BY <1>8, <1>9 DEF RqInv, RqRest


\* A timer sends its error.
LEMMA RqExpireKeeps == ASSUME RqInv, NEW r \in RqReq, RqExpire(r) PROVE RqInv'
<1>0. /\ rqTimer[r] = "armed" /\ rqPending' = rqPending \ {r}
      /\ UNCHANGED <<rqTimeout, rqConn, rqLoop, rqSub, rqSent, rqRouter, rqTaken, rqLife, rqOut,
                     rqFill, rqLeft>>
  BY DEF RqExpire
<1>1. /\ rqTimer' \in [RqReq -> {"none", "armed", "took", "done"}]
      /\ rqTimer'[r] = "took" <=> r \in rqPending
      /\ rqTimer'[r] # "none"
      /\ \A q \in RqReq \ {r} : rqTimer'[q] = rqTimer[q]
  BY DEF RqExpire, RqInv, RqTypeOK
<1>2. \A q \in RqReq : (RqHeld(q)' <=> RqHeld(q)) /\ (RqRouted(q)' <=> RqRouted(q))
  BY <1>0, <1>1 DEF RqHeld, RqRouted
<1>3. RqTypeOK'
  BY <1>0, <1>1 DEF RqInv, RqTypeOK
<1>4. RqSetup' /\ RqCallers'
  <2>1. rqLoop.step # "idle" => rqLoop.req \in RqReq /\ rqLoop.req # r
    BY <1>0, RqAtWork
  <2> QED
    BY <1>0, <1>1, <1>2, <2>1 DEF RqInv, RqSetup, RqCallers
<1>5. RqRest(r)'
  BY <1>0, <1>1, <1>2 DEF RqInv, RqRest, RqOneHolder, RqTold, RqShot, RqNew
<1>6. ASSUME NEW q \in RqReq, q # r PROVE RqRest(q)'
  BY <1>0, <1>1, <1>2, <1>6, RqSame DEF RqInv, RqRest
<1> QED
  BY <1>3, <1>4, <1>5, <1>6 DEF RqInv, RqRest

\* The map is taken over as a whole by a caller that had nothing left to fail.
LEMMA RqTakeAllKeeps ==
  ASSUME RqInv, NEW who \in {"down", "stop"}, TakeAll(who), rqTaken[who] = {},
         UNCHANGED <<rqTimeout, rqLoop, rqSub, rqSent, rqTimer, rqRouter, rqOut, rqFill, rqLeft>>,
         rqConn' \in {"up", "down", "lost"}, rqLife' \in {"running", "stopping", "stopped"},
         rqConn' # "lost" => who # "down" /\ rqConn # "lost",
         rqLife' = "running" => who # "stop" /\ rqLife = "running"
  PROVE  RqInv'
<1>1. /\ rqTaken' \in [{"down", "stop"} -> SUBSET RqReq] /\ rqTaken'[who] = rqPending
      /\ \A w \in {"down", "stop"} \ {who} : rqTaken'[w] = rqTaken[w]
      /\ rqPending' = {}
  BY DEF TakeAll, RqInv, RqTypeOK
<1>2. RqTypeOK'
  BY <1>1 DEF RqInv, RqTypeOK
<1>3. \A q \in RqReq : (RqHeld(q)' <=> RqHeld(q)) /\ (RqRouted(q)' <=> RqRouted(q))
  BY <1>1 DEF RqHeld, RqRouted
<1>4. RqSetup' /\ RqCallers'
  <2>1. rqLoop.step # "idle" => rqLoop.req \in RqReq
    BY RqAtWork
  <2>2. RqSetup'
    BY <1>3, <2>1 DEF RqInv, RqSetup
  <2>3. RqCallers'
    BY <1>1 DEF RqInv, RqCallers
  <2> QED
    BY <2>2, <2>3
<1>5. ASSUME NEW q \in RqReq PROVE RqRest(q)'
  <2>1. RqRest(q)
    BY DEF RqInv, RqRest
  <2>2. RqOneHolder(q)'
    BY <1>1, <1>3, <2>1 DEF RqRest, RqOneHolder
  <2> QED
    BY <1>1, <1>3, <2>1, <2>2 DEF RqRest, RqTold, RqShot, RqNew
<1> QED
  BY <1>2, <1>4, <1>5 DEF RqInv, RqRest

\* The connection and Stop come and go.
LEMMA RqOtherKeeps ==
  ASSUME RqInv, RqDown \/ RqDownCallback \/ RqReconnect \/ RqStop \/ RqStopped \/ UNCHANGED rqVars
  PROVE  RqInv'
<1>1. CASE /\ RqDown \/ RqReconnect \/ RqStopped \/ UNCHANGED rqVars
              \/ (RqDownCallback /\ UNCHANGED <<rqTaken, rqPending>>)
  <2>1. /\ UNCHANGED <<rqLoop, rqPending, rqSub, rqSent, rqTimer, rqRouter, rqTaken, rqOut>>
        /\ rqLeft'.next = rqLeft.next
    BY <1>1 DEF RqInv, RqTypeOK, RqDown, RqReconnect, RqStopped, rqVars, RqDownCallback
  <2>2. RqTypeOK'
    <3>1. rqLeft' \in [drops : 0 .. RqDrops, fails : 0 .. RqFails, next : 1 .. RqReqs + 1]
      <4>1. rqLeft \in [drops : 0 .. RqDrops, fails : 0 .. RqFails, next : 1 .. RqReqs + 1]
        BY DEF RqInv, RqTypeOK
      <4>2. rqLeft' = rqLeft \/ (rqLeft.drops > 0 /\ rqLeft' = [rqLeft EXCEPT !.drops = @ - 1])
        BY <1>1 DEF RqDown, RqReconnect, RqStopped, rqVars, RqDownCallback
      <4>3. rqLeft.drops > 0 => rqLeft.drops - 1 \in 0 .. RqDrops
        BY <4>1, RqAssumption
      <4> QED
        BY <4>1, <4>2, <4>3
    <3>2. /\ rqConn' \in {"up", "down", "lost"} /\ rqFill' \in {"green", "yellow"}
          /\ rqLife' \in {"running", "stopping", "stopped"} /\ rqTimeout' = rqTimeout
      BY <1>1 DEF RqInv, RqTypeOK, RqDown, RqReconnect, RqStopped, rqVars, RqDownCallback
    <3> QED
      BY <2>1, <3>1, <3>2 DEF RqInv, RqTypeOK
  <2>3. \A q \in RqReq : (RqHeld(q)' <=> RqHeld(q)) /\ (RqRouted(q)' <=> RqRouted(q))
    BY <2>1 DEF RqHeld, RqRouted
  <2>4. RqSetup'
    <3>1. rqLoop.step # "idle" => rqLoop.req \in RqReq
      BY RqAtWork
    <3> QED
      BY <2>1, <2>3, <3>1 DEF RqInv, RqSetup
  <2>5. RqCallers'
    BY <1>1, <2>1 DEF RqInv, RqCallers, RqDown, RqReconnect, RqStopped, rqVars, RqDownCallback
  <2>6. ASSUME NEW q \in RqReq PROVE RqRest(q)'
    BY <2>1, <2>3, RqSame DEF RqInv, RqRest
  <2> QED
    BY <2>2, <2>4, <2>5, <2>6 DEF RqInv, RqRest
<1>2. CASE RqDownCallback /\ TakeAll("down")
  <2>1. rqTaken["down"] = {}
    BY <1>2 DEF RqDownCallback, RqInv, RqCallers
  <2> QED
    BY <1>2, <2>1, RqTakeAllKeeps DEF RqDownCallback, RqInv, RqTypeOK
<1>3. CASE RqStop
  <2>1. rqTaken["stop"] = {}
    BY <1>3 DEF RqStop, RqInv, RqCallers
  <2> QED
    BY <1>3, <2>1, RqTakeAllKeeps DEF RqStop, RqInv, RqTypeOK
<1> QED
  BY <1>1, <1>2, <1>3 DEF RqDownCallback

\* Every step keeps the invariant of mqtt-request.
LEMMA RqInductive == RqInv /\ [RqNext]_rqVars => RqInv'
<1> SUFFICES ASSUME RqInv, [RqNext]_rqVars PROVE RqInv'
  OBVIOUS
<1>1. ASSUME NEW r \in RqReq, RqAccept(r) \/ RqRespond(r) \/ RqExpire(r) \/ RqTimedOut(r)
      PROVE  RqInv'
  BY <1>1, RqAcceptKeeps, RqRespondKeeps, RqExpireKeeps, RqTimedOutKeeps
<1>2. CASE RqLoopStep \/ RqRouterStep
  BY <1>2, RqSubscribeKeeps, RqPublishKeeps, RqUndoKeeps, RqArmKeeps, RqTakeResponseKeeps,
     RqResponseKeeps DEF RqLoopStep, RqRouterStep
<1>3. ASSUME NEW who \in {"down", "stop"}, RqFailStep(who) PROVE RqInv'
  BY <1>3, RqFailOneKeeps, RqOtherKeeps DEF RqFailStep
<1> QED
  BY <1>1, <1>2, <1>3, RqOtherKeeps DEF RqNext, RqProgress, RqTimerStep

\* The invariant says what RqSound does.
LEMMA RqInvIsSound == RqInv => RqSound
<1> SUFFICES ASSUME RqInv PROVE RqSound
  OBVIOUS
<1>1. DOMAIN rqTaken = {"down", "stop"}
  BY DEF RqInv, RqTypeOK
<1>2. ASSUME NEW r \in RqReq, RqSettled(r)
      PROVE  RqHeld(r) => r \in rqPending
  BY <1>1, <1>2 DEF RqSettled, RqHeld, RqRouted
<1>3. ASSUME NEW r \in RqReq
      PROVE  /\ RqRest(r)
             /\ RqLost(rqOut[r]) => "lost" \in {rqOut[r][i] : i \in DOMAIN rqOut[r]}
  BY DEF RqInv, RqRest, RqLost
<1>4. RqOneOutcome
  BY <1>2, <1>3 DEF RqOneOutcome, RqRest, RqTold, RqOnce
<1>5. RqOneShotSubscription
  BY <1>2, <1>3 DEF RqOneShotSubscription, RqRest, RqShot, RqSettled
<1> QED
  BY <1>4, <1>5 DEF RqSound

(***************************************************************************)
(* Every request ends once, however its response, its timer, a lost        *)
(* connection and Stop race, and its subscription lives as long as it does *)
(* (takePending, failAllInflight), for any number of requests, drops and   *)
(* errors.                                                                 *)
(***************************************************************************)
THEOREM RequestEndsOnce == RqSpec => []RqSound
BY RqInvIsSound, RqInitially, RqInductive, PTL DEF RqSpec

-----------------------------------------------------------------------------
(***************************************************************************)
(* The shared MQTT connection.                                             *)
(***************************************************************************)
MqMuxes == [MqKeys -> [qos : {-1} \cup MqQoS, handlers : SUBSET MqNodes]]
MqCalls == [topic : MqTopics, opt : MqOpts, had : BOOLEAN, prev : MqQoS, qos : MqQoS]

\* The types of the connection and the tables, and of the rest.
MqShape ==
  /\ mqConn \in {"off", "connecting", "up", "down", "stopped"}
  /\ mqWire \in [MqTopics -> {-1} \cup MqQoS]
  /\ mqMux \in MqMuxes
  /\ mqReg \in [MqNodes -> [MqTopics -> MqOpts \cup {NoOpt}]]
  /\ mqSub \in [MqNodes -> {NoSub} \cup MqCalls]
  /\ mqUnsub \subseteq MqNodes \X {"loop", "stop"} \X MqTopics
  /\ mqResub \in [step : {"idle", "snapshot", "sending"}, packets : SUBSET (MqKeys \X MqQoS)]
  /\ mqRaced \in BOOLEAN /\ mqMixed \subseteq MqTopics

MqNodesOK ==
  /\ mqTodo \in [MqNodes -> [drop : SUBSET MqTopics, add : SUBSET MqTopics,
                             opt : MqOpts \cup {NoOpt}, qos : MqQoS]]
  /\ \A n \in MqNodes : mqTodo[n] = NoTodo \/ mqTodo[n].opt \in MqOpts
  /\ mqActive \in [MqNodes -> SUBSET MqTopics]
  /\ mqLife \in [MqNodes -> {"new", "running", "failed", "stopping", "stopped"}]
  /\ mqDrop \in [MqNodes -> SUBSET MqTopics]
  /\ mqLeft \in [fails : 0 .. MqFails, drops : 0 .. MqDrops, ctl : 0 .. MqCtl]

\* An entry exists exactly while it has a handler.
MqEntries(mux) == \A k \in MqKeys : mux[k].handlers = {} <=> mux[k].qos = -1

\* A node whose packet is on its way is registered for it, or Stop came first.
MqPending ==
  \A n \in MqNodes : mqSub[n] # NoSub => mqReg[n][mqSub[n].topic] \in {mqSub[n].opt, NoOpt}

MqKeyOf(n) == <<mqSub[n].topic, mqSub[n].opt>>

\* An entry is subscribed at the server, or its packet is still to come.
MqSettles(k) ==
  \/ mqWire[k[1]] >= mqMux[k].qos
  \/ mqResub.step = "sending" /\ <<k, mqMux[k].qos>> \in mqResub.packets
  \/ \E n \in MqNodes : mqSub[n] # NoSub /\ MqKeyOf(n) = k

\* The topics that are spoken of have one entry.
MqAlone == \A k \in MqKeys : mqMux[k].qos >= 0 /\ k[1] \notin mqMixed => MqSole(mqMux, k)

\* A reconnect restores the entries alone on the wire.
MqRestoring ==
  mqResub.step = "sending" =>
    /\ mqUnsub = {} /\ \A n \in MqNodes : mqSub[n] = NoSub
    /\ \A p \in mqResub.packets : p[1][1] \notin mqMixed => mqMux[p[1]].qos = p[2]

\* A SUBSCRIBE is alone on the wire, for the only entry of its topic.
MqAsking ==
  \A n \in MqNodes : mqSub[n] # NoSub =>
    /\ mqUnsub = {} /\ \A m \in MqNodes \ {n} : mqSub[m] = NoSub
    /\ mqSub[n].topic \notin mqMixed =>
         MqSole(mqMux, MqKeyOf(n)) /\ mqMux[MqKeyOf(n)].qos = mqSub[n].qos

\* An UNSUBSCRIBE is for a topic without an entry.
MqLeaving ==
  \A u \in mqUnsub : u[3] \notin mqMixed => \A o \in MqOpts : mqMux[<<u[3], o>>].qos = -1

MqCalm == mqConn = "up" /\ ~mqRaced /\ mqResub.step # "snapshot"

MqSettled ==
  MqCalm => /\ \A k \in MqKeys : mqMux[k].qos >= 0 /\ k[1] \notin mqMixed => MqSettles(k)
            /\ MqAlone /\ MqRestoring /\ MqAsking /\ MqLeaving

MqInv == MqShape /\ MqNodesOK /\ MqTablesAgree /\ MqPending /\ MqSettled

mqTables == <<mqConn, mqWire, mqMux, mqReg, mqSub, mqUnsub, mqResub, mqRaced, mqMixed>>

\* The tables do not notice what a node keeps for itself.
LEMMA MqTablesStable ==
  ASSUME MqInv, UNCHANGED mqTables, MqNodesOK' PROVE MqInv'
BY DEF MqInv, mqTables, MqShape, MqTablesAgree, MqPending, MqSettled, MqCalm, MqSettles,
       MqAlone, MqRestoring, MqAsking, MqLeaving, MqKeyOf

\* detachHandlerLocked takes one handler out of one entry, and the entry with
\* its last handler.
LEMMA MqDetach ==
  ASSUME NEW mux \in MqMuxes, MqEntries(mux), NEW k \in MqKeys, NEW n \in MqNodes
  PROVE  /\ DetachHandler(mux, k, n) \in MqMuxes
         /\ MqEntries(DetachHandler(mux, k, n))
         /\ \A j \in MqKeys \ {k} : DetachHandler(mux, k, n)[j] = mux[j]
         /\ DetachHandler(mux, k, n)[k].handlers = mux[k].handlers \ {n}
         /\ DetachHandler(mux, k, n)[k].qos \in {-1, mux[k].qos}
<1>1. CASE mux[k].qos = -1
  BY <1>1 DEF DetachHandler, MqEntries, MqMuxes
<1>2. CASE mux[k].qos # -1 /\ mux[k].handlers \subseteq {n}
  <2>1. DetachHandler(mux, k, n) = [mux EXCEPT ![k] = [qos |-> -1, handlers |-> {}]]
    BY <1>2 DEF DetachHandler, MqMuxes
  <2> QED
    BY <1>2, <2>1 DEF MqEntries, MqMuxes
<1>3. CASE mux[k].qos # -1 /\ ~(mux[k].handlers \subseteq {n})
  <2> DEFINE r == [qos |-> mux[k].qos, handlers |-> mux[k].handlers \ {n}]
  <2>1. DetachHandler(mux, k, n) = [mux EXCEPT ![k] = r]
    BY <1>3 DEF DetachHandler
  <2>2. mux[k] \in [qos : {-1} \cup MqQoS, handlers : SUBSET MqNodes]
    BY DEF MqMuxes
  <2> QED
    BY <1>3, <2>1, <2>2 DEF MqEntries, MqMuxes
<1> QED
  BY <1>1, <1>2, <1>3

\* The entry a node joins.
LEMMA MqJoin ==
  ASSUME NEW mux \in MqMuxes, MqEntries(mux), NEW t \in MqTopics, NEW o \in MqOpts,
         NEW q \in MqQoS, NEW n \in MqNodes
  PROVE  /\ JoinEntry(mux, t, o, q, n) \in MqMuxes
         /\ MqEntries(JoinEntry(mux, t, o, q, n))
         /\ \A j \in MqKeys \ {<<t, o>>} : JoinEntry(mux, t, o, q, n)[j] = mux[j]
         /\ JoinEntry(mux, t, o, q, n)[<<t, o>>].handlers = mux[<<t, o>>].handlers \cup {n}
         /\ q > mux[<<t, o>>].qos => JoinEntry(mux, t, o, q, n)[<<t, o>>].qos = q
         /\ ~(q > mux[<<t, o>>].qos) => JoinEntry(mux, t, o, q, n)[<<t, o>>].qos = mux[<<t, o>>].qos
<1> DEFINE k == <<t, o>>
           r == [qos |-> IF q > mux[k].qos THEN q ELSE mux[k].qos,
                 handlers |-> mux[k].handlers \cup {n}]
<1>1. k \in MqKeys
  BY DEF MqKeys
<1>2. mux[k] \in [qos : {-1} \cup MqQoS, handlers : SUBSET MqNodes]
  BY <1>1 DEF MqMuxes
<1>3. JoinEntry(mux, t, o, q, n) = [mux EXCEPT ![k] = r]
  BY <1>1 DEF JoinEntry, MqMuxes
<1>4. r \in [qos : {-1} \cup MqQoS, handlers : SUBSET MqNodes] /\ r.qos >= 0 /\ r.handlers # {}
  BY <1>2 DEF MqQoS
<1>5. r.handlers = mux[k].handlers \cup {n} /\ (q > mux[k].qos => r.qos = q)
      /\ (~(q > mux[k].qos) => r.qos = mux[k].qos)
  OBVIOUS
<1> HIDE DEF r, k
<1>6. [mux EXCEPT ![k] = r] \in MqMuxes /\ MqEntries([mux EXCEPT ![k] = r])
  BY <1>1, <1>4 DEF MqEntries, MqMuxes
<1> QED
  BY <1>1, <1>3, <1>5, <1>6 DEF k, MqMuxes

\* The entries are those of the tables.
LEMMA MqTableEntries == ASSUME MqTablesAgree PROVE MqEntries(mqMux)
BY DEF MqTablesAgree, MqEntries

\* Options are told from their absence, so that a call is told from none.
LEMMA MqCallIsCall == ASSUME NEW c \in MqCalls PROVE c # NoSub
<1>1. c.opt \in MqOpts /\ NoSub.opt = NoOpt
  BY DEF MqCalls, NoSub
<1> QED
  BY <1>1, MqAssumption

-----------------------------------------------------------------------------
\* Nothing is subscribed.
LEMMA MqInitially == MqInit => MqInv
<1> SUFFICES ASSUME MqInit PROVE MqInv
  OBVIOUS
<1>1. MqShape
  BY DEF MqInit, MqShape, MqMuxes, MqQoS
<1>2. MqNodesOK
  BY MqAssumption DEF MqInit, MqNodesOK, NoTodo, MqQoS
<1>3. MqTablesAgree
  BY MqAssumption DEF MqInit, MqTablesAgree, MqKeys
<1>4. MqPending /\ MqSettled
  BY DEF MqInit, MqPending, MqSettled, MqCalm
<1> QED
  BY <1>1, <1>2, <1>3, <1>4 DEF MqInv

-----------------------------------------------------------------------------
\* Away from a calm connection nothing is claimed of the server.
LEMMA MqUncalm ==
  ASSUME MqInv, MqShape', MqNodesOK', UNCHANGED <<mqMux, mqReg, mqSub>>, ~MqCalm'
  PROVE  MqInv'
BY DEF MqInv, MqTablesAgree, MqPending, MqSettled

\* The connection comes, goes and is stopped.
LEMMA MqConnectionKeeps ==
  ASSUME MqInv, MqStart \/ MqConnect \/ MqConnectionDown \/ MqStop PROVE MqInv'
<1>1. UNCHANGED <<mqMux, mqReg, mqSub>> /\ ~MqCalm'
  BY DEF MqStart, MqConnect, MqConnectionDown, MqStop, MqCalm, MqInv, MqShape
<1>2. MqShape'
  BY DEF MqInv, MqShape, MqStart, MqConnect, MqConnectionDown, MqStop
<1>3. MqNodesOK'
  <2>1. CASE MqStart \/ MqConnect \/ MqStop
    BY <2>1 DEF MqInv, MqNodesOK, MqStart, MqConnect, MqStop
  <2>2. CASE MqConnectionDown
    <3>1. mqLeft.drops \in 0 .. MqDrops /\ mqLeft.drops > 0
      BY <2>2 DEF MqConnectionDown, MqInv, MqNodesOK
    <3>2. mqLeft.drops - 1 \in 0 .. MqDrops
      BY <3>1, MqAssumption
    <3> QED
      BY <2>2, <3>2 DEF MqConnectionDown, MqInv, MqNodesOK
  <2> QED
    BY <2>1, <2>2
<1> QED
  BY <1>1, <1>2, <1>3, MqUncalm

\* onConnectionUp collects every entry.
LEMMA MqSnapshotKeeps == ASSUME MqInv, MqSnapshot PROVE MqInv'
<1> DEFINE P == {<<k, mqMux[k].qos>> : k \in {j \in MqKeys : mqMux[j].qos >= 0}}
<1>1. P \subseteq MqKeys \X MqQoS
  BY DEF MqInv, MqShape, MqMuxes, MqQoS
<1>2. mqResub' = [step |-> "sending", packets |-> P] /\ mqRaced' \in BOOLEAN
      /\ mqMixed' \subseteq MqTopics
      /\ UNCHANGED <<mqConn, mqWire, mqMux, mqReg, mqSub, mqUnsub, mqTodo, mqActive, mqLife, mqDrop, mqLeft>>
  BY DEF MqSnapshot
<1>3. \A k \in MqKeys : mqMux[k].qos >= 0 => <<k, mqMux[k].qos>> \in P
  OBVIOUS
<1>4. \A p \in P : mqMux[p[1]].qos = p[2]
  OBVIOUS
<1>5. ~mqRaced' => mqUnsub = {} /\ \A n \in MqNodes : mqSub[n] = NoSub
  BY DEF MqSnapshot
<1>a. \A k \in MqKeys : mqMux[k].qos >= 0 /\ k[1] \notin mqMixed' => MqSole(mqMux, k)
  <2>1. \A k \in MqKeys : k[1] \in MqTopics /\ k[2] \in MqOpts /\ k = <<k[1], k[2]>>
    BY DEF MqKeys
  <2>2. mqMixed' = {t \in MqTopics : \E o \in MqOpts : mqMux[<<t, o>>].qos >= 0 /\ ~MqSole(mqMux, <<t, o>>)}
    BY DEF MqSnapshot
  <2> QED BY <2>1, <2>2
<1> HIDE DEF P
<1>6. MqShape'
  BY <1>1, <1>2 DEF MqInv, MqShape
<1>7. MqNodesOK' /\ MqTablesAgree' /\ MqPending'
  BY <1>2 DEF MqInv, MqNodesOK, MqTablesAgree, MqPending
<1>8. MqSettled'
  BY <1>2, <1>3, <1>4, <1>5, <1>a DEF MqSettled, MqCalm, MqSettles, MqAlone, MqRestoring, MqAsking, MqLeaving, MqSole,
     MqKeyOf
<1> QED
  BY <1>6, <1>7, <1>8 DEF MqInv

\* onConnectionUp sends one entry of its snapshot.
LEMMA MqResubscribeKeeps == ASSUME MqInv, MqResubscribe PROVE MqInv'
<1>0. UNCHANGED <<mqDrop, mqConn, mqMux, mqReg, mqSub, mqUnsub, mqTodo, mqActive, mqLife, mqMixed>>
      /\ mqResub.step = "sending"
  BY DEF MqResubscribe
<1>1. MqTablesAgree' /\ MqPending'
  BY <1>0 DEF MqInv, MqTablesAgree, MqPending
<1>2. CASE mqResub.packets = {} /\ mqResub' = [mqResub EXCEPT !.step = "idle"]
           /\ UNCHANGED <<mqWire, mqRaced, mqLeft>>
  <2>1. mqResub' = [step |-> "idle", packets |-> {}]
    BY <1>2 DEF MqInv, MqShape
  <2>2. MqShape' /\ MqNodesOK'
    BY <1>0, <1>2, <2>1 DEF MqInv, MqShape, MqNodesOK
  <2>3. MqSettled'
    BY <1>0, <1>2, <2>1 DEF MqInv, MqSettled, MqCalm, MqSettles, MqAlone, MqRestoring, MqAsking, MqLeaving, MqKeyOf
  <2> QED
    BY <1>1, <2>2, <2>3 DEF MqInv
<1>3. ASSUME NEW p \in mqResub.packets, mqResub' = [mqResub EXCEPT !.packets = @ \ {p}],
             mqConn = "up", mqWire' = [mqWire EXCEPT ![p[1][1]] = p[2]],
             UNCHANGED <<mqRaced, mqLeft>>
      PROVE  MqInv'
  <2>1. p \in MqKeys \X MqQoS /\ p[1] \in MqKeys /\ p[1][1] \in MqTopics /\ p[2] \in MqQoS
    BY DEF MqInv, MqShape, MqKeys
  <2>2. mqResub' = [step |-> "sending", packets |-> mqResub.packets \ {p}]
    BY <1>0, <1>3 DEF MqInv, MqShape
  <2>3. MqShape' /\ MqNodesOK'
    BY <1>0, <1>3, <2>1, <2>2 DEF MqInv, MqShape, MqNodesOK
  <2>4. ASSUME MqCalm', NEW k \in MqKeys, mqMux[k].qos >= 0, k[1] \notin mqMixed PROVE MqSettles(k)'
    <3>1. MqCalm /\ MqRestoring /\ MqSettles(k) /\ MqSole(mqMux, k) /\ \A n \in MqNodes : mqSub[n] = NoSub
      BY <1>0, <1>3, <2>4 DEF MqInv, MqSettled, MqCalm, MqRestoring, MqAlone
    <3>2. CASE k = p[1]
      BY <3>1, <3>2, <1>0, <1>3, <2>1, <2>4 DEF MqSettles, MqRestoring, MqInv, MqShape, MqQoS
    <3>3. CASE k # p[1]
      <4>1. k[1] # p[1][1]
        <5>1. SUFFICES ASSUME k[1] = p[1][1] PROVE FALSE
          OBVIOUS
        <5>2. mqMux[p[1]].qos >= 0
          BY <3>1, <1>0, <2>1, <2>4, <5>1 DEF MqRestoring, MqQoS
        <5>3. p[1] = <<k[1], p[1][2]>> /\ p[1][2] \in MqOpts /\ k[2] # p[1][2]
          BY <2>1, <3>3, <5>1 DEF MqKeys
        <5>4. mqMux[<<k[1], p[1][2]>>].qos = -1
          BY <3>1, <5>3 DEF MqSole
        <5> QED
          BY <5>2, <5>3, <5>4
      <4>2. mqWire'[k[1]] = mqWire[k[1]] /\ <<k, mqMux[k].qos>> # p
        BY <4>1, <1>3, <3>3, <2>1 DEF MqInv, MqShape, MqKeys
      <4> QED
        BY <3>1, <4>2, <1>0, <2>2 DEF MqSettles
    <3> QED
      BY <3>2, <3>3
  <2>5. MqSettled'
    BY <1>0, <1>3, <2>2, <2>4 DEF MqInv, MqSettled, MqCalm, MqAlone, MqRestoring, MqAsking, MqLeaving, MqKeyOf, MqSole
  <2> QED
    BY <1>1, <2>3, <2>5 DEF MqInv
<1>4. ASSUME NEW p \in mqResub.packets, mqResub' = [mqResub EXCEPT !.packets = @ \ {p}],
             mqConn # "up" \/ mqLeft.fails > 0, UNCHANGED mqWire, mqRaced' = TRUE,
             mqLeft' = [mqLeft EXCEPT !.fails = IF mqConn = "up" THEN @ - 1 ELSE @]
      PROVE  MqInv'
  <2>1. MqShape'
    BY <1>0, <1>4 DEF MqInv, MqShape
  <2>2. MqNodesOK'
    BY <1>0, <1>4, MqAssumption DEF MqInv, MqNodesOK
  <2> QED
    BY <1>0, <1>4, <2>1, <2>2, MqUncalm DEF MqCalm
<1> QED
  BY <1>2, <1>3, <1>4 DEF MqResubscribe

-----------------------------------------------------------------------------
\* Registering (t, o) for n, with n's old handler detached and the new one
\* joined, leaves the tables in agreement.
LEMMA MqRegister ==
  ASSUME MqShape, MqTablesAgree, NEW n \in MqNodes, NEW t \in MqTopics, NEW o,
         \A k \in MqKeys : mqMux'[k].handlers = {} <=> mqMux'[k].qos = -1,
         \A m \in MqNodes, s \in MqTopics : mqReg'[m][s] = IF m = n /\ s = t THEN o ELSE mqReg[m][s],
         \A k \in MqKeys : k[1] # t => mqMux'[k] = mqMux[k],
         \A k \in MqKeys : (k[1] = t /\ k[2] = o) => mqMux'[k].handlers = mqMux[k].handlers \cup {n},
         \A k \in MqKeys : (k[1] = t /\ k[2] # o) => mqMux'[k].handlers = mqMux[k].handlers \ {n}
  PROVE  MqTablesAgree'
<1>1. \A m \in MqNodes, s \in MqTopics : mqReg'[m][s] = IF m = n /\ s = t THEN o ELSE mqReg[m][s]
  OBVIOUS
<1>2. \A k \in MqKeys : k[1] \in MqTopics /\ k[2] \in MqOpts
  BY DEF MqKeys
<1>3. ASSUME NEW k \in MqKeys, NEW m \in MqNodes
      PROVE  m \in mqMux'[k].handlers <=> mqReg'[m][k[1]] = k[2]
  <2>1. m \in mqMux[k].handlers <=> mqReg[m][k[1]] = k[2]
    BY DEF MqTablesAgree
  <2>2. CASE k[1] # t
    BY <1>1, <1>2, <2>1, <2>2
  <2>3. CASE k[1] = t /\ k[2] = o
    <3>1. mqMux'[k].handlers = mqMux[k].handlers \cup {n}
      BY <2>3
    <3>2. mqReg'[m][k[1]] = IF m = n THEN o ELSE mqReg[m][k[1]]
      BY <1>1, <1>2, <2>3
    <3> QED
      BY <2>1, <2>3, <3>1, <3>2
  <2>4. CASE k[1] = t /\ k[2] # o
    <3>1. mqMux'[k].handlers = mqMux[k].handlers \ {n}
      BY <2>4
    <3>2. mqReg'[m][k[1]] = IF m = n THEN o ELSE mqReg[m][k[1]]
      BY <1>1, <1>2, <2>4
    <3> QED
      BY <2>1, <2>4, <3>1, <3>2
  <2> QED
    BY <2>2, <2>3, <2>4
<1> QED
  BY <1>3 DEF MqTablesAgree

\* Taking n's registration for t back, with its handler, leaves the tables in
\* agreement.
LEMMA MqUnregister ==
  ASSUME MqShape, MqTablesAgree, NEW n \in MqNodes, NEW t \in MqTopics,
         \A k \in MqKeys : mqMux'[k].handlers = {} <=> mqMux'[k].qos = -1,
         \A m \in MqNodes, s \in MqTopics : mqReg'[m][s] = IF m = n /\ s = t THEN NoOpt ELSE mqReg[m][s],
         \A k \in MqKeys : k[1] # t => mqMux'[k] = mqMux[k],
         \A k \in MqKeys : k[1] = t => mqMux'[k].handlers = mqMux[k].handlers \ {n}
  PROVE  MqTablesAgree'
<1>1. \A k \in MqKeys : k[1] \in MqTopics /\ k[2] \in MqOpts
  BY DEF MqKeys
<1>2. ASSUME NEW k \in MqKeys, NEW m \in MqNodes
      PROVE  m \in mqMux'[k].handlers <=> mqReg'[m][k[1]] = k[2]
  <2>1. m \in mqMux[k].handlers <=> mqReg[m][k[1]] = k[2]
    BY DEF MqTablesAgree
  <2>2. mqReg'[m][k[1]] = IF m = n /\ k[1] = t THEN NoOpt ELSE mqReg[m][k[1]]
    BY <1>1
  <2>3. CASE k[1] # t
    BY <2>1, <2>2, <2>3
  <2>4. CASE k[1] = t
    <3>1. mqMux'[k].handlers = mqMux[k].handlers \ {n}
      BY <2>4
    <3> QED
      BY <1>1, <2>1, <2>2, <2>4, <3>1, MqAssumption
  <2> QED
    BY <2>3, <2>4
<1> QED
  BY <1>2 DEF MqTablesAgree

\* What Subscribe leaves under the mutex.
LEMMA MqSubscribes ==
  ASSUME MqShape, MqTablesAgree, NEW n \in MqNodes, NEW t \in MqTopics, NEW o \in MqOpts,
         NEW q \in MqQoS, MqSubscribe(n, t, o, q)
  PROVE  /\ mqMux' \in MqMuxes /\ MqTablesAgree'
         /\ mqReg' = [mqReg EXCEPT ![n][t] = o]
         /\ \A k \in MqKeys : k[1] # t => mqMux'[k] = mqMux[k]
         /\ mqMixed \subseteq mqMixed' /\ mqMixed' \subseteq mqMixed \cup {t}
         /\ t \notin mqMixed' => MqSole(mqMux', <<t, o>>)
         /\ \/ /\ UNCHANGED <<mqSub, mqRaced>>
               /\ mqConn = "up" => mqMux'[<<t, o>>].qos = mqMux[<<t, o>>].qos
               /\ \A k \in MqKeys : k # <<t, o>> => mqMux'[k].qos \in {-1, mqMux[k].qos}
               /\ mqConn = "up" => mqMux[<<t, o>>].qos >= 0
            \/ \E c \in MqCalls :
                 /\ mqSub' = [mqSub EXCEPT ![n] = c]
                 /\ c.topic = t /\ c.opt = o /\ mqMux'[<<t, o>>].qos = c.qos
                 /\ mqRaced' \in BOOLEAN /\ (mqRaced => mqRaced')
                 /\ ~mqRaced' => ~MqBusy
<1> DEFINE old == mqReg[n][t]
           k == <<t, o>>
           mux == IF old = NoOpt THEN mqMux ELSE DetachHandler(mqMux, <<t, old>>, n)
           join == JoinEntry(mux, t, o, q, n)
           had == mux[k].qos >= 0
           need == ~had \/ q > mux[k].qos
           c == [topic |-> t, opt |-> o, had |-> had, qos |-> q, prev |-> IF had THEN mux[k].qos ELSE 0]
<1>0. /\ mqMux' = join
      /\ mqReg' = [mqReg EXCEPT ![n][t] = o]
      /\ mqMixed' = IF MqSole(mux, k) THEN mqMixed ELSE mqMixed \cup {t}
      /\ IF need /\ mqConn \in {"connecting", "up", "down"}
         THEN /\ mqSub' = [mqSub EXCEPT ![n] = c]
              /\ mqRaced' = (mqRaced \/ MqBusy)
         ELSE UNCHANGED <<mqSub, mqRaced>>
  BY DEF MqSubscribe
<1>1. k \in MqKeys /\ MqEntries(mqMux) /\ old \in MqOpts \cup {NoOpt} /\ mqMux \in MqMuxes
  BY MqTableEntries DEF MqKeys, MqShape
<1>2. /\ mux \in MqMuxes /\ MqEntries(mux)
      /\ \A j \in MqKeys : j # <<t, old>> => mux[j] = mqMux[j]
      /\ \A j \in MqKeys : mux[j].qos \in {-1, mqMux[j].qos}
      /\ \A j \in MqKeys : j[1] = t => mux[j].handlers = mqMux[j].handlers \ {n}
  <2>1. \A j \in MqKeys : (j[1] = t /\ j[2] # old) => n \notin mqMux[j].handlers
    BY DEF MqTablesAgree
  <2>2. \A j \in MqKeys : mqMux[j].handlers \in SUBSET MqNodes
    BY <1>1 DEF MqMuxes
  <2>3. CASE old = NoOpt
    <3>1. mux = mqMux
      BY <2>3
    <3>2. \A j \in MqKeys : j[2] # old
      BY <2>3, MqAssumption DEF MqKeys
    <3> QED
      BY <3>1, <3>2, <1>1, <2>1
  <2>4. CASE old # NoOpt
    <3>1. mux = DetachHandler(mqMux, <<t, old>>, n) /\ <<t, old>> \in MqKeys
      BY <2>4, <1>1 DEF MqKeys
    <3>a. PICK i \in MqKeys : i = <<t, old>>
      BY <3>1
    <3> HIDE DEF mux, old
    <3>b. /\ DetachHandler(mqMux, i, n) \in MqMuxes
          /\ MqEntries(DetachHandler(mqMux, i, n))
          /\ \A j \in MqKeys \ {i} : DetachHandler(mqMux, i, n)[j] = mqMux[j]
          /\ DetachHandler(mqMux, i, n)[i].handlers = mqMux[i].handlers \ {n}
          /\ DetachHandler(mqMux, i, n)[i].qos \in {-1, mqMux[i].qos}
      BY ONLY <1>1, n \in MqNodes, i \in MqKeys, MqDetach
    <3>2. /\ mux \in MqMuxes /\ MqEntries(mux)
          /\ \A j \in MqKeys \ {<<t, old>>} : mux[j] = mqMux[j]
          /\ mux[<<t, old>>].handlers = mqMux[<<t, old>>].handlers \ {n}
          /\ mux[<<t, old>>].qos \in {-1, mqMux[<<t, old>>].qos}
      BY ONLY <3>a, <3>b, <3>1
    <3>3. \A j \in MqKeys : j[1] = t => (j = <<t, old>> <=> j[2] = old)
      BY DEF MqKeys
    <3> QED
      BY <3>2, <3>3, <2>1
  <2> QED
    BY <2>3, <2>4
<1>3. mux[k].qos \in {-1} \cup MqQoS
  BY <1>1, <1>2 DEF MqMuxes
<1>4. c \in MqCalls /\ c.topic = t /\ c.opt = o /\ c.qos = q
  BY <1>3 DEF MqCalls, MqQoS
<1> HIDE DEF old, mux, c
<1>5. /\ join \in MqMuxes /\ MqEntries(join)
      /\ \A j \in MqKeys \ {k} : join[j] = mux[j]
      /\ join[k].handlers = mux[k].handlers \cup {n}
      /\ q > mux[k].qos => join[k].qos = q
      /\ ~(q > mux[k].qos) => join[k].qos = mux[k].qos
  BY <1>1, <1>2, MqJoin
<1> HIDE DEF join
<1>6. k[1] = t /\ k[2] = o /\ \A j \in MqKeys : (j[1] = t /\ j[2] = o) => j = k
  BY DEF MqKeys
<1> HIDE DEF k
<1>7. \A j \in MqKeys : j[1] # t => join[j] = mqMux[j]
  <2>1. \A j \in MqKeys : j[1] # t => j # <<t, old>> /\ j # k
    BY <1>6
  <2> QED
    BY <1>2, <1>5, <2>1
<1>8. \A j \in MqKeys : j[1] = t =>
        join[j].handlers = IF j[2] = o THEN mqMux[j].handlers \cup {n} ELSE mqMux[j].handlers \ {n}
  BY <1>1, <1>2, <1>5, <1>6
<1>9. MqTablesAgree'
  <2>1. mqMux' = join
        /\ \A m \in MqNodes, s \in MqTopics : mqReg'[m][s] = IF m = n /\ s = t THEN o ELSE mqReg[m][s]
    BY <1>0 DEF MqShape
  <2>2. /\ \A j \in MqKeys : mqMux'[j].handlers = {} <=> mqMux'[j].qos = -1
        /\ \A j \in MqKeys : j[1] # t => mqMux'[j] = mqMux[j]
        /\ \A j \in MqKeys : (j[1] = t /\ j[2] = o) => mqMux'[j].handlers = mqMux[j].handlers \cup {n}
        /\ \A j \in MqKeys : (j[1] = t /\ j[2] # o) => mqMux'[j].handlers = mqMux[j].handlers \ {n}
    BY ONLY <2>1, <1>5, <1>7, <1>8 DEF MqEntries
  <2> QED
    BY <2>1, <2>2, MqRegister
<1>a. MqSole(mux, k) => MqSole(join, k)
  <2>1. \A p \in MqOpts \ {k[2]} : <<k[1], p>> \in MqKeys \ {k}
    BY <1>6 DEF MqKeys
  <2> QED
    BY <2>1, <1>5 DEF MqSole
<1>b. /\ mqMixed \subseteq mqMixed' /\ mqMixed' \subseteq mqMixed \cup {t}
      /\ t \notin mqMixed' => MqSole(join, k)
  BY <1>0, <1>a, Zenon
<1>10. CASE need /\ mqConn \in {"connecting", "up", "down"}
  <2>1. join[k].qos = q
    BY <1>3, <1>5, <1>10 DEF MqQoS
  <2>3. /\ mqSub' = [mqSub EXCEPT ![n] = c]
        /\ mqRaced' = (mqRaced \/ MqBusy)
    BY <1>0, <1>10
  <2>4. mqRaced' \in BOOLEAN /\ (mqRaced => mqRaced') /\ (~mqRaced' => ~MqBusy)
    BY <2>3, Zenon
  <2> QED
    BY <1>0, <1>4, <1>5, <1>7, <1>9, <1>b, <2>1, <2>3, <2>4 DEF k
<1>11. CASE ~(need /\ mqConn \in {"connecting", "up", "down"})
  <2>1. UNCHANGED <<mqSub, mqRaced>>
    BY <1>0, <1>11
  <2>2. mqConn = "up" => join[k].qos = mux[k].qos /\ mux[k].qos >= 0
    BY <1>5, <1>11
  <2>3. mqConn = "up" => join[k].qos = mqMux[k].qos /\ mqMux[k].qos >= 0
    BY <1>1, <1>2, <1>3, <2>2 DEF MqMuxes, MqQoS
  <2>4. \A j \in MqKeys : j # k => join[j].qos \in {-1, mqMux[j].qos}
    BY <1>2, <1>5
  <2> QED
    BY <1>0, <1>5, <1>7, <1>9, <1>b, <2>1, <2>3, <2>4 DEF k
<1> QED
  BY <1>10, <1>11

-----------------------------------------------------------------------------
\* Entries that are unchanged or gone, of topics with one entry unchanged,
\* stay settled.
LEMMA MqShrinks ==
  ASSUME MqInv, MqCalm, UNCHANGED <<mqConn, mqWire, mqSub, mqUnsub, mqResub, mqRaced>>,
         mqMixed \subseteq mqMixed',
         \A k \in MqKeys : k[1] \notin mqMixed' => mqMux'[k].qos = mqMux[k].qos
  PROVE  MqSettled'
<1>1. /\ \A k \in MqKeys : mqMux[k].qos >= 0 /\ k[1] \notin mqMixed => MqSettles(k)
      /\ MqAlone /\ MqRestoring /\ MqAsking /\ MqLeaving
  BY DEF MqInv, MqSettled
<1>2. ASSUME NEW k \in MqKeys, mqMux'[k].qos >= 0, k[1] \notin mqMixed' PROVE MqSettles(k)'
  <2>1. mqMux'[k].qos = mqMux[k].qos /\ k[1] \notin mqMixed
    BY <1>2
  <2> QED
    BY <1>1, <1>2, <2>1 DEF MqSettles, MqKeyOf
<1>3. \A k \in MqKeys : k[1] \notin mqMixed' => (MqSole(mqMux, k) <=> MqSole(mqMux', k))
  <2>1. \A k \in MqKeys, o \in MqOpts : <<k[1], o>> \in MqKeys /\ <<k[1], o>>[1] = k[1]
    BY DEF MqKeys
  <2> QED
    BY <2>1 DEF MqSole
<1>4. MqAlone'
  <2> SUFFICES ASSUME NEW k \in MqKeys, mqMux'[k].qos >= 0, k[1] \notin mqMixed' PROVE MqSole(mqMux', k)
    BY DEF MqAlone
  <2> QED BY <1>1, <1>3 DEF MqAlone
<1>5. MqRestoring'
  <2> SUFFICES ASSUME mqResub.step = "sending"
               PROVE  /\ mqUnsub = {} /\ \A n \in MqNodes : mqSub[n] = NoSub
                      /\ \A p \in mqResub.packets : p[1][1] \notin mqMixed' => mqMux'[p[1]].qos = p[2]
    BY DEF MqRestoring
  <2>1. \A p \in mqResub.packets : p[1] \in MqKeys
    BY DEF MqInv, MqShape
  <2> QED
    BY <1>1, <2>1 DEF MqRestoring
<1>6. MqAsking'
  <2> SUFFICES ASSUME NEW n \in MqNodes, mqSub[n] # NoSub
               PROVE  /\ mqUnsub = {} /\ \A m \in MqNodes \ {n} : mqSub[m] = NoSub
                      /\ mqSub[n].topic \notin mqMixed' =>
                           MqSole(mqMux', MqKeyOf(n)) /\ mqMux'[MqKeyOf(n)].qos = mqSub[n].qos
    BY DEF MqAsking, MqKeyOf
  <2>1. MqKeyOf(n) \in MqKeys /\ MqKeyOf(n)[1] = mqSub[n].topic
    BY DEF MqKeyOf, MqKeys, MqCalls, MqInv, MqShape
  <2> QED
    BY <1>1, <1>3, <2>1 DEF MqAsking
<1>7. MqLeaving'
  <2> SUFFICES ASSUME NEW u \in mqUnsub, u[3] \notin mqMixed', NEW o \in MqOpts
               PROVE  mqMux'[<<u[3], o>>].qos = -1
    BY DEF MqLeaving
  <2>0. u[3] \in MqTopics
    BY DEF MqInv, MqShape
  <2> DEFINE t == u[3]
             k == <<t, o>>
  <2>a. t \in MqTopics /\ t \notin mqMixed'
    BY <2>0
  <2> HIDE DEF t
  <2>1. k \in MqKeys /\ k[1] = t
    BY <2>a DEF MqKeys
  <2>2. mqMux[k].qos = -1 /\ t \notin mqMixed
    BY <1>1, <2>a DEF MqLeaving, t
  <2> QED BY <1>1, <2>1, <2>2, <2>a DEF t
<1> QED
  BY <1>2, <1>4, <1>5, <1>6, <1>7 DEF MqSettled

\* Subscribe enters a handler and sends its packet.
LEMMA MqSubscribeKeeps ==
  ASSUME MqInv, NEW n \in MqNodes, NEW t \in MqTopics, NEW o \in MqOpts, NEW q \in MqQoS,
         MqSubscribe(n, t, o, q), mqSub[n] = NoSub,
         UNCHANGED <<mqConn, mqWire, mqUnsub, mqResub>>, MqNodesOK'
  PROVE  MqInv'
<1>1. PICK k \in MqKeys : k = <<t, o>>
  BY DEF MqKeys
<1>2. /\ mqMux' \in MqMuxes /\ MqTablesAgree'
      /\ mqReg' = [mqReg EXCEPT ![n][t] = o]
      /\ \A j \in MqKeys : j[1] # t => mqMux'[j] = mqMux[j]
      /\ mqMixed \subseteq mqMixed' /\ mqMixed' \subseteq mqMixed \cup {t}
      /\ t \notin mqMixed' => MqSole(mqMux', k)
      /\ \/ /\ UNCHANGED <<mqSub, mqRaced>>
            /\ mqConn = "up" => mqMux'[k].qos = mqMux[k].qos
            /\ \A j \in MqKeys : j # k => mqMux'[j].qos \in {-1, mqMux[j].qos}
            /\ mqConn = "up" => mqMux[k].qos >= 0
         \/ \E c \in MqCalls :
              /\ mqSub' = [mqSub EXCEPT ![n] = c]
              /\ c.topic = t /\ c.opt = o /\ mqMux'[k].qos = c.qos
              /\ mqRaced' \in BOOLEAN /\ (mqRaced => mqRaced')
              /\ ~mqRaced' => ~MqBusy
  BY <1>1, MqSubscribes DEF MqInv
<1>a. mqMixed' \subseteq MqTopics
  BY <1>2 DEF MqInv, MqShape
<1>b. k[1] = t /\ k[2] = o /\ \A j \in MqKeys : j[1] = t /\ j # k => j = <<k[1], j[2]>> /\ j[2] \in MqOpts \ {k[2]}
  BY <1>1 DEF MqKeys
<1>3. CASE /\ UNCHANGED <<mqSub, mqRaced>>
           /\ mqConn = "up" => mqMux'[k].qos = mqMux[k].qos
           /\ \A j \in MqKeys : j # k => mqMux'[j].qos \in {-1, mqMux[j].qos}
           /\ mqConn = "up" => mqMux[k].qos >= 0
  <2>1. MqShape'
    BY <1>2, <1>3, <1>a DEF MqInv, MqShape
  <2>2. MqPending'
    BY <1>2, <1>3 DEF MqInv, MqShape, MqPending
  <2>3. ASSUME MqCalm' PROVE MqSettled'
    <3>1. MqCalm /\ mqMux'[k].qos = mqMux[k].qos /\ mqMux[k].qos >= 0
      BY <1>3, <2>3 DEF MqCalm
    <3>2. ASSUME NEW j \in MqKeys, j[1] \notin mqMixed' PROVE mqMux'[j].qos = mqMux[j].qos
      <4>1. CASE j[1] # t
        BY <1>2, <4>1
      <4>2. CASE j = k
        BY <3>1, <4>2
      <4>3. CASE j[1] = t /\ j # k
        <5>1. MqSole(mqMux, k) /\ MqSole(mqMux', k)
          BY <1>2, <1>b, <3>1, <3>2, <4>3 DEF MqInv, MqSettled, MqAlone
        <5> QED BY <1>b, <4>3, <5>1 DEF MqSole
      <4> QED BY <4>1, <4>2, <4>3
    <3> QED
      BY <1>2, <1>3, <3>1, <3>2, MqShrinks
  <2> QED
    BY <1>2, <2>1, <2>2, <2>3 DEF MqInv, MqSettled
<1>4. ASSUME NEW c \in MqCalls,
             mqSub' = [mqSub EXCEPT ![n] = c],
             c.topic = t, c.opt = o, mqMux'[k].qos = c.qos,
             mqRaced' \in BOOLEAN, mqRaced => mqRaced',
             ~mqRaced' => ~MqBusy
      PROVE  MqInv'
  <2>1. MqShape'
    BY <1>2, <1>4, <1>a DEF MqInv, MqShape
  <2>2. \A m \in MqNodes : mqSub'[m] = IF m = n THEN c ELSE mqSub[m]
    BY <1>4 DEF MqInv, MqShape
  <2>3. MqPending'
    BY <1>2, <1>4, <2>2 DEF MqInv, MqShape, MqPending
  <2>4. c # NoSub
    BY MqCallIsCall
  <2>5. ASSUME MqCalm' PROVE MqSettled'
    <3>1. MqCalm /\ ~MqBusy
      BY <1>4, <2>5 DEF MqCalm
    <3>2. mqUnsub = {} /\ mqResub.step = "idle" /\ \A m \in MqNodes : mqSub[m] = NoSub
      BY <3>1 DEF MqBusy, MqInv, MqShape
    <3>3. mqSub'[n] # NoSub /\ MqKeyOf(n)' = k /\ mqSub'[n].qos = mqMux'[k].qos /\ mqSub'[n].topic = t
          /\ \A m \in MqNodes \ {n} : mqSub'[m] = NoSub
      BY <1>1, <1>4, <2>2, <2>4, <3>2 DEF MqKeyOf
    <3>4. ASSUME NEW j \in MqKeys, mqMux'[j].qos >= 0, j[1] \notin mqMixed'
          PROVE  MqSettles(j)' /\ MqSole(mqMux', j)
      <4>1. CASE j = k
        BY <1>2, <1>b, <3>3, <3>4, <4>1 DEF MqSettles
      <4>2. CASE j[1] # t
        <5>1. mqMux'[j] = mqMux[j] /\ j[1] \notin mqMixed
          BY <1>2, <3>4, <4>2
        <5>2. MqSettles(j) /\ MqSole(mqMux, j)
          BY <3>1, <3>4, <5>1 DEF MqInv, MqSettled, MqAlone
        <5>3. \A p \in MqOpts : <<j[1], p>> \in MqKeys /\ <<j[1], p>>[1] = j[1]
          BY DEF MqKeys
        <5>4. MqSole(mqMux', j)
          BY <1>2, <4>2, <5>2, <5>3 DEF MqSole
        <5>5. mqWire'[j[1]] >= mqMux'[j].qos
          BY <3>2, <5>1, <5>2 DEF MqSettles
        <5> QED BY <5>4, <5>5 DEF MqSettles
      <4>3. CASE j # k /\ j[1] = t
        BY <1>2, <1>b, <3>4, <4>3 DEF MqSole
      <4> QED
        BY <4>1, <4>2, <4>3
    <3>5. MqRestoring' /\ MqLeaving'
      BY <3>2 DEF MqRestoring, MqLeaving
    <3>6. MqAsking'
      BY <1>2, <3>2, <3>3 DEF MqAsking
    <3>7. MqAlone'
      BY <3>4 DEF MqAlone
    <3> QED
      BY <3>4, <3>5, <3>6, <3>7 DEF MqSettled
  <2> QED
    BY <1>2, <2>1, <2>3, <2>5 DEF MqInv, MqSettled
<1> QED
  BY <1>2, <1>3, <1>4

-----------------------------------------------------------------------------
\* SUBACK: the topic's only entry is served.
LEMMA MqSubAckKeeps == ASSUME MqInv, NEW n \in MqNodes, MqSubAck(n) PROVE MqInv'
<1>0. /\ mqSub[n] # NoSub /\ mqConn = "up"
      /\ mqWire' = [mqWire EXCEPT ![mqSub[n].topic] = mqSub[n].qos]
      /\ mqSub' = [mqSub EXCEPT ![n] = NoSub]
      /\ UNCHANGED <<mqDrop, mqConn, mqMux, mqReg, mqUnsub, mqTodo, mqResub, mqRaced, mqMixed, mqLeft>>
  BY DEF MqSubAck
<1>1. mqSub[n] \in MqCalls /\ mqSub[n].topic \in MqTopics /\ mqSub[n].opt \in MqOpts
      /\ mqSub[n].qos \in MqQoS
  BY <1>0 DEF MqInv, MqShape, MqCalls
<1>2. MqShape'
  BY <1>0, <1>1 DEF MqInv, MqShape
<1>3. MqNodesOK'
  BY <1>0, <1>1 DEF MqInv, MqNodesOK, MqSubAck
<1>4. MqTablesAgree'
  BY <1>0 DEF MqInv, MqTablesAgree
<1>5. \A m \in MqNodes : mqSub'[m] = IF m = n THEN NoSub ELSE mqSub[m]
  BY <1>0 DEF MqInv, MqShape
<1>6. MqPending'
  BY <1>0, <1>5 DEF MqInv, MqPending
<1>7. ASSUME MqCalm' PROVE MqSettled'
  <2>1. MqCalm
    BY <1>0, <1>7 DEF MqCalm
  <2>2. PICK k \in MqKeys : k = MqKeyOf(n)
    BY <1>1 DEF MqKeyOf, MqKeys
  <2>3. /\ mqUnsub = {} /\ \A m \in MqNodes \ {n} : mqSub[m] = NoSub
        /\ k[1] \notin mqMixed => MqSole(mqMux, k) /\ mqMux[k].qos = mqSub[n].qos
        /\ mqResub.step # "sending"
    BY <1>0, <2>1, <2>2 DEF MqInv, MqSettled, MqAsking, MqRestoring, MqKeyOf
  <2>4. \A m \in MqNodes : mqSub'[m] = NoSub
    BY <1>5, <2>3
  <2>5. k[1] = mqSub[n].topic /\ k[2] = mqSub[n].opt
    BY <2>2 DEF MqKeyOf
  <2>6. ASSUME NEW j \in MqKeys, mqMux[j].qos >= 0, j[1] \notin mqMixed PROVE mqWire'[j[1]] >= mqMux[j].qos
    <3>0. j[1] \in MqTopics /\ j[2] \in MqOpts /\ j = <<j[1], j[2]>> /\ k = <<k[1], k[2]>>
      BY DEF MqKeys
    <3>1. CASE j = k
      <4>1. mqWire'[j[1]] = mqSub[n].qos
        BY <3>1, <1>0, <1>1, <2>5 DEF MqInv, MqShape
      <4> QED
        BY <4>1, <3>1, <2>3, <2>6, <1>1 DEF MqQoS
    <3>2. CASE j # k
      <4>1. j[1] # k[1]
        BY <3>0, <3>2, <2>3, <2>6 DEF MqSole
      <4>2. mqWire'[j[1]] = mqWire[j[1]]
        BY <4>1, <1>0, <3>0, <2>5 DEF MqInv, MqShape
      <4>3. MqSettles(j) /\ ~\E m \in MqNodes : mqSub[m] # NoSub /\ MqKeyOf(m) = j
        BY <2>1, <2>2, <2>3, <2>6, <3>2 DEF MqInv, MqSettled
      <4> QED
        BY <4>2, <4>3, <2>3 DEF MqSettles
    <3> QED
      BY <3>1, <3>2
  <2> QED
    BY <1>0, <2>1, <2>3, <2>4, <2>6 DEF MqInv, MqSettled, MqSettles, MqAlone, MqRestoring, MqAsking, MqLeaving
<1> QED
  BY <1>2, <1>3, <1>4, <1>6, <1>7 DEF MqInv, MqSettled

\* One failure less.
LEMMA MqFailLeft ==
  ASSUME MqNodesOK, mqConn # "up" \/ mqLeft.fails > 0,
         mqLeft' = [mqLeft EXCEPT !.fails = IF mqConn = "up" THEN @ - 1 ELSE @]
  PROVE  mqLeft' \in [fails : 0 .. MqFails, drops : 0 .. MqDrops, ctl : 0 .. MqCtl]
<1>1. mqLeft.fails \in 0 .. MqFails
  BY DEF MqNodesOK
<1>2. (IF mqConn = "up" THEN mqLeft.fails - 1 ELSE mqLeft.fails) \in 0 .. MqFails
  BY <1>1, MqAssumption
<1> QED
  BY <1>2 DEF MqNodesOK

\* The packet fails: the tables are as before the call, but for what others
\* did meanwhile.
LEMMA MqSubFailKeeps == ASSUME MqInv, NEW n \in MqNodes, MqSubFail(n) PROVE MqInv'
<1> DEFINE s == mqSub[n]
<1>1. PICK k \in MqKeys : k = <<s.topic, s.opt>>
  BY DEF MqSubFail, MqInv, MqShape, MqCalls, MqKeys
<1>2. PICK mux \in MqMuxes :
        /\ mux = DetachHandler(mqMux, k, n) /\ MqEntries(mux)
        /\ \A j \in MqKeys \ {k} : mux[j] = mqMux[j]
        /\ mux[k].handlers = mqMux[k].handlers \ {n}
        /\ mux[k].qos \in {-1, mqMux[k].qos}
  BY MqDetach, MqTableEntries DEF MqInv, MqShape
<1>3. /\ s # NoSub /\ (mqConn # "up" \/ mqLeft.fails > 0)
      /\ mqMux' = IF mux[k].qos >= 0 /\ s.had THEN [mux EXCEPT ![k].qos = s.prev] ELSE mux
      /\ mqReg' = [mqReg EXCEPT ![n][s.topic] = NoOpt]
      /\ mqSub' = [mqSub EXCEPT ![n] = NoSub]
      /\ mqLife' = [mqLife EXCEPT ![n] = IF @ = "new" THEN "failed" ELSE @]
      /\ mqLeft' = [mqLeft EXCEPT !.fails = IF mqConn = "up" THEN @ - 1 ELSE @]
      /\ mqRaced' = TRUE
      /\ UNCHANGED <<mqDrop, mqConn, mqWire, mqUnsub, mqTodo, mqActive, mqResub, mqMixed>>
  BY <1>1, <1>2 DEF MqSubFail
<1>4. s \in MqCalls /\ s.topic \in MqTopics /\ s.prev \in MqQoS /\ s.opt \in MqOpts
  BY DEF MqSubFail, MqInv, MqShape, MqCalls
<1>5. /\ mqMux' \in MqMuxes /\ MqEntries(mqMux')
      /\ \A j \in MqKeys \ {k} : mqMux'[j] = mqMux[j]
      /\ mqMux'[k].handlers = mqMux[k].handlers \ {n}
  <2>1. CASE mux[k].qos >= 0 /\ s.had
    <3> DEFINE r == [qos |-> s.prev, handlers |-> mux[k].handlers]
    <3>1. mqMux' = [mux EXCEPT ![k] = r]
      <4>1. mux[k] \in [qos : {-1} \cup MqQoS, handlers : SUBSET MqNodes]
        BY <1>2 DEF MqMuxes
      <4>2. mqMux' = [mux EXCEPT ![k] = [mux[k] EXCEPT !.qos = s.prev]]
        BY <1>3, <2>1
      <4>3. [mux[k] EXCEPT !.qos = s.prev] = r
        BY <4>1
      <4> QED
        BY <4>2, <4>3
    <3>2. r \in [qos : {-1} \cup MqQoS, handlers : SUBSET MqNodes] /\ r.qos >= 0
          /\ r.handlers = mux[k].handlers /\ r.handlers # {}
      BY <1>2, <1>4, <2>1 DEF MqMuxes, MqEntries, MqQoS
    <3> HIDE DEF r
    <3> QED
      BY <3>1, <3>2, <1>2 DEF MqMuxes, MqEntries
  <2>2. CASE ~(mux[k].qos >= 0 /\ s.had)
    BY <1>2, <1>3, <2>2
  <2> QED
    BY <2>1, <2>2
<1>6. MqShape'
  BY <1>3, <1>4, <1>5 DEF MqInv, MqShape
<1>7. MqNodesOK'
  <2>1. mqLeft' \in [fails : 0 .. MqFails, drops : 0 .. MqDrops, ctl : 0 .. MqCtl]
    BY <1>3, MqFailLeft DEF MqInv, MqSubFail
  <2> QED
    BY <1>3, <2>1 DEF MqInv, MqNodesOK
<1>8. MqTablesAgree'
  <2>1. \A m \in MqNodes, t \in MqTopics :
          mqReg'[m][t] = IF m = n /\ t = s.topic THEN NoOpt ELSE mqReg[m][t]
    BY <1>3, <1>4 DEF MqInv, MqShape
  <2>2. k[1] = s.topic /\ k[2] = s.opt /\ \A j \in MqKeys : j[1] \in MqTopics /\ j[2] \in MqOpts
    BY <1>1 DEF MqKeys
  <2>3. \A j \in MqKeys : (j[1] = s.topic /\ j # k) => n \notin mqMux[j].handlers
    <3>1. mqReg[n][s.topic] \in {s.opt, NoOpt}
      BY <1>3 DEF MqInv, MqPending
    <3>2. \A j \in MqKeys : (j[1] = s.topic /\ j # k) => j[2] # s.opt /\ j[2] # NoOpt
      BY <1>1, <1>4, MqAssumption DEF MqKeys
    <3> QED
      BY <3>1, <3>2 DEF MqInv, MqTablesAgree
  <2>4. \A j \in MqKeys : j[1] = s.topic => mqMux'[j].handlers = mqMux[j].handlers \ {n}
    BY <1>5, <2>3
  <2>5. \A j \in MqKeys : j[1] # s.topic => mqMux'[j] = mqMux[j]
    BY <1>5, <2>2
  <2>6. \A j \in MqKeys : mqMux'[j].handlers = {} <=> mqMux'[j].qos = -1
    BY <1>5 DEF MqEntries
  <2> HIDE DEF s
  <2> QED
    BY <1>4, <2>1, <2>4, <2>5, <2>6, MqUnregister DEF MqInv
<1>9. MqPending'
  <2>1. \A m \in MqNodes : mqSub'[m] = IF m = n THEN NoSub ELSE mqSub[m]
    BY <1>3 DEF MqInv, MqShape
  <2>2. \A m \in MqNodes : m # n => mqReg'[m] = mqReg[m]
    BY <1>3 DEF MqInv, MqShape
  <2> QED
    BY <2>1, <2>2 DEF MqInv, MqPending
<1>10. MqSettled'
  BY <1>3 DEF MqSettled, MqCalm
<1> QED
  BY <1>6, <1>7, <1>8, <1>9, <1>10 DEF MqInv

-----------------------------------------------------------------------------
\* Unsubscribe removes a handler, and the topic with the last one.
LEMMA MqUnsubscribeKeeps ==
  ASSUME MqInv, NEW n \in MqNodes, NEW t \in MqTopics, NEW who \in {"loop", "stop"},
         MqUnsubscribe(n, t, who), UNCHANGED <<mqConn, mqWire, mqSub, mqResub, mqMixed>>, MqNodesOK'
  PROVE  MqInv'
<1> DEFINE o == mqReg[n][t]
<1>1. CASE o = NoOpt
  <2>1. UNCHANGED mqTables
    BY <1>1 DEF MqUnsubscribe, mqTables
  <2> QED
    BY <2>1, MqTablesStable
<1>2. CASE o # NoOpt
  <2>0. o \in MqOpts
    BY <1>2 DEF MqInv, MqShape
  <2>1. PICK k \in MqKeys : k = <<t, o>>
    BY <2>0 DEF MqKeys
  <2>2. PICK mux \in MqMuxes :
          /\ mux = DetachHandler(mqMux, k, n) /\ MqEntries(mux)
          /\ \A j \in MqKeys \ {k} : mux[j] = mqMux[j]
          /\ mux[k].handlers = mqMux[k].handlers \ {n}
          /\ mux[k].qos \in {-1, mqMux[k].qos}
    BY MqDetach, MqTableEntries DEF MqInv, MqShape
  <2>3. /\ mqMux' = mux
        /\ mqReg' = [mqReg EXCEPT ![n][t] = NoOpt]
        /\ IF mux[k].qos = -1 /\ mqConn \in {"connecting", "up", "down"}
           THEN /\ mqUnsub' = mqUnsub \cup {<<n, who, t>>}
                /\ mqRaced' = (mqRaced \/ MqBusy)
           ELSE UNCHANGED <<mqUnsub, mqRaced>>
    BY <1>2, <2>1, <2>2 DEF MqUnsubscribe
  <2>4. MqShape'
    <3>1. <<n, who, t>> \in MqNodes \X {"loop", "stop"} \X MqTopics
      OBVIOUS
    <3>2. mqUnsub' \subseteq MqNodes \X {"loop", "stop"} \X MqTopics
      BY <2>3, <3>1 DEF MqInv, MqShape
    <3>3. mqRaced' \in BOOLEAN
      BY <2>3, Zenon DEF MqInv, MqShape
    <3>4. mqReg' \in [MqNodes -> [MqTopics -> MqOpts \cup {NoOpt}]]
      BY <2>3 DEF MqInv, MqShape
    <3> QED
      BY <2>3, <3>2, <3>3, <3>4 DEF MqInv, MqShape
  <2>5. MqTablesAgree'
    <3>1. k[1] = t /\ k[2] = o /\ \A j \in MqKeys : (j[1] = t /\ j # k) => j[2] # o
      BY <2>1 DEF MqKeys
    <3>2. \A j \in MqKeys : (j[1] = t /\ j # k) => n \notin mqMux[j].handlers
      BY <3>1 DEF MqInv, MqTablesAgree
    <3>3. \A j \in MqKeys : j[1] = t => mqMux'[j].handlers = mqMux[j].handlers \ {n}
      BY <2>2, <2>3, <3>2
    <3>4. \A j \in MqKeys : j[1] # t => mqMux'[j] = mqMux[j]
      BY <2>2, <2>3, <3>1
    <3>5. \A m \in MqNodes, s \in MqTopics :
            mqReg'[m][s] = IF m = n /\ s = t THEN NoOpt ELSE mqReg[m][s]
      BY <2>3 DEF MqInv, MqShape
    <3>6. \A j \in MqKeys : mqMux'[j].handlers = {} <=> mqMux'[j].qos = -1
      BY <2>2, <2>3 DEF MqEntries
    <3> QED
      BY <3>3, <3>4, <3>5, <3>6, MqUnregister DEF MqInv
  <2>6. MqPending'
    <3>1. \A m \in MqNodes, s \in MqTopics : mqReg'[m][s] \in {NoOpt, mqReg[m][s]}
      BY <2>3 DEF MqInv, MqShape
    <3>2. \A m \in MqNodes : mqSub[m] # NoSub => mqSub[m].topic \in MqTopics
      BY DEF MqInv, MqShape, MqCalls
    <3> QED
      BY <3>1, <3>2 DEF MqInv, MqPending
  <2>7. ASSUME MqCalm' PROVE MqSettled'
    <3>0. k[1] = t /\ k[2] = o /\ \A p \in MqOpts : <<t, p>> \in MqKeys
      BY <2>1 DEF MqKeys
    <3>2. CASE mux[k].qos = -1
      <4>1. ~mqRaced /\ ~MqBusy /\ MqCalm /\ mqUnsub' = mqUnsub \cup {<<n, who, t>>}
        BY <2>3, <2>7, <3>2 DEF MqCalm
      <4>2. mqUnsub = {} /\ mqResub.step = "idle" /\ \A m \in MqNodes : mqSub[m] = NoSub
        BY <4>1 DEF MqBusy, MqInv, MqShape
      <4>3. ASSUME NEW j \in MqKeys, mqMux'[j].qos >= 0, j[1] \notin mqMixed
            PROVE  mqWire'[j[1]] >= mqMux'[j].qos /\ MqSole(mqMux', j)
        <5>1. j # k /\ mqMux'[j] = mqMux[j]
          BY <2>2, <2>3, <3>2, <4>3
        <5>2. MqSettles(j) /\ MqSole(mqMux, j)
          BY <4>1, <4>3, <5>1 DEF MqInv, MqSettled, MqAlone
        <5>3. \A p \in MqOpts : <<j[1], p>> \in MqKeys
          BY DEF MqKeys
        <5>4. MqSole(mqMux', j)
          BY <2>2, <2>3, <3>2, <5>2, <5>3 DEF MqSole
        <5> QED BY <4>2, <5>1, <5>2, <5>4 DEF MqSettles
      <4>4. ASSUME t \notin mqMixed, NEW p \in MqOpts PROVE mqMux'[<<t, p>>].qos = -1
        <5>1. n \in mqMux[k].handlers
          BY <3>0, <1>2 DEF MqInv, MqTablesAgree
        <5>2. mqMux[k].qos >= 0
          <6>1. mqMux[k].qos # -1
            BY <5>1 DEF MqInv, MqTablesAgree
          <6>2. mqMux[k].qos \in {-1} \cup MqQoS
            BY DEF MqInv, MqShape, MqMuxes
          <6> QED BY <6>1, <6>2 DEF MqQoS
        <5>3. MqSole(mqMux, k)
          BY <3>0, <4>1, <4>4, <5>2 DEF MqInv, MqSettled, MqAlone
        <5>4. CASE p = o
          BY <2>1, <2>3, <3>2, <5>4
        <5>5. CASE p # o
          <6>1. <<t, p>> # k /\ <<t, p>> \in MqKeys /\ mqMux[<<t, p>>].qos = -1
            BY <3>0, <5>3, <5>5 DEF MqSole
          <6> QED BY <2>2, <2>3, <6>1
        <5> QED BY <5>4, <5>5
      <4>5. MqLeaving'
        <5>1. \A u \in mqUnsub' : u[3] = t
          BY <4>1, <4>2
        <5> QED BY <4>4, <5>1 DEF MqLeaving
      <4> QED
        BY <4>2, <4>3, <4>5 DEF MqSettled, MqSettles, MqAlone, MqRestoring, MqAsking
    <3>3. CASE mux[k].qos # -1
      <4>1. UNCHANGED <<mqUnsub, mqRaced>> /\ MqCalm
        BY <2>3, <2>7, <3>3 DEF MqCalm
      <4>2. \A j \in MqKeys : mqMux'[j].qos = mqMux[j].qos
        BY <2>2, <2>3, <3>3
      <4> QED
        BY <4>1, <4>2, MqShrinks
    <3> QED
      BY <3>2, <3>3
  <2> QED
    BY <2>4, <2>5, <2>6, <2>7 DEF MqInv, MqSettled
<1> QED
  BY <1>1, <1>2

\* The broker answers an UNSUBSCRIBE.
LEMMA MqUnsubDoneKeeps == ASSUME MqInv, NEW u \in mqUnsub, MqUnsubDone(u) PROVE MqInv'
<1>0. /\ mqUnsub' = mqUnsub \ {u}
      /\ UNCHANGED <<mqDrop, mqConn, mqMux, mqReg, mqSub, mqTodo, mqActive, mqLife, mqResub, mqRaced, mqMixed>>
  BY DEF MqUnsubDone
<1>1. u[3] \in MqTopics
  BY DEF MqInv, MqShape
<1>2. MqTablesAgree' /\ MqPending'
  BY <1>0 DEF MqInv, MqTablesAgree, MqPending
<1>3. MqCalm => mqResub.step # "sending" /\ \A m \in MqNodes : mqSub[m] = NoSub
  BY DEF MqInv, MqSettled, MqRestoring, MqAsking
<1>4. MqCalm => \A k \in MqKeys : mqMux[k].qos >= 0 /\ k[1] \notin mqMixed => mqWire[k[1]] >= mqMux[k].qos
  BY <1>3 DEF MqInv, MqSettled, MqSettles
<1>5. CASE mqConn = "up" /\ UNCHANGED mqLeft /\ mqWire' = [mqWire EXCEPT ![u[3]] = -1]
  <2>2. MqShape' /\ MqNodesOK'
    BY <1>0, <1>1, <1>5 DEF MqInv, MqShape, MqNodesOK
  <2>3. ASSUME MqCalm' PROVE MqSettled'
    <3>1. MqCalm
      BY <1>0, <2>3 DEF MqCalm
    <3>2. ASSUME NEW k \in MqKeys, mqMux[k].qos >= 0, k[1] \notin mqMixed PROVE mqWire'[k[1]] >= mqMux[k].qos
      <4>1. k = <<k[1], k[2]>> /\ k[1] \in MqTopics /\ k[2] \in MqOpts
        BY DEF MqKeys
      <4>2. k[1] # u[3]
        BY <3>1, <3>2, <4>1 DEF MqInv, MqSettled, MqLeaving
      <4>3. mqWire'[k[1]] = mqWire[k[1]]
        BY <1>5, <4>1, <4>2 DEF MqInv, MqShape
      <4> QED
        BY <1>4, <3>1, <3>2, <4>3
    <3>3. MqAlone' /\ MqLeaving'
      BY <1>0, <3>1 DEF MqInv, MqSettled, MqAlone, MqLeaving
    <3> QED
      BY <1>0, <1>3, <3>1, <3>2, <3>3 DEF MqSettled, MqSettles, MqRestoring, MqAsking
  <2> QED
    BY <1>2, <2>2, <2>3 DEF MqInv, MqSettled
<1>6. CASE /\ mqConn # "up" \/ mqLeft.fails > 0
           /\ mqLeft' = [mqLeft EXCEPT !.fails = IF mqConn = "up" THEN @ - 1 ELSE @]
           /\ UNCHANGED mqWire
  <2>1. MqShape'
    BY <1>0, <1>6 DEF MqInv, MqShape
  <2>2. MqNodesOK'
    <3>1. mqLeft' \in [fails : 0 .. MqFails, drops : 0 .. MqDrops, ctl : 0 .. MqCtl]
      BY <1>6, MqFailLeft DEF MqInv
    <3> QED
      BY <1>0, <3>1 DEF MqInv, MqNodesOK
  <2>3. ASSUME MqCalm' PROVE MqSettled'
    <3>1. MqCalm
      BY <1>0, <2>3 DEF MqCalm
    <3>2. MqAlone' /\ MqLeaving'
      BY <1>0, <3>1 DEF MqInv, MqSettled, MqAlone, MqLeaving
    <3> QED
      BY <1>0, <1>3, <1>4, <1>6, <3>1, <3>2 DEF MqSettled, MqSettles, MqRestoring, MqAsking
  <2> QED
    BY <1>2, <2>1, <2>2, <2>3 DEF MqInv, MqSettled
<1> QED
  BY <1>5, <1>6 DEF MqUnsubDone

-----------------------------------------------------------------------------
\* A node starts and subscribes what it is configured for.
LEMMA MqNodeStartKeeps == ASSUME MqInv, NEW n \in MqNodes, MqNodeStart(n) PROVE MqInv'
<1>1. CASE n \in MqStatic
  <2>1. PICK t \in MqTopics, o \in MqOpts, q \in MqQoS :
          /\ MqSubscribe(n, t, o, q)
          /\ IF mqSub'[n] = NoSub
             THEN /\ mqLife' = [mqLife EXCEPT ![n] = "running"]
                  /\ mqActive' = [mqActive EXCEPT ![n] = {t}]
             ELSE UNCHANGED <<mqLife, mqActive>>
    BY <1>1 DEF MqNodeStart
  <2>2. mqSub[n] = NoSub /\ UNCHANGED <<mqDrop, mqConn, mqWire, mqUnsub, mqTodo, mqResub, mqLeft>>
    BY DEF MqNodeStart
  <2>3. MqNodesOK'
    <3>1. CASE mqSub'[n] = NoSub
      <4>1. /\ mqLife' = [mqLife EXCEPT ![n] = "running"]
            /\ mqActive' = [mqActive EXCEPT ![n] = {t}]
        BY <2>1, <3>1
      <4> QED
        BY <2>2, <4>1 DEF MqInv, MqNodesOK
    <3>2. CASE mqSub'[n] # NoSub
      <4>1. UNCHANGED <<mqLife, mqActive>>
        BY <2>1, <3>2
      <4> QED
        BY <2>2, <4>1 DEF MqInv, MqNodesOK
    <3> QED
      BY <3>1, <3>2
  <2> QED
    BY <2>1, <2>2, <2>3, MqSubscribeKeeps
<1>2. CASE n \notin MqStatic
  <2>1. UNCHANGED mqTables /\ mqLife' = [mqLife EXCEPT ![n] = "running"]
        /\ UNCHANGED <<mqDrop, mqTodo, mqActive, mqLeft>>
    BY <1>2 DEF MqNodeStart, mqTables
  <2>2. MqNodesOK'
    BY <2>1 DEF MqInv, MqNodesOK
  <2> QED
    BY <2>1, <2>2, MqTablesStable
<1> QED
  BY <1>1, <1>2

\* A control message arrives.
LEMMA MqControlKeeps == ASSUME MqInv, NEW n \in MqNodes, MqControl(n) PROVE MqInv'
<1>1. PICK next \in SUBSET MqTopics, o \in MqOpts, q \in MqQoS :
        /\ mqTodo' = [mqTodo EXCEPT ![n] = [drop |-> mqActive[n], add |-> next, opt |-> o, qos |-> q]]
        /\ mqActive' = [mqActive EXCEPT ![n] = next]
  BY DEF MqControl
<1>2. UNCHANGED mqTables /\ UNCHANGED <<mqDrop, mqLife>> /\ mqLeft.ctl > 0
      /\ mqLeft' = [mqLeft EXCEPT !.ctl = @ - 1]
  BY DEF MqControl, mqTables
<1>3. mqLeft.ctl - 1 \in 0 .. MqCtl
  BY <1>2, MqAssumption DEF MqInv, MqNodesOK
<1>4. MqNodesOK'
  BY <1>1, <1>2, <1>3 DEF MqInv, MqNodesOK
<1> QED
  BY <1>2, <1>4, MqTablesStable

\* The message loop of a node works a control message off.
LEMMA MqLoopStepKeeps == ASSUME MqInv, NEW n \in MqNodes, MqLoopStep(n) PROVE MqInv'
<1> DEFINE todo == mqTodo[n]
<1>0. /\ todo # NoTodo /\ mqSub[n] = NoSub
      /\ UNCHANGED <<mqDrop, mqConn, mqWire, mqActive, mqLife, mqResub, mqLeft>>
  BY DEF MqLoopStep
<1>1. todo.drop \subseteq MqTopics /\ todo.add \subseteq MqTopics /\ todo.opt \in MqOpts /\ todo.qos \in MqQoS
  BY <1>0 DEF MqInv, MqNodesOK
<1>2. ASSUME NEW t \in todo.drop, MqUnsubscribe(n, t, "loop"),
             mqTodo' = [mqTodo EXCEPT ![n].drop = @ \ {t}], UNCHANGED <<mqSub, mqMixed>>
      PROVE  MqInv'
  <2>1. MqNodesOK'
    BY <1>0, <1>1, <1>2 DEF MqInv, MqNodesOK
  <2>2. t \in MqTopics /\ "loop" \in {"loop", "stop"}
    BY <1>1
  <2> QED
    BY <1>0, <1>2, <2>1, <2>2, MqUnsubscribeKeeps
<1>3. ASSUME NEW t \in todo.add, MqSubscribe(n, t, todo.opt, todo.qos),
             mqTodo' = [mqTodo EXCEPT ![n].add = @ \ {t}], UNCHANGED mqUnsub
      PROVE  MqInv'
  <2>1. MqNodesOK'
    BY <1>0, <1>1, <1>3 DEF MqInv, MqNodesOK
  <2>2. t \in MqTopics
    BY <1>1
  <2> HIDE DEF todo
  <2> QED
    BY <1>0, <1>1, <1>3, <2>1, <2>2, MqSubscribeKeeps
<1>4. CASE /\ mqTodo' = [mqTodo EXCEPT ![n] = NoTodo]
           /\ UNCHANGED <<mqMux, mqReg, mqSub, mqUnsub, mqRaced, mqMixed>>
  <2>1. NoTodo \in [drop : SUBSET MqTopics, add : SUBSET MqTopics,
                    opt : MqOpts \cup {NoOpt}, qos : MqQoS]
    BY DEF NoTodo, MqQoS
  <2>2. \A m \in MqNodes : mqTodo'[m] = IF m = n THEN NoTodo ELSE mqTodo[m]
    BY <1>4 DEF MqInv, MqNodesOK
  <2>3. MqNodesOK'
    BY <1>0, <1>4, <2>1, <2>2 DEF MqInv, MqNodesOK
  <2> QED
    BY <1>0, <1>4, <2>3, MqTablesStable DEF mqTables
<1> QED
  BY <1>2, <1>3, <1>4 DEF MqLoopStep

\* A node stops and gives its subscriptions up one by one.
LEMMA MqNodeStopKeeps ==
  ASSUME MqInv, NEW n \in MqNodes, MqNodeStop(n) \/ MqStopStep(n) PROVE MqInv'
<1>1. CASE MqNodeStop(n)
  <2>1. UNCHANGED mqTables /\ MqNodesOK'
    BY <1>1 DEF MqNodeStop, mqTables, MqInv, MqNodesOK
  <2> QED
    BY <2>1, MqTablesStable
<1>2. CASE MqStopStep(n)
  <2>0. UNCHANGED <<mqConn, mqWire, mqSub, mqTodo, mqActive, mqResub, mqMixed, mqLeft>>
    BY <1>2 DEF MqStopStep
  <2>1. ASSUME NEW t \in mqDrop[n], MqUnsubscribe(n, t, "stop"),
               mqDrop' = [mqDrop EXCEPT ![n] = @ \ {t}], UNCHANGED mqLife
        PROVE  MqInv'
    <3>1. MqNodesOK'
      BY <2>0, <2>1 DEF MqInv, MqNodesOK
    <3>2. t \in MqTopics /\ "stop" \in {"loop", "stop"}
      BY DEF MqInv, MqNodesOK
    <3> QED
      BY <2>0, <2>1, <3>1, <3>2, MqUnsubscribeKeeps
  <2>2. CASE /\ mqLife' = [mqLife EXCEPT ![n] = "stopped"]
             /\ UNCHANGED <<mqMux, mqReg, mqUnsub, mqRaced, mqDrop>>
    <3>1. UNCHANGED mqTables /\ MqNodesOK'
      BY <2>0, <2>2 DEF mqTables, MqInv, MqNodesOK
    <3> QED
      BY <3>1, MqTablesStable
  <2> QED
    BY <1>2, <2>1, <2>2 DEF MqStopStep
<1> QED
  BY <1>1, <1>2

\* Every step keeps the invariant of the MQTT connection.
LEMMA MqInductive == MqInv /\ [MqNext]_mqVars => MqInv'
<1> SUFFICES ASSUME MqInv, [MqNext]_mqVars PROVE MqInv'
  OBVIOUS
<1>1. CASE UNCHANGED mqVars
  <2>1. UNCHANGED mqTables /\ MqNodesOK'
    BY <1>1 DEF mqVars, mqTables, MqInv, MqNodesOK
  <2> QED
    BY <2>1, MqTablesStable
<1> QED
  BY <1>1, MqConnectionKeeps, MqSnapshotKeeps, MqResubscribeKeeps, MqNodeStartKeeps, MqControlKeeps,
     MqLoopStepKeeps, MqNodeStopKeeps, MqSubAckKeeps, MqSubFailKeeps, MqUnsubDoneKeeps DEF MqNext

\* The invariant says what MqSound does.
LEMMA MqInvIsSound == MqInv => MqSound
<1> SUFFICES ASSUME MqInv PROVE MqSound
  OBVIOUS
<1>1. MqServed
  <2> SUFFICES ASSUME mqConn = "up", ~MqBusy, ~mqRaced, NEW k \in MqKeys, mqMux[k].qos >= 0, k[1] \notin mqMixed
               PROVE  mqWire[k[1]] >= mqMux[k].qos
    BY DEF MqServed
  <2>1. MqCalm /\ mqResub.step = "idle" /\ \A n \in MqNodes : mqSub[n] = NoSub
    BY DEF MqBusy, MqCalm, MqInv, MqShape
  <2> QED
    BY <2>1 DEF MqInv, MqSettled, MqSettles
<1> QED
  BY <1>1 DEF MqInv, MqSound

(***************************************************************************)
(* The two tables of the shared connection agree; and a reconnect with no  *)
(* other packet on its way restores every subscription, which then stay    *)
(* subscribed as long as no two packets are on their way at once and no    *)
(* SUBSCRIBE fails, but for topics that had two option sets at once        *)
(* (onConnectionUp, Subscribe, Unsubscribe of broker.go): for any nodes,   *)
(* topics, options, control messages, failed packets and reconnects.       *)
(***************************************************************************)
THEOREM SubscriptionsSound == MqSpec => []MqSound
BY MqInvIsSound, MqInitially, MqInductive, PTL DEF MqSpec

-----------------------------------------------------------------------------
(***************************************************************************)
(* S7.                                                                     *)
(***************************************************************************)

\* What a goroutine inside a call holds.
S7Section ==
  \A c \in S7Callers : s7Call[c].step = "wire" => s7Mu = c /\ s7Conn

\* The connection, also while a call is under way.
S7Link ==
  /\ s7Sock => s7Conn
  /\ s7Fill = "green" => s7Conn
  /\ s7Fill = "grey" => ~s7Sock /\ ~s7Conn

\* Only one of the two reading goroutines works without triggerOnInput, and
\* the write node never sends.
S7Roles ==
  /\ s7Call["poll"].step # "idle" => s7Cfg.mode # "dynamic"
  /\ s7Call["loop"].step # "idle" => s7Cfg.mode = "dynamic" \/ s7Cfg.trigger
  /\ s7Cfg.mode = "dynamic" => ~s7Cfg.trigger
  /\ s7Call["write"].step # "send"

\* A payload that is remembered and not yet sent.
S7Sending(c) == c # "write" /\ s7Call[c].step = "send" /\ s7Call[c].got # <<"failed">>

S7Emits ==
  (s7Cfg.onChange /\ ~s7Cfg.trigger) =>
    /\ \A c \in S7Callers : S7Sending(c) =>
         /\ s7Last = BuildPayload(s7Call[c].vars, s7Call[c].got)
         /\ s7Out # <<>> => s7Out[Len(s7Out)] # s7Last
    /\ (~\E c \in S7Callers : S7Sending(c)) => (s7Out # <<>> => s7Out[Len(s7Out)] = s7Last)
    /\ \A i \in 2 .. Len(s7Out) : s7Out[i - 1] # s7Out[i]

S7OutIsSeq == \E S : s7Out \in Seq(S)

\* What a call has still to do fits what it has got.
S7Planned(call) ==
  \/ call.todo = <<call.vars>> /\ call.got = <<>>
  \/ Len(call.vars) = 2 /\ call.todo = <<<<call.vars[1]>>, <<call.vars[2]>>>> /\ call.got = <<>>
  \/ Len(call.vars) = 2 /\ call.todo = <<<<call.vars[2]>>>> /\ Len(call.got) = 1
  \/ call.todo = <<>> /\ Len(call.got) = Len(call.vars)

S7Oks == {"ok", "err"}

\* The variables whose answer is ok.
S7Oked(vars, got) == {vars[j] : j \in {i \in 1 .. Len(got) : got[i] = "ok"}}

\* The rows of a write that is under way, and what it has written.
S7Writing ==
  LET w == s7Call["write"] IN
  w.step # "idle" =>
    /\ Len(w.idx) = Len(w.vars) /\ s7Ack \in Seq([var : S7Vars, ok : {"pending", "no"}])
    /\ \A j \in 1 .. Len(w.idx) : w.idx[j] \in DOMAIN s7Ack /\ s7Ack[w.idx[j]].var = w.vars[j]
    /\ \A j, k \in 1 .. Len(w.idx) : j < k => w.idx[j] < w.idx[k]
    /\ \/ w.step = "got" /\ w.got = <<"failed">>
       \/ /\ S7Planned(w) /\ w.got \in Seq(S7Oks)
          /\ w.step = "got" => w.todo = <<>>
          /\ s7Applied = S7Oked(w.vars, w.got)

S7Conned == S7Section /\ S7Link
S7Emitting == S7Roles /\ S7Emits /\ S7OutIsSeq
S7Acks == S7Writing /\ S7AckTruthful
S7Inv == S7TypeOK /\ S7Conned /\ S7Emitting /\ S7Acks

-----------------------------------------------------------------------------
\* What has no part in it leaves a piece of the invariant alone.
LEMMA S7ConnedSame ==
  ASSUME S7Conned, UNCHANGED <<s7Conn, s7Sock, s7Fill, s7Mu>>,
         \A c \in S7Callers : s7Call'[c].step = s7Call[c].step \/ s7Call'[c].step # "wire"
  PROVE  S7Conned'
BY DEF S7Conned, S7Section, S7Link

\* A step that touches no payload on its way keeps what was emitted.
LEMMA S7EmittingSame ==
  ASSUME S7Emitting, UNCHANGED <<s7Cfg, s7Last, s7Out>>, S7Roles',
         \A c \in S7Callers \ {"write"} :
           s7Call'[c] = s7Call[c] \/ (~S7Sending(c) /\ ~S7Sending(c)')
  PROVE  S7Emitting'
<1>1. \A c \in S7Callers : S7Sending(c)' <=> S7Sending(c)
  BY DEF S7Sending
<1>2. \A c \in S7Callers : S7Sending(c) => s7Call'[c] = s7Call[c]
  BY DEF S7Sending
<1>3. \A v, g : BuildPayload(v, g)' = BuildPayload(v, g)
  BY DEF BuildPayload
<1>4. S7OutIsSeq'
  BY DEF S7Emitting, S7OutIsSeq
<1>5. S7Emits'
  BY <1>1, <1>2, <1>3 DEF S7Emitting, S7Emits, BuildPayload
<1> QED
  BY <1>4, <1>5 DEF S7Emitting

\* A step that has no part in the write keeps its rows.
LEMMA S7AcksSame ==
  ASSUME S7Acks, UNCHANGED <<s7Applied, s7Ack>>, s7Call'["write"] = s7Call["write"]
  PROVE  S7Acks'
BY DEF S7Acks, S7Writing, S7AckTruthful, S7Planned

\* No call is under way.
LEMMA S7Initially == S7Init => S7Inv
<1> SUFFICES ASSUME S7Init PROVE S7Inv
  OBVIOUS
<1>0. S7NoCall \in S7Calls /\ S7NoCall.step = "idle"
  BY DEF S7NoCall, S7Calls
<1>1. S7TypeOK
  BY <1>0 DEF S7Init, S7TypeOK
<1>2. s7Cfg \in S7Props /\ S7ReadInit(s7Cfg)
  BY DEF S7Init, S7Configs
<1>3. s7Cfg \in [mode : {"static", "dynamic", "block"}, vars : Seq(S7Vars), trigger : BOOLEAN,
                 shape : {"single", "array", "object", "block"}, onChange : BOOLEAN]
  BY <1>2, S7Assumption
<1>4. S7Conned
  BY <1>0 DEF S7Init, S7Conned, S7Section, S7Link
<1>5. S7Roles
  BY <1>0, <1>2, <1>3 DEF S7Init, S7Roles, S7ReadInit, S7Callers
<1>6. S7OutIsSeq
  <2>1. s7Out \in Seq({})
    BY DEF S7Init
  <2> QED
    BY <2>1 DEF S7OutIsSeq
<1>7. S7Emits
  BY <1>0 DEF S7Init, S7Emits, S7Sending
<1>8. S7Acks
  BY <1>0 DEF S7Init, S7Acks, S7Writing, S7AckTruthful, S7Callers
<1> QED
  BY <1>1, <1>4, <1>5, <1>6, <1>7, <1>8 DEF S7Inv, S7Emitting

\* The roles are kept by a step that begins no call and lets no write send.
LEMMA S7RolesSame ==
  ASSUME S7Roles, UNCHANGED s7Cfg,
         \A c \in S7Callers : s7Call'[c].step # "idle" => s7Call[c].step # "idle",
         s7Call'["write"].step # "send"
  PROVE  S7Roles'
BY DEF S7Roles, S7Callers

\* The connection and its environment.
LEMMA S7OutsideKeeps ==
  ASSUME S7Inv,
         \/ S7Start \/ S7PlcStop \/ S7SocketClosed \/ S7WindowOpens \/ S7NodeStop \/ S7NodeStopped
         \/ \E v \in S7Vars : S7MemChange(v)
  PROVE  S7Inv'
<1>0. UNCHANGED <<s7Cfg, s7Call, s7Last, s7Out, s7Applied, s7Ack, s7Mu>>
  BY DEF S7Start, S7PlcStop, S7SocketClosed, S7WindowOpens, S7NodeStop, S7NodeStopped, S7MemChange
<1>1. S7TypeOK'
  <2>1. CASE S7Start
    BY <2>1 DEF S7Inv, S7TypeOK, S7Start, ConnectLocked
  <2>3. CASE S7PlcStop
    BY <2>3 DEF S7Inv, S7TypeOK, S7PlcStop
  <2>4. CASE S7SocketClosed \/ S7WindowOpens
    BY <2>4 DEF S7Inv, S7TypeOK, S7SocketClosed, S7WindowOpens
  <2>5. CASE S7NodeStop \/ S7NodeStopped
    BY <2>5 DEF S7Inv, S7TypeOK, S7NodeStop, S7NodeStopped
  <2>2. ASSUME NEW v \in S7Vars, S7MemChange(v) PROVE S7TypeOK'
    BY <2>2 DEF S7Inv, S7TypeOK, S7MemChange
  <2> QED
    BY <2>1, <2>2, <2>3, <2>4, <2>5
<1>2. S7Conned'
  <2>1. CASE S7Start
    BY <2>1, <1>0 DEF S7Inv, S7TypeOK, S7Conned, S7Section, S7Link, S7Start, ConnectLocked
  <2>2. CASE S7PlcStop
    BY <2>2, <1>0 DEF S7Inv, S7TypeOK, S7Conned, S7Section, S7Link, S7PlcStop, S7Callers, S7Nobody
  <2>3. CASE S7SocketClosed
    BY <2>3, <1>0 DEF S7Inv, S7TypeOK, S7Conned, S7Section, S7Link, S7SocketClosed
  <2>4. CASE S7WindowOpens \/ S7NodeStop \/ S7NodeStopped \/ \E v \in S7Vars : S7MemChange(v)
    BY <2>4, <1>0 DEF S7Inv, S7Conned, S7Section, S7Link, S7WindowOpens, S7NodeStop, S7NodeStopped, S7MemChange
  <2> QED
    BY <2>1, <2>2, <2>3, <2>4
<1>3. S7Emitting'
  <2>1. S7Roles'
    BY <1>0 DEF S7Inv, S7Emitting, S7Roles
  <2> QED
    BY <1>0, <2>1, S7EmittingSame DEF S7Inv
<1>4. S7Acks'
  BY <1>0, S7AcksSame DEF S7Inv
<1> QED
  BY <1>1, <1>2, <1>3, <1>4 DEF S7Inv

-----------------------------------------------------------------------------
\* The chunks of a list are the list.
LEMMA S7Chunked ==
  ASSUME NEW vars \in Seq(S7Vars), NEW chunks \in Chunkings(vars)
  PROVE  /\ chunks \in Seq(Seq(S7Vars))
         /\ \/ chunks = <<vars>>
            \/ Len(vars) = 2 /\ chunks = <<<<vars[1]>>, <<vars[2]>>>>
<1>1. \/ chunks = <<vars>>
      \/ Len(vars) = 2 /\ chunks = <<<<vars[1]>>, <<vars[2]>>>>
  BY DEF Chunkings
<1>2. CASE chunks = <<vars>>
  BY <1>2
<1>3. CASE Len(vars) = 2 /\ chunks = <<<<vars[1]>>, <<vars[2]>>>>
  <2>1. <<vars[1]>> \in Seq(S7Vars) /\ <<vars[2]>> \in Seq(S7Vars)
    BY <1>3
  <2> QED
    BY <1>3, <2>1
<1> QED
  BY <1>1, <1>2, <1>3

\* A call as a record.
LEMMA S7CallOf ==
  ASSUME NEW step \in {"idle", "want", "wire", "got", "send"}, NEW todo \in Seq(Seq(S7Vars)),
         NEW vars \in Seq(S7Vars), NEW got \in Seq({"0", "1", "ok", "err", "failed"}), NEW idx \in Seq(Nat)
  PROVE  \E call \in S7Calls :
           /\ call = [step |-> step, todo |-> todo, got |-> got, vars |-> vars, idx |-> idx]
           /\ call.step = step /\ call.todo = todo /\ call.got = got /\ call.vars = vars /\ call.idx = idx
<1> DEFINE r == [step |-> step, todo |-> todo, got |-> got, vars |-> vars, idx |-> idx]
<1>1. r \in S7Calls
  BY DEF S7Calls
<1>2. r.step = step /\ r.todo = todo /\ r.got = got /\ r.vars = vars /\ r.idx = idx
  OBVIOUS
<1>3. r = [step |-> step, todo |-> todo, got |-> got, vars |-> vars, idx |-> idx]
  OBVIOUS
<1> HIDE DEF r
<1> QED
  BY <1>1, <1>2, <1>3

\* A read begins.
LEMMA S7ReadBegins ==
  ASSUME S7Inv, NEW c \in {"poll", "loop"}, NEW vars \in Seq(S7Vars), Enter(c, vars, <<>>),
         s7Call[c].step = "idle",
         c = "poll" => s7Cfg.mode # "dynamic",
         c = "loop" => s7Cfg.mode = "dynamic" \/ s7Cfg.trigger,
         UNCHANGED <<s7Cfg, s7Conn, s7Sock, s7Window, s7Fill, s7Plc, s7Mem, s7Mu, s7Last, s7Out,
                     s7Stop, s7Applied, s7Ack>>
  PROVE  S7Inv'
<1>1. PICK chunks \in Chunkings(vars) :
        s7Call' = [s7Call EXCEPT ![c] = [step |-> "want", todo |-> chunks, got |-> <<>>,
                                         vars |-> vars, idx |-> <<>>]]
  BY DEF Enter
<1>2. chunks \in Seq(Seq(S7Vars))
  BY S7Chunked
<1>3. PICK call \in S7Calls : call = [step |-> "want", todo |-> chunks, got |-> <<>>,
                                      vars |-> vars, idx |-> <<>>]
  <2>1. <<>> \in Seq(Nat) /\ <<>> \in Seq({"0", "1", "ok", "err", "failed"})
    OBVIOUS
  <2> DEFINE e == <<>>
  <2>2. e \in Seq(Nat) /\ e \in Seq({"0", "1", "ok", "err", "failed"})
    BY <2>1
  <2>3. "want" \in {"idle", "want", "wire", "got", "send"}
    OBVIOUS
  <2> HIDE DEF e
  <2>4. \E call \in S7Calls : call = [step |-> "want", todo |-> chunks, got |-> e, vars |-> vars, idx |-> e]
    BY <1>2, <2>2, <2>3, S7CallOf
  <2> QED
    BY <2>4 DEF e
<1>4. s7Call' = [s7Call EXCEPT ![c] = call] /\ call.step = "want" /\ c \in S7Callers
  BY <1>1, <1>3 DEF S7Callers
<1>5. S7TypeOK'
  BY <1>4 DEF S7Inv, S7TypeOK
<1>6. \A d \in S7Callers : s7Call'[d] = IF d = c THEN call ELSE s7Call[d]
  BY <1>4 DEF S7Inv, S7TypeOK
<1>7. S7Conned'
  BY <1>4, <1>6, S7ConnedSame DEF S7Inv
<1>8. S7Emitting'
  <2>1. S7Roles'
    BY <1>4, <1>6 DEF S7Inv, S7Emitting, S7Roles, S7Callers
  <2> QED
    BY <1>4, <1>6, <2>1, S7EmittingSame DEF S7Inv, S7Sending
<1>9. S7Acks'
  BY <1>6, S7AcksSame DEF S7Inv, S7Callers
<1> QED
  BY <1>5, <1>7, <1>8, <1>9 DEF S7Inv

\* The poll loop or a message begins a read.
LEMMA S7ReadsKeep == ASSUME S7Inv, S7Tick \/ S7HandleMessage PROVE S7Inv'
<1>1. s7Cfg \in S7Props /\ s7Cfg.vars \in Seq(S7Vars)
  BY S7Assumption DEF S7Inv, S7TypeOK, S7Configs
<1>2. CASE S7Tick
  BY <1>1, <1>2, S7ReadBegins DEF S7Tick
<1>3. CASE S7HandleMessage
  <2>1. PICK vars \in S7Lists \cup {s7Cfg.vars} :
          /\ \/ s7Cfg.mode = "dynamic" /\ vars # <<>>
             \/ s7Cfg.mode = "block" /\ s7Cfg.trigger /\ Len(vars) = 1
          /\ Enter("loop", vars, <<>>)
    BY <1>3 DEF S7HandleMessage
  <2>2. vars \in Seq(S7Vars) /\ (s7Cfg.mode = "dynamic" \/ s7Cfg.trigger)
    BY <1>1, <2>1, S7Assumption
  <2> QED
    BY <1>3, <2>1, <2>2, S7ReadBegins DEF S7HandleMessage
<1> QED
  BY <1>2, <1>3

-----------------------------------------------------------------------------
\* The call of c takes another step.
LEMMA S7StepTo ==
  ASSUME S7TypeOK, NEW c \in S7Callers, NEW st \in {"idle", "want", "wire", "got", "send"},
         s7Call' = [s7Call EXCEPT ![c].step = st]
  PROVE  /\ s7Call' \in [S7Callers -> S7Calls]
         /\ \A d \in S7Callers \ {c} : s7Call'[d] = s7Call[d]
         /\ s7Call'[c].step = st /\ s7Call'[c].todo = s7Call[c].todo /\ s7Call'[c].got = s7Call[c].got
         /\ s7Call'[c].vars = s7Call[c].vars /\ s7Call'[c].idx = s7Call[c].idx
<1>1. s7Call \in [S7Callers -> S7Calls] /\ s7Call[c] \in S7Calls
  BY DEF S7TypeOK
<1>2. [s7Call[c] EXCEPT !.step = st] \in S7Calls
  BY <1>1 DEF S7Calls
<1>3. s7Call' = [s7Call EXCEPT ![c] = [s7Call[c] EXCEPT !.step = st]]
  OBVIOUS
<1>4. s7Call'[c] = [s7Call[c] EXCEPT !.step = st]
  BY <1>1, <1>3
<1> QED
  BY <1>1, <1>2, <1>3, <1>4 DEF S7Calls

\* The call of c has failed.
LEMMA S7FailTo ==
  ASSUME S7TypeOK, NEW c \in S7Callers,
         s7Call' = [s7Call EXCEPT ![c].step = "got", ![c].got = <<"failed">>]
  PROVE  /\ s7Call' \in [S7Callers -> S7Calls]
         /\ \A d \in S7Callers \ {c} : s7Call'[d] = s7Call[d]
         /\ s7Call'[c].step = "got" /\ s7Call'[c].got = <<"failed">>
         /\ s7Call'[c].vars = s7Call[c].vars /\ s7Call'[c].idx = s7Call[c].idx
<1>1. s7Call \in [S7Callers -> S7Calls] /\ s7Call[c] \in S7Calls
  BY DEF S7TypeOK
<1>2. <<"failed">> \in Seq({"0", "1", "ok", "err", "failed"})
  OBVIOUS
<1> DEFINE f == <<"failed">>
<1>3. f \in Seq({"0", "1", "ok", "err", "failed"}) /\ s7Call' = [s7Call EXCEPT ![c].step = "got", ![c].got = f]
  BY <1>2
<1> HIDE DEF f
<1>4. [s7Call[c] EXCEPT !.step = "got", !.got = f] \in S7Calls
  BY <1>1, <1>3 DEF S7Calls
<1>5. s7Call' = [s7Call EXCEPT ![c] = [s7Call[c] EXCEPT !.step = "got", !.got = f]]
  BY <1>3
<1>6. s7Call'[c] = [s7Call[c] EXCEPT !.step = "got", !.got = f]
  BY <1>1, <1>5
<1>7. /\ s7Call' \in [S7Callers -> S7Calls]
      /\ \A d \in S7Callers \ {c} : s7Call'[d] = s7Call[d]
      /\ s7Call'[c].step = "got" /\ s7Call'[c].got = f
      /\ s7Call'[c].vars = s7Call[c].vars /\ s7Call'[c].idx = s7Call[c].idx
  <2> DEFINE r == [s7Call[c] EXCEPT !.step = "got", !.got = f]
  <2>1. r.step = "got" /\ r.got = f /\ r.vars = s7Call[c].vars /\ r.idx = s7Call[c].idx
    BY <1>1 DEF S7Calls
  <2>2. r \in S7Calls /\ s7Call' = [s7Call EXCEPT ![c] = r]
    BY <1>4, <1>5
  <2> HIDE DEF r
  <2> QED
    BY <1>1, <2>1, <2>2
<1> QED
  BY <1>7 DEF f

\* The write is locked, has failed, or has got all its answers.
LEMMA S7AcksStep ==
  ASSUME S7Acks, UNCHANGED <<s7Applied, s7Ack>>, s7Call["write"].step # "idle",
         s7Call'["write"].step # "idle",
         s7Call'["write"].vars = s7Call["write"].vars, s7Call'["write"].idx = s7Call["write"].idx,
         \/ s7Call'["write"].step = "got" /\ s7Call'["write"].got = <<"failed">>
         \/ /\ s7Call'["write"].got = s7Call["write"].got /\ s7Call'["write"].todo = s7Call["write"].todo
            /\ s7Call'["write"].step = "got" => s7Call["write"].todo = <<>>
            /\ s7Call["write"].step # "got"
  PROVE  S7Acks'
<1>1. S7Writing'
  BY DEF S7Acks, S7Writing, S7Planned
<1> QED
  BY <1>1 DEF S7Acks, S7AckTruthful

\* A step of c's call that neither begins, ends nor sends.
LEMMA S7Within ==
  ASSUME S7Inv, NEW c \in S7Callers,
         UNCHANGED <<s7Cfg, s7Last, s7Out>>, s7Call[c].step \in {"want", "wire"},
         \A d \in S7Callers \ {c} : s7Call'[d] = s7Call[d],
         s7Call'[c].step \in {"wire", "got"}
  PROVE  S7Emitting' /\ (c # "write" => s7Call'["write"] = s7Call["write"])
<1>1. S7Roles'
  BY DEF S7Inv, S7Emitting, S7Roles, S7Callers
<1> QED
  BY <1>1, S7EmittingSame DEF S7Inv, S7Sending, S7Callers

\* A call gets the mutex and a connection, or fails.
LEMMA S7LockKeeps == ASSUME S7Inv, NEW c \in S7Callers, S7Lock(c) PROVE S7Inv'
<1>0. s7Call[c].step = "want" /\ s7Mu = S7Nobody
      /\ UNCHANGED <<s7Cfg, s7Plc, s7Mem, s7Last, s7Out, s7Stop, s7Applied, s7Ack>>
  BY DEF S7Lock
<1>1. \A d \in S7Callers : s7Call[d].step # "wire"
  BY <1>0 DEF S7Inv, S7Conned, S7Section, S7Link, S7Callers, S7Nobody
<1>2. CASE /\ s7Call' = [s7Call EXCEPT ![c].step = "wire"] /\ s7Mu' = c
           /\ \/ s7Conn /\ UNCHANGED <<s7Conn, s7Sock, s7Window, s7Fill, s7Left>>
              \/ ConnectLocked
  <2>1. /\ s7Call' \in [S7Callers -> S7Calls]
        /\ \A d \in S7Callers \ {c} : s7Call'[d] = s7Call[d]
        /\ s7Call'[c].step = "wire" /\ s7Call'[c].todo = s7Call[c].todo /\ s7Call'[c].got = s7Call[c].got
        /\ s7Call'[c].vars = s7Call[c].vars /\ s7Call'[c].idx = s7Call[c].idx
    BY <1>2, S7StepTo DEF S7Inv
  <2>2. S7TypeOK'
    BY <1>0, <1>2, <2>1 DEF S7Inv, S7TypeOK, ConnectLocked
  <2>3. S7Conned'
    BY <1>0, <1>1, <1>2, <2>1 DEF S7Inv, S7Conned, S7Section, S7Link, ConnectLocked
  <2>4. S7Emitting' /\ (c # "write" => s7Call'["write"] = s7Call["write"])
    BY <1>0, <2>1, S7Within
  <2>5. S7Acks'
    BY <1>0, <2>1, <2>4, S7AcksSame, S7AcksStep DEF S7Inv
  <2> QED
    BY <2>2, <2>3, <2>4, <2>5 DEF S7Inv
<1>3. CASE /\ s7Call' = [s7Call EXCEPT ![c].step = "got", ![c].got = <<"failed">>] /\ UNCHANGED <<s7Conn, s7Sock, s7Mu>>
           /\ \/ UNCHANGED <<s7Window, s7Fill>>
              \/ s7Window' = "closed" /\ s7Fill' = "red"
  <2>1. /\ s7Call' \in [S7Callers -> S7Calls]
        /\ \A d \in S7Callers \ {c} : s7Call'[d] = s7Call[d]
        /\ s7Call'[c].step = "got" /\ s7Call'[c].got = <<"failed">>
        /\ s7Call'[c].vars = s7Call[c].vars /\ s7Call'[c].idx = s7Call[c].idx
    BY <1>3, S7FailTo DEF S7Inv
  <2>2. S7TypeOK'
    BY <1>0, <1>3, <2>1 DEF S7Inv, S7TypeOK
  <2>3. S7Conned'
    BY <1>0, <1>1, <1>3, <2>1 DEF S7Inv, S7Conned, S7Section, S7Link
  <2>4. S7Emitting' /\ (c # "write" => s7Call'["write"] = s7Call["write"])
    BY <1>0, <2>1, S7Within
  <2>5. S7Acks'
    BY <1>0, <2>1, <2>4, S7AcksSame, S7AcksStep DEF S7Inv
  <2> QED
    BY <2>2, <2>3, <2>4, <2>5 DEF S7Inv
<1> QED
  BY <1>2, <1>3 DEF S7Lock

\* A chunk fails and ends its call.
LEMMA S7ChunkFailsKeeps == ASSUME S7Inv, NEW c \in S7Callers, S7ChunkFails(c) PROVE S7Inv'
<1>0. /\ s7Call[c].step = "wire" /\ s7Mu' = S7Nobody
      /\ \E t \in BOOLEAN : MarkFailed(t)
      /\ s7Call' = [s7Call EXCEPT ![c].step = "got", ![c].got = <<"failed">>]
      /\ UNCHANGED <<s7Cfg, s7Plc, s7Mem, s7Last, s7Out, s7Stop, s7Applied, s7Ack>>
  <2>1. \A err \in S7Errors : isS7TransportError(err) \in BOOLEAN
    BY DEF isS7TransportError
  <2> QED
    BY <2>1 DEF S7ChunkFails
<1>1. /\ s7Call' \in [S7Callers -> S7Calls]
      /\ \A d \in S7Callers \ {c} : s7Call'[d] = s7Call[d]
      /\ s7Call'[c].step = "got" /\ s7Call'[c].got = <<"failed">>
      /\ s7Call'[c].vars = s7Call[c].vars /\ s7Call'[c].idx = s7Call[c].idx
  BY <1>0, S7FailTo DEF S7Inv
<1>2. s7Mu = c /\ \A d \in S7Callers \ {c} : s7Call[d].step # "wire"
  BY <1>0 DEF S7Inv, S7Conned, S7Section
<1>3. PICK t \in BOOLEAN : /\ s7Conn' = (s7Conn /\ ~t) /\ s7Sock' = (s7Sock /\ ~t)
                           /\ s7Fill' = "red" /\ UNCHANGED s7Window
  BY <1>0 DEF MarkFailed
<1>4. s7Conn' \in BOOLEAN /\ s7Sock' \in BOOLEAN /\ (s7Sock' => s7Sock) /\ (s7Sock' => s7Conn')
  BY <1>3, Zenon DEF S7Inv, S7Conned, S7Link
<1>5. S7TypeOK'
  BY <1>0, <1>1, <1>3, <1>4 DEF S7Inv, S7TypeOK
<1>6. S7Conned'
  BY <1>0, <1>1, <1>2, <1>3, <1>4 DEF S7Inv, S7Conned, S7Section, S7Link
<1>7. S7Emitting' /\ (c # "write" => s7Call'["write"] = s7Call["write"])
  BY <1>0, <1>1, S7Within
<1>8. S7Acks'
  BY <1>0, <1>1, <1>7, S7AcksSame, S7AcksStep DEF S7Inv
<1> QED
  BY <1>5, <1>6, <1>7, <1>8 DEF S7Inv

\* A call whose chunks are all answered ends.
LEMMA S7CallOkKeeps == ASSUME S7Inv, NEW c \in S7Callers, S7CallOk(c) PROVE S7Inv'
<1>0. /\ s7Call[c].step = "wire" /\ s7Call[c].todo = <<>> /\ s7Fill' = "green" /\ s7Mu' = S7Nobody
      /\ s7Call' = [s7Call EXCEPT ![c].step = "got"]
      /\ UNCHANGED <<s7Cfg, s7Conn, s7Sock, s7Window, s7Plc, s7Mem, s7Last, s7Out, s7Stop, s7Applied, s7Ack>>
  BY DEF S7CallOk
<1>1. /\ s7Call' \in [S7Callers -> S7Calls]
      /\ \A d \in S7Callers \ {c} : s7Call'[d] = s7Call[d]
      /\ s7Call'[c].step = "got" /\ s7Call'[c].todo = s7Call[c].todo /\ s7Call'[c].got = s7Call[c].got
      /\ s7Call'[c].vars = s7Call[c].vars /\ s7Call'[c].idx = s7Call[c].idx
  BY <1>0, S7StepTo DEF S7Inv
<1>2. s7Conn /\ s7Mu = c /\ \A d \in S7Callers \ {c} : s7Call[d].step # "wire"
  BY <1>0 DEF S7Inv, S7Conned, S7Section
<1>3. S7TypeOK'
  BY <1>0, <1>1 DEF S7Inv, S7TypeOK
<1>4. S7Conned'
  BY <1>0, <1>1, <1>2 DEF S7Inv, S7Conned, S7Section, S7Link
<1>5. S7Emitting' /\ (c # "write" => s7Call'["write"] = s7Call["write"])
  BY <1>0, <1>1, S7Within
<1>6. S7Acks'
  BY <1>0, <1>1, <1>5, S7AcksSame, S7AcksStep DEF S7Inv
<1> QED
  BY <1>3, <1>4, <1>5, <1>6 DEF S7Inv

-----------------------------------------------------------------------------
\* The end of a read: nothing, or a payload that is remembered to be sent.
LEMMA S7CompareKeeps == ASSUME S7Inv, NEW c \in S7Callers, S7Compare(c) PROVE S7Inv'
<1> DEFINE payload == BuildPayload(s7Call[c].vars, s7Call[c].got)
<1>0. /\ c # "write" /\ s7Call[c].step = "got" /\ s7Call["write"].step # "send"
      /\ UNCHANGED <<s7Cfg, s7Conn, s7Sock, s7Window, s7Fill, s7Plc, s7Mem, s7Mu, s7Out, s7Stop, s7Applied, s7Ack>>
  BY DEF S7Compare, S7Inv, S7Emitting, S7Roles
<1>n. S7NoCall \in S7Calls /\ S7NoCall.step = "idle"
  BY DEF S7NoCall, S7Calls
<1>1. CASE s7Call' = [s7Call EXCEPT ![c] = S7NoCall] /\ UNCHANGED s7Last
  <2>1. \A d \in S7Callers : s7Call'[d] = IF d = c THEN S7NoCall ELSE s7Call[d]
    BY <1>1 DEF S7Inv, S7TypeOK
  <2>2. S7TypeOK'
    BY <1>0, <1>n, <1>1 DEF S7Inv, S7TypeOK
  <2>3. S7Conned'
    BY <1>0, <1>n, <2>1, S7ConnedSame DEF S7Inv
  <2>4. S7Roles'
    BY <1>0, <1>n, <2>1, S7RolesSame DEF S7Inv, S7Emitting, S7Callers
  <2>5. S7Emitting'
    BY <1>0, <1>n, <1>1, <2>1, <2>4, S7EmittingSame DEF S7Inv, S7Sending
  <2>6. S7Acks'
    BY <1>0, <2>1, S7AcksSame DEF S7Inv, S7Callers
  <2> QED
    BY <2>2, <2>3, <2>5, <2>6 DEF S7Inv
<1>2. CASE /\ s7Call' = [s7Call EXCEPT ![c].step = "send"]
           /\ \/ s7Call[c].got = <<"failed">> /\ UNCHANGED s7Last
              \/ /\ s7Call[c].got # <<"failed">> /\ ~Suppressed(payload)
                 /\ s7Last' = IF s7Cfg.onChange THEN payload ELSE s7Last
  <2>1. /\ s7Call' \in [S7Callers -> S7Calls]
        /\ \A d \in S7Callers \ {c} : s7Call'[d] = s7Call[d]
        /\ s7Call'[c].step = "send" /\ s7Call'[c].got = s7Call[c].got
        /\ s7Call'[c].vars = s7Call[c].vars
    BY <1>2, S7StepTo DEF S7Inv
  <2>2. S7TypeOK'
    BY <1>0, <2>1 DEF S7Inv, S7TypeOK
  <2>3. S7Conned'
    BY <1>0, <2>1, S7ConnedSame DEF S7Inv, S7Conned, S7Link
  <2>4. S7Roles'
    BY <1>0, <2>1, S7RolesSame DEF S7Inv, S7Emitting, S7Callers
  <2>5. S7Acks'
    BY <1>0, <2>1, S7AcksSame DEF S7Inv, S7Callers
  <2>6. CASE s7Call[c].got = <<"failed">>
    <3>1. S7Emitting'
      BY <1>0, <1>2, <2>1, <2>4, <2>6, S7EmittingSame DEF S7Inv, S7Sending
    <3> QED
      BY <2>2, <2>3, <2>5, <3>1 DEF S7Inv
  <2>7. CASE s7Call[c].got # <<"failed">>
    <3>1. S7OutIsSeq'
      BY <1>0 DEF S7Inv, S7Emitting, S7OutIsSeq
    <3>2. ASSUME s7Cfg.onChange, ~s7Cfg.trigger PROVE S7Emits'
      <4>1. s7Last' = payload /\ payload # s7Last
        BY <1>2, <2>7, <3>2 DEF Suppressed
      <4>2. \A d \in S7Callers \ {"write"} : d # c => s7Call[d].step = "idle"
        BY <1>0, <3>2 DEF S7Inv, S7Emitting, S7Roles, S7Callers
      <4>3. ~\E d \in S7Callers : S7Sending(d)
        BY <1>0, <4>2 DEF S7Sending
      <4>4. s7Out # <<>> => s7Out[Len(s7Out)] = s7Last
        BY <3>2, <4>3 DEF S7Inv, S7Emitting, S7Emits
      <4>5. \A d \in S7Callers : S7Sending(d)' => d = c
        BY <2>1, <4>2 DEF S7Sending
      <4>6. S7Sending(c)'
        BY <1>0, <2>1, <2>7 DEF S7Sending
      <4>7. BuildPayload(s7Call[c].vars, s7Call[c].got)' = payload
        BY <1>0, <2>1 DEF BuildPayload
      <4>8. \A i \in 2 .. Len(s7Out) : s7Out[i - 1] # s7Out[i]
        BY <3>2 DEF S7Inv, S7Emitting, S7Emits
      <4> HIDE DEF payload
      <4> QED
        BY <1>0, <4>1, <4>4, <4>5, <4>6, <4>7, <4>8 DEF S7Emits
    <3>3. S7Emits'
      BY <1>0, <3>2 DEF S7Emits
    <3> QED
      BY <2>2, <2>3, <2>4, <2>5, <3>1, <3>3 DEF S7Inv, S7Emitting
  <2> QED
    BY <2>6, <2>7
<1> QED
  BY <1>1, <1>2 DEF S7Compare

\* A read sends its payload.
LEMMA S7SendKeeps == ASSUME S7Inv, NEW c \in S7Callers, S7Send(c) PROVE S7Inv'
<1> DEFINE payload == BuildPayload(s7Call[c].vars, s7Call[c].got)
<1>0. /\ c # "write" /\ s7Call[c].step = "send" /\ s7Call["write"].step # "send"
      /\ s7Out' = (IF s7Call[c].got = <<"failed">> THEN s7Out ELSE Append(s7Out, payload))
      /\ s7Call' = [s7Call EXCEPT ![c] = S7NoCall]
      /\ UNCHANGED <<s7Cfg, s7Conn, s7Sock, s7Window, s7Fill, s7Plc, s7Mem, s7Mu, s7Last, s7Stop, s7Applied, s7Ack>>
  BY DEF S7Send, S7Inv, S7Emitting, S7Roles
<1>n. S7NoCall \in S7Calls /\ S7NoCall.step = "idle"
  BY DEF S7NoCall, S7Calls
<1>1. \A d \in S7Callers : s7Call'[d] = IF d = c THEN S7NoCall ELSE s7Call[d]
  BY <1>0 DEF S7Inv, S7TypeOK
<1>2. S7TypeOK'
  BY <1>0, <1>n DEF S7Inv, S7TypeOK
<1>3. S7Conned'
  BY <1>0, <1>n, <1>1, S7ConnedSame DEF S7Inv
<1>4. S7Roles'
  BY <1>0, <1>n, <1>1, S7RolesSame DEF S7Inv, S7Emitting, S7Callers
<1>5. S7Acks'
  BY <1>0, <1>1, S7AcksSame DEF S7Inv, S7Callers
<1>6. CASE s7Call[c].got = <<"failed">>
  <2>1. S7Emitting'
    BY <1>0, <1>n, <1>1, <1>4, <1>6, S7EmittingSame DEF S7Inv, S7Sending
  <2> QED
    BY <1>2, <1>3, <1>5, <2>1 DEF S7Inv
<1>7. CASE s7Call[c].got # <<"failed">>
  <2>1. PICK S : s7Out \in Seq(S)
    BY DEF S7Inv, S7Emitting, S7OutIsSeq
  <2>2. PICK p : p = payload
    OBVIOUS
  <2>3. PICK T : T = S \cup {p}
    OBVIOUS
  <2>4. s7Out \in Seq(T) /\ p \in T
    BY <2>1, <2>3, SeqMonotonic
  <2>5. s7Out' = Append(s7Out, p)
    BY <1>0, <1>7, <2>2
  <2>6. /\ s7Out' \in Seq(T) /\ Len(s7Out') = Len(s7Out) + 1 /\ Len(s7Out) \in Nat
        /\ \A i \in 1 .. Len(s7Out) : s7Out'[i] = s7Out[i]
        /\ s7Out'[Len(s7Out) + 1] = p
    BY <2>4, <2>5, AppendProperties, LenProperties
  <2>7. S7OutIsSeq'
    BY <2>6 DEF S7OutIsSeq
  <2>8. ASSUME s7Cfg.onChange, ~s7Cfg.trigger PROVE S7Emits'
    <3>1. s7Last = p /\ (s7Out # <<>> => s7Out[Len(s7Out)] # s7Last)
      BY <1>0, <1>7, <2>2, <2>8 DEF S7Inv, S7Emitting, S7Emits, S7Sending
    <3>2. \A d \in S7Callers : ~S7Sending(d)'
      <4>1. \A d \in S7Callers \ {"write"} : d # c => s7Call[d].step = "idle"
        BY <1>0, <2>8 DEF S7Inv, S7Emitting, S7Roles, S7Callers
      <4> QED
        BY <1>n, <1>1, <4>1 DEF S7Sending
    <3>3. s7Out'[Len(s7Out')] = s7Last'
      BY <1>0, <2>6, <3>1
    <3>4. ASSUME NEW i \in 2 .. Len(s7Out') PROVE s7Out'[i - 1] # s7Out'[i]
      <4>1. CASE i <= Len(s7Out)
        <5>1. i \in 2 .. Len(s7Out) /\ i - 1 \in 1 .. Len(s7Out) /\ i \in 1 .. Len(s7Out)
          BY <2>6, <4>1
        <5>2. s7Out[i - 1] # s7Out[i]
          BY <2>8, <5>1 DEF S7Inv, S7Emitting, S7Emits
        <5> QED
          BY <2>6, <5>1, <5>2
      <4>2. CASE i = Len(s7Out) + 1
        <5>1. i - 1 = Len(s7Out) /\ Len(s7Out) \in 1 .. Len(s7Out) /\ s7Out # <<>>
          BY <2>4, <2>6, <4>2
        <5> QED
          BY <2>6, <3>1, <4>2, <5>1
      <4> QED
        BY <2>6, <4>1, <4>2
    <3> QED
      BY <1>0, <3>2, <3>3, <3>4 DEF S7Emits
  <2>9. S7Emits'
    BY <1>0, <2>8 DEF S7Emits
  <2> QED
    BY <1>2, <1>3, <1>4, <1>5, <2>7, <2>9 DEF S7Inv, S7Emitting
<1> QED
  BY <1>6, <1>7

-----------------------------------------------------------------------------
S7Results == {"0", "1", "ok", "err", "failed"}

\* Concatenation, for any set of elements.
LEMMA S7Concat ==
  ASSUME NEW S, NEW a \in Seq(S), NEW b \in Seq(S)
  PROVE  /\ a \o b \in Seq(S) /\ Len(a \o b) = Len(a) + Len(b)
         /\ \A i \in 1 .. Len(a) : (a \o b)[i] = a[i]
         /\ \A i \in 1 .. Len(b) : (a \o b)[Len(a) + i] = b[i]
         /\ Len(a) \in Nat /\ Len(b) \in Nat
  OBVIOUS

\* The next chunk is the next part of the list.
LEMMA S7PlanStep ==
  ASSUME NEW call \in S7Calls, S7Planned(call), call.todo # <<>>, NEW chunk \in Seq(S7Vars),
         chunk = Head(call.todo), NEW res \in Seq(S7Results), Len(res) = Len(chunk),
         NEW next \in S7Calls, next.vars = call.vars, next.todo = Tail(call.todo),
         next.got = call.got \o res
  PROVE  /\ S7Planned(next)
         /\ \A i \in 1 .. Len(chunk) : Len(call.got) + i \in 1 .. Len(call.vars)
                                       /\ chunk[i] = call.vars[Len(call.got) + i]
<1>0. PICK vars \in Seq(S7Vars) : vars = call.vars
  BY DEF S7Calls
<1>1. PICK got \in Seq(S7Results) : got = call.got
  BY DEF S7Calls, S7Results
<1>2. Len(next.got) = Len(got) + Len(res) /\ Len(got) \in Nat /\ Len(vars) \in Nat /\ Len(res) \in Nat
  <2>1. PICK S : S = S7Results
    OBVIOUS
  <2>2. got \in Seq(S) /\ res \in Seq(S)
    BY <2>1
  <2>3. Len(got \o res) = Len(got) + Len(res) /\ Len(got) \in Nat /\ Len(res) \in Nat
    BY ONLY <2>2, S7Concat
  <2> QED
    BY <1>1, <2>3, LenProperties
<1>3. CASE call.todo = <<vars>> /\ got = <<>>
  <2>1. chunk = vars /\ next.todo = <<>> /\ Len(got) = 0
    BY <1>3
  <2>2. Len(next.got) = Len(vars)
    BY <1>2, <2>1
  <2>3. S7Planned(next)
    BY <1>0, <2>1, <2>2 DEF S7Planned
  <2>4. \A i \in 1 .. Len(chunk) : Len(got) + i = i
    BY <1>2, <2>1
  <2> QED
    BY <1>0, <1>1, <2>1, <2>3, <2>4
<1>4. CASE Len(vars) = 2 /\ call.todo = <<<<vars[1]>>, <<vars[2]>>>> /\ got = <<>>
  <2>1. chunk = <<vars[1]>> /\ next.todo = <<<<vars[2]>>>> /\ Len(got) = 0
    BY <1>4
  <2>2. Len(chunk) = 1 /\ chunk[1] = vars[1]
    BY <2>1
  <2> QED
    BY <1>0, <1>1, <1>2, <1>4, <2>1, <2>2 DEF S7Planned
<1>5. CASE Len(vars) = 2 /\ call.todo = <<<<vars[2]>>>> /\ Len(got) = 1
  <2>1. chunk = <<vars[2]>> /\ next.todo = <<>>
    BY <1>5
  <2>2. Len(chunk) = 1 /\ chunk[1] = vars[2]
    BY <2>1
  <2> QED
    BY <1>0, <1>1, <1>2, <1>5, <2>1, <2>2 DEF S7Planned
<1> QED
  BY <1>0, <1>1, <1>3, <1>4, <1>5 DEF S7Planned

\* The answers to a chunk of which bad is refused, and the place of a chunk.
S7Answers(chunk, bad, res) ==
  /\ res \in Seq(S7Oks) /\ Len(res) = Len(chunk)
  /\ \A i \in 1 .. Len(chunk) : res[i] = "ok" <=> chunk[i] \notin bad

S7Placed(chunk, vars, n) == \A i \in 1 .. Len(chunk) : chunk[i] = vars[n + i]

\* One more chunk is answered: all are the answers so far.
S7Step(vars, got, chunk, bad, res, all) ==
  /\ vars \in Seq(S7Vars) /\ got \in Seq(S7Oks) /\ chunk \in Seq(S7Vars)
  /\ S7Answers(chunk, bad, res) /\ S7Placed(chunk, vars, Len(got)) /\ all = got \o res

\* The variables that were stored are those whose answer is ok.
LEMMA S7AppliedStep ==
  ASSUME NEW vars, NEW got, NEW chunk, NEW bad, NEW res, NEW all, S7Step(vars, got, chunk, bad, res, all)
  PROVE  /\ all \in Seq(S7Oks)
         /\ S7Oked(vars, all) = S7Oked(vars, got) \cup (ToSet(chunk) \ bad)
<1>a. /\ vars \in Seq(S7Vars) /\ got \in Seq(S7Oks) /\ chunk \in Seq(S7Vars)
      /\ S7Answers(chunk, bad, res) /\ S7Placed(chunk, vars, Len(got)) /\ all = got \o res
  BY DEF S7Step
<1>0. /\ res \in Seq(S7Oks) /\ Len(res) = Len(chunk)
      /\ \A i \in 1 .. Len(chunk) : res[i] = "ok" <=> chunk[i] \notin bad
      /\ \A i \in 1 .. Len(chunk) : chunk[i] = vars[Len(got) + i]
  BY <1>a DEF S7Answers, S7Placed
<1>1. /\ all \in Seq(S7Oks) /\ Len(all) = Len(got) + Len(res)
      /\ \A i \in 1 .. Len(got) : all[i] = got[i]
      /\ \A i \in 1 .. Len(res) : all[Len(got) + i] = res[i]
  <2>1. PICK S : S = S7Oks
    OBVIOUS
  <2>2. got \in Seq(S) /\ res \in Seq(S)
    BY <1>a, <1>0, <2>1
  <2>3. /\ all \in Seq(S) /\ Len(all) = Len(got) + Len(res)
        /\ \A i \in 1 .. Len(got) : all[i] = got[i]
        /\ \A i \in 1 .. Len(res) : all[Len(got) + i] = res[i]
    BY ONLY <2>2, S7Concat, <1>a
  <2> QED
    BY <2>1, <2>3
<1>2. Len(got) \in Nat /\ Len(res) \in Nat
  BY <1>a, <1>0, LenProperties
<1>3. ToSet(chunk) = {chunk[i] : i \in 1 .. Len(chunk)}
  <2>1. DOMAIN chunk = 1 .. Len(chunk)
    BY <1>a, LenProperties
  <2> QED
    BY <2>1, Zenon DEF ToSet
<1>4. ASSUME NEW i \in 1 .. Len(all), all[i] = "ok"
      PROVE  vars[i] \in {vars[j] : j \in {k \in 1 .. Len(got) : got[k] = "ok"}} \cup (ToSet(chunk) \ bad)
  <2>1. CASE i \in 1 .. Len(got)
    BY <1>1, <1>4, <2>1
  <2>2. CASE i > Len(got)
    <3>1. PICK k \in 1 .. Len(res) : i = Len(got) + k
      <4>1. i - Len(got) \in 1 .. Len(res) /\ i = Len(got) + (i - Len(got))
        BY <1>1, <1>2, <2>2
      <4> QED
        BY <4>1
    <3>2. res[k] = "ok" /\ vars[i] = chunk[k]
      BY <1>0, <1>1, <1>4, <3>1
    <3> QED
      BY <1>0, <1>3, <3>1, <3>2
  <2> QED
    BY <1>2, <2>1, <2>2
<1>5. ASSUME NEW k \in 1 .. Len(got), got[k] = "ok"
      PROVE  k \in 1 .. Len(all) /\ all[k] = "ok"
  BY <1>1, <1>2, <1>5
<1>6. ASSUME NEW k \in 1 .. Len(chunk), chunk[k] \notin bad
      PROVE  Len(got) + k \in 1 .. Len(all) /\ all[Len(got) + k] = "ok" /\ vars[Len(got) + k] = chunk[k]
  BY <1>0, <1>1, <1>2, <1>6
<1>7. {vars[j] : j \in {i \in 1 .. Len(all) : all[i] = "ok"}}
        = {vars[j] : j \in {i \in 1 .. Len(got) : got[i] = "ok"}} \cup (ToSet(chunk) \ bad)
  <2> DEFINE A == {i \in 1 .. Len(all) : all[i] = "ok"}
             G == {i \in 1 .. Len(got) : got[i] = "ok"}
  <2>1. \A i \in A : vars[i] \in {vars[j] : j \in G} \cup (ToSet(chunk) \ bad)
    BY <1>4
  <2>2. \A i \in G : i \in A
    BY <1>5
  <2>3. ASSUME NEW v \in ToSet(chunk) \ bad PROVE v \in {vars[j] : j \in A}
    <3>1. PICK k \in 1 .. Len(chunk) : v = chunk[k]
      BY <1>3
    <3>2. Len(got) + k \in A /\ vars[Len(got) + k] = v
      BY <1>6, <2>3, <3>1
    <3> HIDE DEF A
    <3> QED
      BY <3>2
  <2>4. {vars[j] : j \in A} = {vars[j] : j \in G} \cup (ToSet(chunk) \ bad)
    <3> HIDE DEF A, G
    <3> QED
      BY <2>1, <2>2, <2>3, Zenon
  <2> QED
    BY <2>4
<1> QED
  BY <1>1, <1>7, Zenon DEF S7Oked

\* A chunk is answered.
LEMMA S7ChunkKeeps == ASSUME S7Inv, NEW c \in S7Callers, S7Chunk(c) PROVE S7Inv'
<1>0. /\ s7Call[c].step = "wire" /\ s7Call[c].todo # <<>>
      /\ UNCHANGED <<s7Cfg, s7Conn, s7Sock, s7Window, s7Fill, s7Plc, s7Mu, s7Last, s7Out, s7Stop, s7Ack>>
  BY DEF S7Chunk
<1>1. PICK call \in S7Calls : call = s7Call[c]
  BY DEF S7Inv, S7TypeOK
<1>2. /\ call.todo \in Seq(Seq(S7Vars)) /\ call.got \in Seq(S7Results) /\ call.vars \in Seq(S7Vars)
      /\ call.idx \in Seq(Nat) /\ call.step = "wire"
  BY <1>0, <1>1 DEF S7Calls, S7Results
<1>3. Head(call.todo) \in Seq(S7Vars) /\ Tail(call.todo) \in Seq(Seq(S7Vars))
  BY <1>0, <1>1, <1>2, HeadTailProperties
<1>4. PICK chunk \in Seq(S7Vars) : chunk = Head(call.todo)
  BY <1>3
<1>5. PICK todo \in Seq(Seq(S7Vars)) : todo = Tail(call.todo)
  BY <1>3
<1> DEFINE Answer(k, b) ==
      /\ s7Call' = [s7Call EXCEPT ![c].todo = Tail(@), ![c].got = @ \o
                      [i \in DOMAIN k |->
                         IF k[i] \in b THEN "err"
                         ELSE IF c = "write" THEN "ok" ELSE s7Mem[k[i]]]]
      /\ IF c = "write"
         THEN /\ s7Mem' = [v \in S7Vars |-> IF v \in ToSet(k) \ b THEN "1" ELSE s7Mem[v]]
              /\ s7Applied' = s7Applied \cup (ToSet(k) \ b)
         ELSE UNCHANGED <<s7Mem, s7Applied>>
<1>a. \E b \in SUBSET ToSet(Head(s7Call[c].todo)) : Answer(Head(s7Call[c].todo), b)
  BY Zenon DEF S7Chunk
<1> HIDE DEF Answer
<1>b. PICK bad \in SUBSET ToSet(chunk) : Answer(chunk, bad)
  BY <1>1, <1>4, <1>a
<1>6. /\ s7Call' = [s7Call EXCEPT ![c].todo = Tail(@), ![c].got = @ \o
                      [i \in DOMAIN chunk |->
                         IF chunk[i] \in bad THEN "err"
                         ELSE IF c = "write" THEN "ok" ELSE s7Mem[chunk[i]]]]
      /\ IF c = "write"
         THEN /\ s7Mem' = [v \in S7Vars |-> IF v \in ToSet(chunk) \ bad THEN "1" ELSE s7Mem[v]]
              /\ s7Applied' = s7Applied \cup (ToSet(chunk) \ bad)
         ELSE UNCHANGED <<s7Mem, s7Applied>>
  BY <1>b DEF Answer
<1> DEFINE val(i) == IF chunk[i] \in bad THEN "err" ELSE IF c = "write" THEN "ok" ELSE s7Mem[chunk[i]]
<1>7. DOMAIN chunk = 1 .. Len(chunk) /\ Len(chunk) \in Nat /\ \A i \in 1 .. Len(chunk) : chunk[i] \in S7Vars
  BY LenProperties, ElementOfSeq
<1>8. \A i \in 1 .. Len(chunk) : val(i) \in S7Results /\ (c = "write" => val(i) \in S7Oks)
  BY <1>7 DEF S7Inv, S7TypeOK, S7Results, S7Oks
<1>9. ToSet(chunk) \subseteq S7Vars
  BY <1>7 DEF ToSet
<1>10. PICK res \in Seq(S7Results) : res = [i \in DOMAIN chunk |-> val(i)]
  <2>1. [i \in 1 .. Len(chunk) |-> val(i)] \in Seq(S7Results)
    BY <1>7, <1>8
  <2> QED
    BY <1>7, <2>1
<1>11. Len(res) = Len(chunk) /\ \A i \in 1 .. Len(chunk) : res[i] = val(i)
  BY <1>7, <1>10
<1>12. c = "write" => res \in Seq(S7Oks)
  <2>1. c = "write" => [i \in 1 .. Len(chunk) |-> val(i)] \in Seq(S7Oks)
    BY <1>7, <1>8
  <2> QED
    BY <1>7, <1>10, <2>1
<1>13. s7Call' = [s7Call EXCEPT ![c] = [call EXCEPT !.todo = todo, !.got = call.got \o res]]
  BY <1>1, <1>5, <1>6, <1>10
<1>14. \A i \in 1 .. Len(chunk) : (c = "write" => (res[i] = "ok" <=> chunk[i] \notin bad))
  BY <1>11
<1> HIDE DEF val
<1>15. call.got \o res \in Seq(S7Results)
  BY <1>2, ConcatProperties
<1>16. PICK got \in Seq(S7Results) : got = call.got \o res
  BY <1>15
<1>17. PICK next \in S7Calls : /\ next = [call EXCEPT !.todo = todo, !.got = got] /\ next.step = "wire"
                               /\ next.todo = todo /\ next.got = got /\ next.vars = call.vars
                               /\ next.idx = call.idx
  <2> DEFINE r == [call EXCEPT !.todo = todo, !.got = got]
  <2>1. r \in S7Calls
    BY DEF S7Calls, S7Results
  <2>2. r.step = "wire" /\ r.todo = todo /\ r.got = got /\ r.vars = call.vars /\ r.idx = call.idx
    BY <1>2 DEF S7Calls
  <2> QED
    BY <2>1, <2>2
<1>18. s7Call' = [s7Call EXCEPT ![c] = next]
  BY <1>13, <1>16, <1>17
<1>19. /\ s7Call' \in [S7Callers -> S7Calls]
       /\ \A d \in S7Callers : s7Call'[d] = IF d = c THEN next ELSE s7Call[d]
  BY <1>18 DEF S7Inv, S7TypeOK
<1>20. S7TypeOK'
  <2>1. s7Mem' \in [S7Vars -> {"0", "1"}] /\ s7Applied' \subseteq S7Vars
    BY <1>6, <1>9 DEF S7Inv, S7TypeOK
  <2> QED
    BY <1>0, <1>19, <2>1 DEF S7Inv, S7TypeOK
<1>21. S7Conned'
  BY <1>0, <1>1, <1>17, <1>19, S7ConnedSame DEF S7Inv
<1>22. S7Emitting' /\ (c # "write" => s7Call'["write"] = s7Call["write"])
  BY <1>0, <1>17, <1>19, S7Within
<1>23. S7Acks'
  <2>1. CASE c # "write"
    BY <1>0, <1>6, <1>22, <2>1, S7AcksSame DEF S7Inv
  <2>2. CASE c = "write"
    <3>1. /\ Len(call.idx) = Len(call.vars) /\ s7Ack \in Seq([var : S7Vars, ok : {"pending", "no"}])
          /\ \A j \in 1 .. Len(call.idx) : call.idx[j] \in DOMAIN s7Ack /\ s7Ack[call.idx[j]].var = call.vars[j]
          /\ \A j, k \in 1 .. Len(call.idx) : j < k => call.idx[j] < call.idx[k]
          /\ S7Planned(call) /\ call.got \in Seq(S7Oks)
          /\ s7Applied = S7Oked(call.vars, call.got)
      BY <1>0, <1>1, <2>2 DEF S7Inv, S7Acks, S7Writing
    <3>2. /\ S7Planned(next)
          /\ \A i \in 1 .. Len(chunk) : chunk[i] = call.vars[Len(call.got) + i]
      <4>1. /\ call.todo # <<>> /\ next.todo = Tail(call.todo) /\ next.got = call.got \o res
            /\ next.vars = call.vars /\ chunk = Head(call.todo) /\ Len(res) = Len(chunk) /\ S7Planned(call)
        BY <1>0, <1>1, <1>4, <1>5, <1>11, <1>16, <1>17, <3>1
      <4> QED
        BY ONLY <4>1, S7PlanStep, call \in S7Calls, next \in S7Calls, chunk \in Seq(S7Vars), res \in Seq(S7Results)
    <3>3. /\ next.got \in Seq(S7Oks)
          /\ S7Oked(call.vars, next.got) = s7Applied \cup (ToSet(chunk) \ bad)
      <4>1. bad \in SUBSET S7Vars /\ res \in Seq(S7Oks)
        BY <1>9, <1>12, <2>2
      <4>2. \A i \in 1 .. Len(chunk) : res[i] = "ok" <=> chunk[i] \notin bad
        BY <1>14, <2>2
      <4>3. next.got = call.got \o res /\ Len(res) = Len(chunk)
        BY <1>11, <1>16, <1>17
      <4>4. /\ next.got \in Seq(S7Oks)
            /\ S7Oked(call.vars, next.got) = S7Oked(call.vars, call.got) \cup (ToSet(chunk) \ bad)
        <5>1. PICK vars \in Seq(S7Vars) : vars = call.vars
          BY <1>2
        <5>2. PICK g \in Seq(S7Oks) : g = call.got
          BY <3>1
        <5>3. PICK all : all = next.got
          OBVIOUS
        <5>4. S7Answers(chunk, bad, res) /\ S7Placed(chunk, vars, Len(g)) /\ all = g \o res
          BY <3>2, <4>1, <4>2, <4>3, <5>1, <5>2, <5>3 DEF S7Answers, S7Placed
        <5>6. S7Step(vars, g, chunk, bad, res, all)
          BY <5>4 DEF S7Step
        <5>5. all \in Seq(S7Oks) /\ S7Oked(vars, all) = S7Oked(vars, g) \cup (ToSet(chunk) \ bad)
          BY ONLY <5>6, S7AppliedStep, SMT
        <5> QED
          BY <5>1, <5>2, <5>3, <5>5, Zenon
      <4> QED
        BY <3>1, <4>4, Zenon
    <3>4. s7Applied' = S7Oked(next.vars, next.got)
      <4>1. s7Applied' = s7Applied \cup (ToSet(chunk) \ bad) /\ next.vars = call.vars
        BY <1>6, <1>17, <2>2
      <4> QED
        BY <3>3, <4>1, Zenon
    <3>5. s7Call'["write"] = next
      BY <1>19, <2>2
    <3>6. S7Writing'
      BY <1>0, <1>17, <3>1, <3>2, <3>3, <3>4, <3>5 DEF S7Writing
    <3>7. S7AckTruthful'
      BY <1>17, <3>5 DEF S7AckTruthful
    <3> QED
      BY <3>6, <3>7 DEF S7Acks
  <2> QED
    BY <2>1, <2>2
<1> QED
  BY <1>20, <1>21, <1>22, <1>23 DEF S7Inv

-----------------------------------------------------------------------------
S7Rows == [var : S7Vars, ok : {"pending", "no"}]

\* The results mapped back to the rows, as S7WriteDone does it.
S7MapBack(ack, idx, got) ==
  [i \in DOMAIN ack |->
     IF \E j \in DOMAIN idx : idx[j] = i
     THEN LET j == CHOOSE k \in DOMAIN idx : idx[k] = i
          IN [ack[i] EXCEPT !.ok = IF got[j] = "ok" THEN "yes" ELSE "no"]
     ELSE ack[i]]

\* A request whose results are all there, and the rows it answers.
S7Answered(ack, idx, vars, got) ==
  /\ ack \in Seq(S7Rows) /\ idx \in Seq(Nat) /\ vars \in Seq(S7Vars) /\ got \in Seq(S7Oks)
  /\ Len(idx) = Len(vars) /\ Len(got) = Len(vars)
  /\ \A j \in 1 .. Len(idx) : idx[j] \in DOMAIN ack /\ ack[idx[j]].var = vars[j]
  /\ \A j, k \in 1 .. Len(idx) : j < k => idx[j] < idx[k]

S7Yes(rows) == {rows[i].var : i \in {j \in DOMAIN rows : rows[j].ok = "yes"}}

\* The rows reported ok are those whose answer is ok.
LEMMA S7RowsTruthful ==
  ASSUME NEW ack, NEW idx, NEW vars, NEW got, S7Answered(ack, idx, vars, got)
  PROVE  S7Yes(S7MapBack(ack, idx, got)) = S7Oked(vars, got)
<1> PICK rows : rows = S7MapBack(ack, idx, got)
  OBVIOUS
<1>a. /\ ack \in Seq(S7Rows) /\ idx \in Seq(Nat) /\ vars \in Seq(S7Vars) /\ got \in Seq(S7Oks)
      /\ Len(idx) = Len(vars) /\ Len(got) = Len(vars)
      /\ \A j \in 1 .. Len(idx) : idx[j] \in DOMAIN ack /\ ack[idx[j]].var = vars[j]
      /\ \A j, k \in 1 .. Len(idx) : j < k => idx[j] < idx[k]
  BY DEF S7Answered
<1>0. DOMAIN idx = 1 .. Len(idx) /\ Len(idx) \in Nat
  BY <1>a, LenProperties
<1>1. DOMAIN rows = DOMAIN ack
  BY DEF S7MapBack
<1>2. ASSUME NEW j \in 1 .. Len(idx), NEW k \in 1 .. Len(idx), idx[j] = idx[k] PROVE j = k
  <2>1. idx[j] \in Nat /\ idx[k] \in Nat /\ j \in Nat /\ k \in Nat
    BY <1>a, <1>0, ElementOfSeq
  <2>2. ~(j < k) /\ ~(k < j)
    BY <1>a, <1>2, <2>1
  <2> QED
    BY <2>1, <2>2
<1>3. ASSUME NEW i \in DOMAIN ack
      PROVE  ack[i].var \in S7Vars /\ ack[i].ok \in {"pending", "no"} /\ ack[i] \in S7Rows
  <2>1. ack[i] \in S7Rows
    BY <1>a, LenProperties, ElementOfSeq
  <2> QED
    BY <2>1 DEF S7Rows
<1>4. ASSUME NEW i \in DOMAIN ack, \A j \in 1 .. Len(idx) : idx[j] # i
      PROVE  rows[i].ok # "yes"
  <2>1. rows[i] = ack[i]
    BY <1>0, <1>4 DEF S7MapBack
  <2> QED
    BY <1>3, <2>1
<1>5. ASSUME NEW j \in 1 .. Len(idx)
      PROVE  rows[idx[j]].var = vars[j] /\ (rows[idx[j]].ok = "yes" <=> got[j] = "ok")
  <2>1. PICK i \in DOMAIN ack : i = idx[j]
    BY <1>a
  <2>2. (CHOOSE k \in DOMAIN idx : idx[k] = i) = j
    <3>1. PICK k : k = CHOOSE m \in DOMAIN idx : idx[m] = i
      OBVIOUS
    <3>2. k \in DOMAIN idx /\ idx[k] = i
      BY <1>0, <2>1, <3>1, Zenon
    <3> QED
      BY <1>0, <1>2, <2>1, <3>1, <3>2
  <2>3. rows[i] = [ack[i] EXCEPT !.ok = IF got[j] = "ok" THEN "yes" ELSE "no"]
    BY <1>0, <2>1, <2>2 DEF S7MapBack
  <2>4. rows[i].var = ack[i].var /\ rows[i].ok = IF got[j] = "ok" THEN "yes" ELSE "no"
    BY <1>3, <2>3 DEF S7Rows
  <2> QED
    BY <1>a, <2>1, <2>4
<1>6. ASSUME NEW i \in {j \in DOMAIN rows : rows[j].ok = "yes"}
      PROVE  rows[i].var \in S7Oked(vars, got)
  <2>1. PICK j \in 1 .. Len(idx) : idx[j] = i
    BY <1>1, <1>4, <1>6
  <2>2. rows[i].var = vars[j] /\ got[j] = "ok" /\ j \in 1 .. Len(got)
    BY <1>a, <1>5, <1>6, <2>1
  <2> QED
    BY <2>2 DEF S7Oked
<1>7. ASSUME NEW v \in S7Oked(vars, got)
      PROVE  \E i \in {j \in DOMAIN rows : rows[j].ok = "yes"} : v = rows[i].var
  <2>1. PICK j \in 1 .. Len(got) : got[j] = "ok" /\ v = vars[j]
    BY <1>7 DEF S7Oked
  <2> QED
    BY <1>a, <1>1, <1>5, <2>1
<1>8. {rows[i].var : i \in {j \in DOMAIN rows : rows[j].ok = "yes"}} = S7Oked(vars, got)
  BY <1>6, <1>7
<1> QED
  BY <1>8, Zenon DEF S7Yes

\* The write ends: its rows are truthful.
LEMMA S7WriteDoneKeeps == ASSUME S7Inv, S7WriteDone PROVE S7Inv'
<1> DEFINE w == s7Call["write"]
<1>0. /\ w.step = "got"
      /\ s7Ack' = IF w.got = <<"failed">> THEN <<>> ELSE S7MapBack(s7Ack, w.idx, w.got)
      /\ s7Call' = [s7Call EXCEPT !["write"] = S7NoCall]
      /\ UNCHANGED <<s7Cfg, s7Conn, s7Sock, s7Window, s7Fill, s7Plc, s7Mem, s7Mu, s7Last, s7Out, s7Stop, s7Applied>>
  BY DEF S7WriteDone, S7MapBack
<1>n. S7NoCall \in S7Calls /\ S7NoCall.step = "idle" /\ "write" \in S7Callers
  BY DEF S7NoCall, S7Calls, S7Callers
<1>1. \A d \in S7Callers : s7Call'[d] = IF d = "write" THEN S7NoCall ELSE s7Call[d]
  BY <1>0 DEF S7Inv, S7TypeOK
<1>2. S7TypeOK'
  BY <1>0, <1>n DEF S7Inv, S7TypeOK
<1>3. S7Conned'
  BY <1>0, <1>n, <1>1, S7ConnedSame DEF S7Inv
<1>4. S7Roles'
  BY <1>0, <1>n, <1>1, S7RolesSame DEF S7Inv, S7Emitting, S7Callers
<1>5. S7Emitting'
  BY <1>0, <1>n, <1>1, <1>4, S7EmittingSame DEF S7Inv
<1>6. S7Writing'
  BY <1>n, <1>1 DEF S7Writing
<1>7. S7AckTruthful'
  <2>1. CASE w.got = <<"failed">>
    BY <1>0, <2>1 DEF S7AckTruthful
  <2>2. CASE w.got # <<"failed">>
    <3>1. w \in S7Calls
      BY <1>n DEF S7Inv, S7TypeOK
    <3>2. w.vars \in Seq(S7Vars) /\ w.idx \in Seq(Nat)
      BY <3>1 DEF S7Calls
    <3>3. /\ Len(w.idx) = Len(w.vars) /\ s7Ack \in Seq(S7Rows)
          /\ \A j \in 1 .. Len(w.idx) : w.idx[j] \in DOMAIN s7Ack /\ s7Ack[w.idx[j]].var = w.vars[j]
          /\ \A j, k \in 1 .. Len(w.idx) : j < k => w.idx[j] < w.idx[k]
          /\ S7Planned(w) /\ w.got \in Seq(S7Oks) /\ w.todo = <<>>
          /\ s7Applied = S7Oked(w.vars, w.got)
      BY <1>0, <2>2 DEF S7Inv, S7Acks, S7Writing, S7Rows
    <3>4. Len(w.got) = Len(w.vars)
      BY <3>3 DEF S7Planned
    <3>5. S7Answered(s7Ack, w.idx, w.vars, w.got)
      BY <3>2, <3>3, <3>4 DEF S7Answered
    <3>6. S7Yes(S7MapBack(s7Ack, w.idx, w.got)) = S7Oked(w.vars, w.got)
      BY ONLY <3>5, S7RowsTruthful
    <3>7. S7Yes(s7Ack)' = s7Applied'
      BY <1>0, <2>2, <3>3, <3>6, Zenon
    <3> QED
      BY <3>7, Zenon DEF S7AckTruthful, S7Yes
  <2> QED
    BY <2>1, <2>2
<1> QED
  BY <1>2, <1>3, <1>5, <1>6, <1>7 DEF S7Inv, S7Acks

\* The rows that are sent, in the order of the message.
LEMMA S7Resolved ==
  ASSUME NEW vars \in Seq(S7Vars), NEW idx \in resolveAndEncode(vars)
  PROVE  /\ idx \in Seq(Nat) /\ DOMAIN idx = 1 .. Len(idx)
         /\ \A j \in 1 .. Len(idx) : idx[j] \in DOMAIN vars /\ vars[idx[j]] \in S7Vars
         /\ \A j, k \in 1 .. Len(idx) : j < k => idx[j] < idx[k]
<1>1. PICK n \in 0 .. Len(vars) : idx \in [1 .. n -> DOMAIN vars]
  BY DEF resolveAndEncode
<1>2. DOMAIN vars = 1 .. Len(vars) /\ Len(vars) \in Nat /\ \A i \in 1 .. Len(vars) : vars[i] \in S7Vars
  BY LenProperties, ElementOfSeq
<1>3. n \in Nat /\ idx \in [1 .. n -> Nat]
  BY <1>1, <1>2
<1>4. idx \in Seq(Nat) /\ Len(idx) = n /\ DOMAIN idx = 1 .. n
  BY <1>3
<1>5. \A j, k \in DOMAIN idx : j < k => idx[j] < idx[k]
  BY DEF resolveAndEncode
<1> QED
  BY <1>1, <1>2, <1>4, <1>5

\* A write begins.
LEMMA S7WriteKeeps == ASSUME S7Inv, S7Write PROVE S7Inv'
<1>0. /\ s7Call["write"].step = "idle" /\ s7Applied' = {}
      /\ UNCHANGED <<s7Cfg, s7Conn, s7Sock, s7Window, s7Fill, s7Plc, s7Mem, s7Mu, s7Last, s7Out, s7Stop>>
  BY DEF S7Write
<1>b. PICK list \in S7Lists : \E idx \in resolveAndEncode(list) :
        /\ Enter("write", [j \in DOMAIN idx |-> list[idx[j]]], idx)
        /\ s7Ack' = [i \in DOMAIN list |-> [var |-> list[i],
                                            ok |-> IF i \in ToSet(idx) THEN "pending" ELSE "no"]]
  BY DEF S7Write
<1>1. PICK idx \in resolveAndEncode(list) :
        /\ Enter("write", [j \in DOMAIN idx |-> list[idx[j]]], idx)
        /\ s7Ack' = [i \in DOMAIN list |-> [var |-> list[i],
                                            ok |-> IF i \in ToSet(idx) THEN "pending" ELSE "no"]]
  BY <1>b
<1>2. list \in Seq(S7Vars)
  BY S7Assumption
<1>3. /\ idx \in Seq(Nat) /\ DOMAIN idx = 1 .. Len(idx)
      /\ \A j \in 1 .. Len(idx) : idx[j] \in DOMAIN list /\ list[idx[j]] \in S7Vars
      /\ \A j, k \in 1 .. Len(idx) : j < k => idx[j] < idx[k]
  BY <1>2, S7Resolved
<1>4. DOMAIN list = 1 .. Len(list) /\ Len(list) \in Nat /\ Len(idx) \in Nat
      /\ \A i \in 1 .. Len(list) : list[i] \in S7Vars
  BY <1>2, <1>3, LenProperties, ElementOfSeq
<1>5. PICK vars \in Seq(S7Vars) : /\ vars = [j \in DOMAIN idx |-> list[idx[j]]] /\ Len(vars) = Len(idx)
                                  /\ \A j \in 1 .. Len(idx) : vars[j] = list[idx[j]]
  <2>1. [j \in 1 .. Len(idx) |-> list[idx[j]]] \in Seq(S7Vars)
    BY <1>3, <1>4
  <2>2. PICK vars \in Seq(S7Vars) : vars = [j \in 1 .. Len(idx) |-> list[idx[j]]]
    BY <2>1
  <2>3. Len(vars) = Len(idx) /\ \A j \in 1 .. Len(idx) : vars[j] = list[idx[j]]
    BY <1>4, <2>2
  <2>4. vars = [j \in DOMAIN idx |-> list[idx[j]]]
    BY <1>3, <2>2, Zenon
  <2> QED
    BY <2>3, <2>4
<1>6. PICK chunks \in Chunkings(vars) :
        s7Call' = [s7Call EXCEPT !["write"] = [step |-> "want", todo |-> chunks, got |-> <<>>,
                                               vars |-> vars, idx |-> idx]]
  BY <1>1, <1>5 DEF Enter
<1>7. /\ chunks \in Seq(Seq(S7Vars))
      /\ chunks = <<vars>> \/ (Len(vars) = 2 /\ chunks = <<<<vars[1]>>, <<vars[2]>>>>)
  BY S7Chunked
<1> DEFINE e == <<>>
<1>8. e \in Seq(S7Results) /\ e \in Seq(S7Oks) /\ e = <<>> /\ Len(e) = 0
  OBVIOUS
<1> HIDE DEF e
<1>9. PICK call \in S7Calls :
        /\ call = [step |-> "want", todo |-> chunks, got |-> e, vars |-> vars, idx |-> idx]
        /\ call.step = "want" /\ call.todo = chunks /\ call.got = e /\ call.vars = vars /\ call.idx = idx
  <2>1. "want" \in {"idle", "want", "wire", "got", "send"} /\ e \in Seq({"0", "1", "ok", "err", "failed"})
    BY <1>8 DEF S7Results
  <2> QED
    BY <1>3, <1>7, <2>1, S7CallOf
<1>10. s7Call' = [s7Call EXCEPT !["write"] = call] /\ "write" \in S7Callers
  BY <1>6, <1>8, <1>9 DEF S7Callers
<1>11. \A d \in S7Callers : s7Call'[d] = IF d = "write" THEN call ELSE s7Call[d]
  BY <1>10 DEF S7Inv, S7TypeOK
<1>12. S7TypeOK'
  BY <1>0, <1>10 DEF S7Inv, S7TypeOK
<1>13. S7Conned'
  BY <1>0, <1>9, <1>11, S7ConnedSame DEF S7Inv
<1>14. S7Emitting'
  <2>1. S7Roles'
    BY <1>0, <1>9, <1>11 DEF S7Inv, S7Emitting, S7Roles, S7Callers
  <2> QED
    BY <1>0, <1>11, <2>1, S7EmittingSame DEF S7Inv
<1>15. s7Ack' \in Seq([var : S7Vars, ok : {"pending", "no"}]) /\ DOMAIN s7Ack' = DOMAIN list
       /\ \A i \in DOMAIN list : s7Ack'[i].var = list[i]
  <2> DEFINE row(i) == [var |-> list[i], ok |-> IF i \in ToSet(idx) THEN "pending" ELSE "no"]
  <2>1. \A i \in 1 .. Len(list) : row(i) \in [var : S7Vars, ok : {"pending", "no"}] /\ row(i).var = list[i]
    BY <1>4
  <2>2. s7Ack' = [i \in 1 .. Len(list) |-> row(i)]
    BY <1>1, <1>4
  <2> HIDE DEF row
  <2> QED
    BY <1>4, <2>1, <2>2
<1>16. S7Oked(vars, e) = {}
  BY <1>8 DEF S7Oked
<1>17. S7Planned(call)
  BY <1>7, <1>8, <1>9 DEF S7Planned
<1>18. s7Call'["write"] = call
  BY <1>10, <1>11
<1>19. /\ Len(call.idx) = Len(call.vars)
       /\ \A j \in 1 .. Len(call.idx) : call.idx[j] \in DOMAIN s7Ack' /\ s7Ack'[call.idx[j]].var = call.vars[j]
       /\ \A j, k \in 1 .. Len(call.idx) : j < k => call.idx[j] < call.idx[k]
  BY <1>3, <1>5, <1>9, <1>15
<1>20. S7Writing'
  BY <1>0, <1>8, <1>9, <1>15, <1>16, <1>17, <1>18, <1>19 DEF S7Writing
<1>21. S7AckTruthful'
  BY <1>9, <1>18 DEF S7AckTruthful
<1> QED
  BY <1>12, <1>13, <1>14, <1>20, <1>21 DEF S7Inv, S7Acks

\* Every step keeps the invariant.
LEMMA S7Inductive == S7Inv /\ [S7Next]_s7Vars => S7Inv'
<1> SUFFICES ASSUME S7Inv, [S7Next]_s7Vars PROVE S7Inv'
  OBVIOUS
<1>1. CASE UNCHANGED s7Vars
  <2>0. UNCHANGED <<s7Cfg, s7Conn, s7Sock, s7Window, s7Fill, s7Plc, s7Mem, s7Mu, s7Call, s7Last, s7Out,
                    s7Stop, s7Applied, s7Ack>>
    BY <1>1 DEF s7Vars
  <2>1. S7TypeOK'
    BY <2>0 DEF S7Inv, S7TypeOK
  <2>2. S7Conned'
    BY <2>0, S7ConnedSame DEF S7Inv
  <2>3. S7Emitting'
    <3>1. S7Roles'
      BY <2>0 DEF S7Inv, S7Emitting, S7Roles
    <3> QED
      BY <2>0, <3>1, S7EmittingSame DEF S7Inv
  <2>4. S7Acks'
    BY <2>0, S7AcksSame DEF S7Inv
  <2> QED
    BY <2>1, <2>2, <2>3, <2>4 DEF S7Inv
<1>2. CASE S7Write
  BY <1>2, S7WriteKeeps
<1>3. CASE S7Tick \/ S7HandleMessage
  BY <1>3, S7ReadsKeep
<1>4. CASE \E c \in S7Callers : S7CallStep(c)
  BY <1>4, S7LockKeeps, S7ChunkKeeps, S7ChunkFailsKeeps, S7CallOkKeeps, S7CompareKeeps, S7SendKeeps,
     S7WriteDoneKeeps DEF S7CallStep
<1> QED
  BY <1>1, <1>2, <1>3, <1>4, S7OutsideKeeps DEF S7Next

\* The invariant is enough.
LEMMA S7InvIsSound == S7Inv => S7Sound
<1> SUFFICES ASSUME S7Inv PROVE S7Sound
  OBVIOUS
<1>1. S7ConnSound /\ S7AckTruthful
  BY DEF S7Inv, S7Conned, S7Link, S7Acks, S7ConnSound
<1>2. S7EmitsChanges
  BY DEF S7Inv, S7Emitting, S7Emits, S7EmitsChanges, S7Sending, S7Callers, S7Roles
<1> QED
  BY <1>1, <1>2 DEF S7Sound

(***************************************************************************)
(* The S7 connection's flag, socket and status agree whenever no call is   *)
(* under way, also when the PLC is stopped under nodes that go on calling  *)
(* it; emitOnChange loses no change with one reading goroutine, and the    *)
(* rows a write reports ok are exactly the variables the PLC stored        *)
(* (plc.go, read.go, write.go), for any variables, configurations, lists   *)
(* and numbers of calls and failures.  A stopped PLC is not proved to have *)
(* no socket: see S7StoppedQuiet.                                          *)
(***************************************************************************)
THEOREM PlcIsSound == S7Spec => []S7Sound
<1>1. S7Init => S7Inv
  BY S7Initially
<1>2. S7Inv /\ [S7Next]_s7Vars => S7Inv'
  BY S7Inductive
<1>3. S7Inv => S7Sound
  BY S7InvIsSound
<1> QED
  BY <1>1, <1>2, <1>3, PTL DEF S7Spec

-----------------------------------------------------------------------------
(***************************************************************************)
(* opcua-subscribe.                                                        *)
(***************************************************************************)

UaEntry == [node : UaNodeIds, mon : Nat]
UaMonitored == [id : Nat, handle : Nat]
UaSteps == {"idle", "cancel", "subscribe", "store", "monitor", "stitch", "unmonitor"}
UaOpRec == [step : UaSteps, sub : Nat, old : SUBSET (UaMonitored \cup Nat), states : SUBSET Nat, stop : BOOLEAN]

\* The types of the connection and the node, and of what is under way.
UaShape ==
  /\ uaClient \in {"none", "open", "closed"} /\ uaSession \in BOOLEAN /\ uaHooked \in BOOLEAN
  /\ uaLost \in BOOLEAN /\ uaMode \in UaModes
  /\ uaStateC \in Seq({"Connected", "Reconnecting"}) /\ uaCallers \in Nat
  /\ uaFill \in {"grey", "yellow", "green", "red"}
  /\ uaNode \in {"new", "registered", "opened", "run", "stopped"}
  /\ uaIds \in Nat /\ uaSub \in Nat
  /\ uaHeap \in Seq(UaEntry) /\ uaItems \subseteq UaHandles
  /\ uaOp \in [UaOps -> UaOpRec]

\* Handles and ids that are in use were given out, and at the server no two
\* items of a subscription have the same id.
UaGiven ==
  /\ \A h \in UaHandles : uaHeap[h].mon <= uaIds
  /\ \A a \in UaOps : uaOp[a].states \subseteq UaHandles /\ uaOp[a].sub <= uaIds
  /\ \A a \in UaOps : uaOp[a].step = "stitch" =>
       \A m \in uaOp[a].old : m \in UaMonitored /\ m.id \in 1 .. uaIds
  /\ uaOp["rebuild"].step = "store" => uaOp["rebuild"].sub > 0
  /\ uaReaders \subseteq 1 .. uaIds /\ uaSub <= uaIds

UaServerOK ==
  /\ UaSubs \subseteq 1 .. uaIds
  /\ \A s \in UaSubs : \A m \in uaServer[s] :
       m \in UaMonitored /\ m.id \in 1 .. uaIds /\ m.handle \in UaHandles
  /\ \A s \in UaSubs : \A m, k \in uaServer[s] : m.id = k.id => m = k

\* The library's reports and watchState: how the session is comes last.
UaLinked ==
  /\ uaSession => uaClient = "open"
  /\ uaClient # "open" => uaFill # "green"
  /\ uaStateC # <<>> => (uaStateC[Len(uaStateC)] = "Connected" <=> uaSession)
  /\ uaStateC = <<>> => (uaFill = "green" <=> uaSession)
  /\ uaNode # "new" => uaHooked

\* A notification in flight names an item for what it is.
UaNamed ==
  /\ uaWrong = {}
  /\ uaNote # UaNoNote => uaNote.handle \in UaHandles /\ uaNote.of = uaHeap[uaNote.handle].node

\* Which goroutine may do what, and what there is before the node runs.
UaRoles ==
  /\ uaOp["rebuild"].step # "unmonitor"
  /\ uaOp["control"].step \in {"idle", "unmonitor", "monitor", "stitch"}
  /\ uaOp["stop"].step \in {"idle", "cancel"}
  /\ uaOp["stop"].step # "idle" => uaNode = "stopped"
  /\ uaOp["control"].step # "idle" => uaNode \in {"run", "stopped"}
  /\ uaNode \in {"new", "registered", "opened"} => uaHeap = <<>>
  /\ uaNode \in {"new", "registered"} =>
       /\ uaSub = 0 /\ UaSubs = {}
       /\ uaOp["rebuild"].step \in {"idle", "cancel"} /\ ~uaOp["rebuild"].stop
  /\ uaOp["rebuild"].step \notin {"idle", "cancel"} => uaOp["rebuild"].stop

\* A rebuild is still to come.
UaCovered == uaStateC # <<>> \/ uaCallers > 0

\* Unless an update was lost, no subscription is forgotten.
UaKnown ==
  ~uaLost =>
    /\ UaAt("rebuild", "idle") \/ UaAt("control", "idle")
    /\ \A s \in UaSubs : \/ s = uaSub
                         \/ UaAt("stop", "cancel") /\ s = uaOp["stop"].sub
                         \/ uaOp["rebuild"].step \in {"cancel", "store"} /\ s = uaOp["rebuild"].sub
    /\ uaOp["rebuild"].step \in {"cancel", "subscribe", "store"} => uaSub = 0
    /\ uaNode = "stopped" => uaSub = 0

\* The items of some handles as the server should have them.
UaItem(heap, h) == [id |-> heap[h].mon, handle |-> h]
UaIdOf(heap, hs) == {UaItem(heap, h) : h \in hs}

\* The answer to createItemsOn has one item for each handle.
UaAnswers(old, hs) ==
  {m.handle : m \in old} = hs /\ \A m, k \in old : m.handle = k.handle => m = k

\* What a rebuild that is UaCurrent has done to the server, whether or not
\* another one is still to come.
UaMaking ==
  LET r == uaOp["rebuild"] IN
  (~uaLost /\ uaNode \in {"opened", "run"} /\ r.step # "idle" /\ UaCurrent) =>
    /\ r.step = "store" => UaSubs = {r.sub} /\ uaServer[r.sub] = {}
    /\ r.step \in {"monitor", "stitch"} => uaSub = r.sub /\ UaSubs = {uaSub}
    /\ r.step = "monitor" => uaServer[uaSub] = {}
    /\ r.step = "stitch" => uaServer[uaSub] = r.old /\ UaAnswers(r.old, uaItems)

\* The rebuild under way is the one the live session needs.
UaRebuilding == uaOp["rebuild"].step # "idle" => UaCurrent

\* What a control message has done to it, or nobody has to do.
UaControlling ==
  LET c == uaOp["control"] IN
  uaOp["rebuild"].step = "idle" =>
    /\ UaSubs = {uaSub}
    /\ c.step = "idle" => uaServer[uaSub] = UaIdOf(uaHeap, uaItems)
    /\ c.step # "idle" => c.sub = uaSub /\ c.states \subseteq uaItems
    /\ c.step = "unmonitor" =>
         {m \in uaServer[uaSub] : m.id \notin c.old} = UaIdOf(uaHeap, uaItems \ c.states)
    /\ c.step = "monitor" => uaServer[uaSub] = UaIdOf(uaHeap, uaItems \ c.states)
    /\ c.step = "stitch" => /\ uaServer[uaSub] = UaIdOf(uaHeap, uaItems \ c.states) \cup c.old
                            /\ UaAnswers(c.old, c.states)

UaLive == ~uaLost /\ uaSession /\ uaNode = "run" /\ ~UaCovered

\* Without a rebuild to come, the server has what the node holds.
UaTrue == UaLive => UaRebuilding /\ UaControlling

UaTypes == UaShape /\ UaGiven /\ UaServerOK
UaInv == UaTypes /\ UaLinked /\ UaNamed /\ UaRoles /\ UaKnown /\ UaMaking /\ UaTrue

-----------------------------------------------------------------------------
\* The invariant gives the type invariant.
LEMMA UaTyped == UaInv => UaTypeOK
<1> SUFFICES ASSUME UaInv PROVE UaTypeOK
  OBVIOUS
<1>1. UaShape /\ UaGiven /\ UaServerOK
  BY DEF UaInv, UaTypes
<1>2. \A h \in UaHandles : uaHeap[h] \in UaEntry
  BY <1>1, ElementOfSeq, LenProperties DEF UaShape, UaHandles
<1>3. \A h \in UaHandles : uaHeap[h].node \in UaNodeIds /\ uaHeap[h].mon \in 0 .. uaIds
  BY <1>1, <1>2 DEF UaShape, UaGiven, UaEntry
<1>4. \A a \in UaOps : uaOp[a].states \subseteq UaHandles /\ uaOp[a].stop \in BOOLEAN
  BY <1>1 DEF UaShape, UaGiven, UaOpRec
<1> QED
  BY <1>1, <1>3, <1>4 DEF UaTypeOK, UaShape, UaGiven, UaServerOK

\* Nothing is connected and nothing held.
LEMMA UaInitially == UaInit => UaInv
<1> SUFFICES ASSUME UaInit PROVE UaInv
  OBVIOUS
<1>0. UaIdle \in UaOpRec /\ UaIdle.step = "idle" /\ UaIdle.sub = 0 /\ UaIdle.states = {} /\ ~UaIdle.stop
  BY DEF UaIdle, UaOpRec, UaSteps
<1>1. \A a \in UaOps : uaOp[a] = UaIdle
  BY DEF UaInit
<1>2. UaSubs = {} /\ UaHandles = {}
  BY DEF UaInit, UaSubs, UaHandles
<1>3. UaShape
  <2>1. <<>> \in Seq({"Connected", "Reconnecting"}) /\ <<>> \in Seq(UaEntry)
    OBVIOUS
  <2>2. uaStateC \in Seq({"Connected", "Reconnecting"}) /\ uaHeap \in Seq(UaEntry)
    BY <2>1, Zenon DEF UaInit
  <2>3. uaOp \in [UaOps -> UaOpRec]
    BY <1>0 DEF UaInit
  <2> QED
    BY <1>2, <2>2, <2>3 DEF UaInit, UaShape
<1>4. UaGiven
  BY <1>0, <1>1, <1>2 DEF UaInit, UaGiven, UaOps
<1>5. UaServerOK
  BY <1>2 DEF UaServerOK
<1>6. UaLinked
  BY DEF UaInit, UaLinked
<1>7. UaNamed
  BY DEF UaInit, UaNamed
<1>8. UaRoles
  BY <1>0, <1>1, <1>2 DEF UaInit, UaRoles, UaOps
<1>9. UaKnown
  BY <1>0, <1>1, <1>2 DEF UaInit, UaKnown, UaOps, UaAt
<1>10. UaTrue /\ UaMaking
  BY DEF UaInit, UaTrue, UaLive, UaMaking
<1> QED
  BY <1>3, <1>4, <1>5, <1>6, <1>7, <1>8, <1>9, <1>10 DEF UaInv, UaTypes

-----------------------------------------------------------------------------
\* A step that has no part in the rebuild.
LEMMA UaMakingSame ==
  ASSUME UaMaking, UNCHANGED <<uaSub, uaItems>>, uaOp'["rebuild"] = uaOp["rebuild"], uaLost => uaLost',
         uaNode' \in {"opened", "run"} => uaNode \in {"opened", "run"},
         UaSubs' = {} \/ uaServer' = uaServer
  PROVE  UaMaking'
<1>1. CASE uaServer' = uaServer
  BY <1>1 DEF UaMaking, UaCurrent, UaSubs
<1>2. CASE UaSubs' = {}
  BY <1>2 DEF UaMaking, UaCurrent
<1> QED
  BY <1>1, <1>2

\* A rebuild that has not subscribed yet has done nothing to the server.
LEMMA UaMakingBegins ==
  ASSUME uaOp'["rebuild"].step \in {"idle", "cancel", "subscribe"} PROVE UaMaking'
BY DEF UaMaking

\* The connection: what the node holds and does is not touched.
LEMMA UaLinkKeeps ==
  ASSUME UaInv, UaShape', UaLinked',
         UNCHANGED <<uaNode, uaNodeVars, uaOp, uaIds, uaNoteVars, uaLost>>,
         uaServer' = uaServer \/ uaServer' = <<>>,
         UaLive' => UaLive /\ uaServer' = uaServer
  PROVE  UaInv'
<1>1. UaSubs' \subseteq UaSubs /\ \A s \in UaSubs' : uaServer'[s] = uaServer[s]
  BY DEF UaSubs
<1>2. UaHandles' = UaHandles
  BY DEF UaHandles, uaNodeVars
<1>3. UaGiven'
  BY <1>2 DEF UaInv, UaTypes, UaGiven, uaNodeVars, uaNoteVars
<1>4. UaServerOK'
  BY <1>1, <1>2 DEF UaInv, UaTypes, UaServerOK
<1>5. UaNamed'
  BY <1>2 DEF UaInv, UaNamed, uaNodeVars, uaNoteVars
<1>6. UaRoles'
  BY <1>1 DEF UaInv, UaRoles, uaNodeVars
<1>7. UaKnown'
  BY <1>1 DEF UaInv, UaKnown, UaAt, uaNodeVars
<1>8. UaTrue'
  <2> SUFFICES ASSUME UaLive' PROVE UaRebuilding' /\ UaControlling'
    BY DEF UaTrue
  <2>1. UaRebuilding /\ UaControlling /\ uaServer' = uaServer
    BY DEF UaInv, UaTrue
  <2> QED
    BY <2>1 DEF UaRebuilding, UaCurrent, UaControlling, UaSubs, uaNodeVars
<1>9. UaMaking'
  <2>1. UaSubs' = {} \/ uaServer' = uaServer
    BY DEF UaSubs
  <2> QED
    BY <2>1, UaMakingSame DEF UaInv, uaNodeVars
<1> QED
  BY <1>3, <1>4, <1>5, <1>6, <1>7, <1>8, <1>9 DEF UaInv, UaTypes

\* The last of a queue is the last of its rest, or its first.
LEMMA UaLastOfTail ==
  ASSUME NEW T, NEW q \in Seq(T), q # <<>>
  PROVE  /\ Tail(q) \in Seq(T)
         /\ Tail(q) # <<>> => Tail(q)[Len(Tail(q))] = q[Len(q)]
         /\ Tail(q) = <<>> => Head(q) = q[Len(q)]
<1>1. /\ Tail(q) \in Seq(T) /\ Len(Tail(q)) = Len(q) - 1
      /\ \A i \in 1 .. Len(Tail(q)) : Tail(q)[i] = q[i + 1]
  BY HeadTailProperties
<1>2. Len(q) \in Nat /\ Len(q) > 0 /\ Head(q) = q[1]
  BY EmptySeq, LenProperties
<1>3. PICK t \in Seq(T) : t = Tail(q)
  BY <1>1
<1>4. t # <<>> => Len(t) > 0
  BY EmptySeq, LenProperties
<1>5. t = <<>> => Len(t) = 0
  OBVIOUS
<1> QED
  BY <1>1, <1>2, <1>3, <1>4, <1>5

\* The client is made, connects, loses its session, and watchState sees it.
LEMMA UaConnectionKeeps ==
  ASSUME UaInv, UaServerStart \/ UaConnect \/ UaDrop \/ UaWatchState \/ UaServerStop
  PROVE  UaInv'
<1> DEFINE S == {"Connected", "Reconnecting"}
<1>0. UaShape /\ UaLinked /\ UaRoles /\ uaStateC \in Seq(S)
  BY DEF UaInv, UaTypes, UaShape
<1>1. CASE UaServerStart
  <2>1. UNCHANGED <<uaNode, uaNodeVars, uaOp, uaIds, uaNoteVars, uaLost, uaServer, uaSession, uaStateC, uaCallers>>
    BY <1>1 DEF UaServerStart
  <2>2. uaClient = "none" /\ ~uaSession
    BY <1>0, <1>1 DEF UaServerStart, UaLinked
  <2>3. UaShape' /\ UaLinked'
    BY <1>0, <1>1, <2>2 DEF UaServerStart, UaShape, UaLinked, UaHandles, uaNodeVars
  <2> QED
    BY <2>1, <2>2, <2>3, UaLinkKeeps DEF UaLive
<1>2. CASE UaConnect
  <2>1. UNCHANGED <<uaNode, uaNodeVars, uaOp, uaIds, uaNoteVars, uaLost, uaServer>>
    BY <1>2 DEF UaConnect
  <2>2. uaStateC' \in Seq(S) /\ uaStateC' # <<>> /\ uaStateC'[Len(uaStateC')] = "Connected"
    BY <1>0, <1>2 DEF UaConnect
  <2>3. UaShape' /\ UaLinked'
    BY <1>0, <1>2, <2>2 DEF UaConnect, UaShape, UaLinked, UaHandles, uaNodeVars
  <2> QED
    BY <2>1, <2>2, <2>3, UaLinkKeeps DEF UaLive, UaCovered
<1>3. CASE UaDrop
  <2>1. UNCHANGED <<uaNode, uaNodeVars, uaOp, uaIds, uaNoteVars, uaLost>> /\ uaServer' = <<>> /\ ~uaSession'
    BY <1>3 DEF UaDrop
  <2>2. uaStateC' \in Seq(S) /\ uaStateC' # <<>> /\ uaStateC'[Len(uaStateC')] = "Reconnecting"
    BY <1>0, <1>3 DEF UaDrop
  <2>3. UaShape' /\ UaLinked'
    BY <1>0, <1>3, <2>2 DEF UaDrop, UaShape, UaLinked, UaHandles, uaNodeVars
  <2> QED
    BY <2>1, <2>2, <2>3, UaLinkKeeps DEF UaLive, UaCovered
<1>4. CASE UaWatchState
  <2>1. /\ UNCHANGED <<uaNode, uaNodeVars, uaOp, uaIds, uaNoteVars, uaLost, uaServer, uaSession, uaClient, uaHooked, uaMode>>
        /\ uaStateC # <<>> /\ uaStateC' = Tail(uaStateC) /\ uaFill' = mapConnState(Head(uaStateC))
        /\ uaCallers' = IF Head(uaStateC) = "Connected" /\ uaHooked THEN uaCallers + 1 ELSE uaCallers
        /\ uaClient = "open"
    BY <1>4 DEF UaWatchState
  <2>2. /\ uaStateC' \in Seq(S)
        /\ uaStateC' # <<>> => uaStateC'[Len(uaStateC')] = uaStateC[Len(uaStateC)]
        /\ uaStateC' = <<>> => Head(uaStateC) = uaStateC[Len(uaStateC)]
    <3>1. PICK T : T = S
      OBVIOUS
    <3>2. PICK q \in Seq(T) : q = uaStateC
      BY <1>0, <3>1
    <3>3. q # <<>> => /\ Tail(q) \in Seq(T)
                      /\ Tail(q) # <<>> => Tail(q)[Len(Tail(q))] = q[Len(q)]
                      /\ Tail(q) = <<>> => Head(q) = q[Len(q)]
      BY ONLY q \in Seq(T), UaLastOfTail
    <3> QED
      BY <2>1, <3>1, <3>2, <3>3
  <2>3. Head(uaStateC) \in S /\ uaCallers' \in Nat /\ (uaCallers' = 0 => uaCallers = 0)
    BY <1>0, <2>1 DEF UaShape
  <2>4. UaShape'
    BY <1>0, <2>1, <2>2, <2>3 DEF UaShape, mapConnState, UaHandles, uaNodeVars
  <2>5. UaLinked'
    BY <1>0, <2>1, <2>2, <2>3 DEF UaLinked, mapConnState
  <2>6. ~UaLive'
    <3> SUFFICES ASSUME UaLive' PROVE FALSE
      OBVIOUS
    <3>1. uaStateC' = <<>> /\ ~(uaCallers' > 0) /\ uaSession /\ uaNode = "run"
      BY <2>1 DEF UaLive, UaCovered
    <3>2. Head(uaStateC) = "Connected" /\ uaHooked
      BY <1>0, <2>1, <2>2, <3>1 DEF UaLinked
    <3>3. uaCallers' = uaCallers + 1 /\ uaCallers \in Nat
      BY <1>0, <2>1, <3>2 DEF UaShape
    <3> QED
      BY <3>1, <3>3
  <2> QED
    BY <2>1, <2>4, <2>5, <2>6, UaLinkKeeps
<1>5. CASE UaServerStop
  <2>1. UNCHANGED <<uaNode, uaNodeVars, uaOp, uaIds, uaNoteVars, uaLost>> /\ uaServer' = <<>> /\ ~uaSession'
    BY <1>5 DEF UaServerStop
  <2>2. uaStateC' = <<>> /\ uaStateC' \in Seq(S)
    BY <1>5 DEF UaServerStop
  <2>3. UaShape'
    BY <1>0, <1>5, <2>2 DEF UaServerStop, UaShape, UaHandles, uaNodeVars
  <2>4. UaLinked'
    BY <1>0, <1>5, <2>2 DEF UaServerStop, UaLinked
  <2> QED
    BY <2>1, <2>3, <2>4, UaLinkKeeps DEF UaLive
<1> QED
  BY <1>1, <1>2, <1>3, <1>4, <1>5

-----------------------------------------------------------------------------
\* Nothing is under way.
LEMMA UaIdleIs ==
  /\ UaIdle \in UaOpRec /\ UaIdle.step = "idle" /\ UaIdle.sub = 0 /\ UaIdle.states = {}
  /\ UaIdle.stop = FALSE /\ UaIdle.old = {}
BY DEF UaIdle, UaOpRec, UaSteps

\* An operation is replaced.
LEMMA UaSetOp ==
  ASSUME UaShape, NEW a \in UaOps, NEW r \in UaOpRec, uaOp' = [uaOp EXCEPT ![a] = r]
  PROVE  /\ uaOp' \in [UaOps -> UaOpRec] /\ uaOp'[a] = r
         /\ \A b \in UaOps \ {a} : uaOp'[b] = uaOp[b]
BY DEF UaShape

\* An operation takes a step.
LEMMA UaStepTo ==
  ASSUME UaShape, NEW a \in UaOps, NEW st \in UaSteps, uaOp' = [uaOp EXCEPT ![a].step = st]
  PROVE  /\ uaOp' \in [UaOps -> UaOpRec] /\ \A b \in UaOps \ {a} : uaOp'[b] = uaOp[b]
         /\ uaOp'[a].step = st /\ uaOp'[a].sub = uaOp[a].sub /\ uaOp'[a].old = uaOp[a].old
         /\ uaOp'[a].states = uaOp[a].states /\ uaOp'[a].stop = uaOp[a].stop
<1>1. PICK q \in UaOpRec : q = uaOp[a]
  BY DEF UaShape
<1> DEFINE r == [q EXCEPT !.step = st]
<1>2. r \in UaOpRec
  BY DEF UaOpRec
<1>3. r.step = st /\ r.sub = q.sub /\ r.old = q.old /\ r.states = q.states /\ r.stop = q.stop
  BY DEF UaOpRec
<1>4. uaOp' = [uaOp EXCEPT ![a] = r]
  BY <1>1
<1> HIDE DEF r
<1>5. uaOp' \in [UaOps -> UaOpRec] /\ uaOp'[a] = r /\ \A b \in UaOps \ {a} : uaOp'[b] = uaOp[b]
  BY <1>2, <1>4, UaSetOp
<1> QED
  BY <1>1, <1>3, <1>5

\* The rebuild has a new subscription.
LEMMA UaSubTo ==
  ASSUME UaShape, NEW n \in Nat,
         uaOp' = [uaOp EXCEPT !["rebuild"].step = "store", !["rebuild"].sub = n]
  PROVE  /\ uaOp' \in [UaOps -> UaOpRec] /\ \A b \in UaOps \ {"rebuild"} : uaOp'[b] = uaOp[b]
         /\ uaOp'["rebuild"].step = "store" /\ uaOp'["rebuild"].sub = n /\ uaOp'["rebuild"].old = uaOp["rebuild"].old
         /\ uaOp'["rebuild"].states = uaOp["rebuild"].states /\ uaOp'["rebuild"].stop = uaOp["rebuild"].stop
<1>1. PICK q \in UaOpRec : q = uaOp["rebuild"]
  BY DEF UaShape, UaOps
<1> DEFINE r == [q EXCEPT !.step = "store", !.sub = n]
<1>2. r \in UaOpRec
  BY DEF UaOpRec, UaSteps
<1>3. r.step = "store" /\ r.sub = n /\ r.old = q.old /\ r.states = q.states /\ r.stop = q.stop
  BY DEF UaOpRec
<1>4. uaOp' = [uaOp EXCEPT !["rebuild"] = r]
  BY <1>1
<1> HIDE DEF r
<1>5. uaOp' \in [UaOps -> UaOpRec] /\ uaOp'["rebuild"] = r /\ \A b \in UaOps \ {"rebuild"} : uaOp'[b] = uaOp[b]
  BY <1>2, <1>4, UaSetOp DEF UaOps
<1> QED
  BY <1>1, <1>3, <1>5

\* The request of createItemsOn is answered.
LEMMA UaOldTo ==
  ASSUME UaShape, NEW a \in UaOps, NEW st \in UaSteps, NEW new \in SUBSET (UaMonitored \cup Nat),
         uaOp' = [uaOp EXCEPT ![a].step = st, ![a].old = new]
  PROVE  /\ uaOp' \in [UaOps -> UaOpRec] /\ \A b \in UaOps \ {a} : uaOp'[b] = uaOp[b]
         /\ uaOp'[a].step = st /\ uaOp'[a].sub = uaOp[a].sub /\ uaOp'[a].old = new
         /\ uaOp'[a].states = uaOp[a].states /\ uaOp'[a].stop = uaOp[a].stop
<1>1. PICK q \in UaOpRec : q = uaOp[a]
  BY DEF UaShape
<1> DEFINE r == [q EXCEPT !.step = st, !.old = new]
<1>2. r \in UaOpRec
  BY DEF UaOpRec
<1>3. r.step = st /\ r.sub = q.sub /\ r.old = new /\ r.states = q.states /\ r.stop = q.stop
  BY DEF UaOpRec
<1>4. uaOp' = [uaOp EXCEPT ![a] = r]
  BY <1>1
<1> HIDE DEF r
<1>5. uaOp' \in [UaOps -> UaOpRec] /\ uaOp'[a] = r /\ \A b \in UaOps \ {a} : uaOp'[b] = uaOp[b]
  BY <1>2, <1>4, UaSetOp
<1> QED
  BY <1>1, <1>3, <1>5

\* New items get handles behind the old ones.
LEMMA UaAllocated ==
  ASSUME UaShape, NEW specs \in Seq(UaNodeIds)
  PROVE  /\ UaAlloc(specs) \in Seq(UaEntry) /\ Len(UaAlloc(specs)) = Len(uaHeap) + Len(specs)
         /\ UaHandles = 1 .. Len(uaHeap) /\ Len(uaHeap) \in Nat /\ Len(specs) \in Nat
         /\ DOMAIN UaAlloc(specs) = 1 .. Len(uaHeap) + Len(specs)
         /\ \A h \in UaHandles : UaAlloc(specs)[h] = uaHeap[h]
         /\ \A h \in DOMAIN UaAlloc(specs) \ UaHandles : UaAlloc(specs)[h].mon = 0
<1>1. /\ Len(uaHeap) \in Nat /\ UaHandles = 1 .. Len(uaHeap) /\ Len(specs) \in Nat
      /\ \A h \in UaHandles : uaHeap[h] \in UaEntry
      /\ \A i \in 1 .. Len(specs) : specs[i] \in UaNodeIds
  BY LenProperties, ElementOfSeq DEF UaShape, UaHandles
<1>2. PICK n \in Nat : n = Len(uaHeap)
  BY <1>1
<1>3. PICK k \in Nat : k = Len(specs)
  BY <1>1
<1> DEFINE e(h) == IF h <= n THEN uaHeap[h] ELSE [node |-> specs[h - n], mon |-> 0]
<1>4. \A h \in 1 .. n + k : h \in 1 .. n \/ (h - n \in 1 .. k /\ ~(h <= n))
  BY <1>2, <1>3
<1>5. \A h \in 1 .. n + k : e(h) \in UaEntry /\ (h \in 1 .. n => e(h) = uaHeap[h]) /\ (h \notin 1 .. n => e(h).mon = 0)
  BY <1>1, <1>2, <1>3, <1>4 DEF UaEntry
<1>6. UaAlloc(specs) = [h \in 1 .. n + k |-> e(h)]
  BY <1>2, <1>3 DEF UaAlloc
<1> HIDE DEF e
<1>7. n + k \in Nat /\ 1 .. n \subseteq 1 .. n + k
  BY <1>2, <1>3
<1>8. [h \in 1 .. n + k |-> e(h)] \in Seq(UaEntry) /\ Len([h \in 1 .. n + k |-> e(h)]) = n + k
  BY <1>5, <1>7
<1> QED
  BY <1>1, <1>2, <1>3, <1>5, <1>6, <1>7, <1>8

-----------------------------------------------------------------------------
\* Start hooks the callback ...
LEMMA UaRegisterKeeps == ASSUME UaInv, UaRegister PROVE UaInv'
<1>1. /\ uaNode = "new" /\ uaNode' = "registered" /\ uaHooked' = TRUE
      /\ UNCHANGED <<uaMode, uaClient, uaSession, uaStateC, uaFill, uaCallers, uaSub, uaItems, uaHeap, uaOp,
                     uaServer, uaIds, uaReaders, uaNote, uaWrong, uaLost>>
  BY DEF UaRegister, uaNodeVars, uaNoteVars
<1>2. UaHandles' = UaHandles /\ UaSubs' = UaSubs
  BY <1>1 DEF UaHandles, UaSubs
<1>3. UaShape'
  BY <1>1, <1>2 DEF UaInv, UaTypes, UaShape
<1>4. UaGiven' /\ UaServerOK'
  BY <1>1, <1>2 DEF UaInv, UaTypes, UaGiven, UaServerOK
<1>5. UaLinked' /\ UaNamed'
  BY <1>1, <1>2 DEF UaInv, UaLinked, UaNamed
<1>6. UaRoles' /\ UaKnown'
  BY <1>1, <1>2 DEF UaInv, UaRoles, UaKnown, UaAt
<1>7. UaTrue' /\ UaMaking'
  BY <1>1 DEF UaTrue, UaLive, UaMaking
<1> QED
  BY <1>3, <1>4, <1>5, <1>6, <1>7 DEF UaInv, UaTypes

\* ... makes stopCh ...
LEMMA UaOpenKeeps == ASSUME UaInv, UaOpen PROVE UaInv'
<1>1. /\ uaNode = "registered" /\ uaNode' = "opened"
      /\ UNCHANGED <<uaMode, uaClient, uaSession, uaStateC, uaFill, uaHooked, uaCallers, uaSub, uaItems, uaHeap,
                     uaOp, uaServer, uaIds, uaReaders, uaNote, uaWrong, uaLost>>
  BY DEF UaOpen, uaLinkVars, uaNodeVars, uaNoteVars
<1>2. UaHandles' = UaHandles /\ UaSubs' = UaSubs
  BY <1>1 DEF UaHandles, UaSubs
<1>3. UaShape'
  BY <1>1, <1>2 DEF UaInv, UaTypes, UaShape
<1>4. UaGiven' /\ UaServerOK'
  BY <1>1, <1>2 DEF UaInv, UaTypes, UaGiven, UaServerOK
<1>5. UaLinked' /\ UaNamed'
  BY <1>1, <1>2 DEF UaInv, UaLinked, UaNamed
<1>6. UaRoles' /\ UaKnown'
  BY <1>1, <1>2 DEF UaInv, UaRoles, UaKnown, UaAt
<1>7. UaTrue' /\ UaMaking'
  BY <1>1, UaMakingBegins DEF UaInv, UaRoles, UaTrue, UaLive
<1> QED
  BY <1>3, <1>4, <1>5, <1>6, <1>7 DEF UaInv, UaTypes

\* ... makes the items of the configuration and calls for the first rebuild.
LEMMA UaStartKeeps == ASSUME UaInv, UaStart PROVE UaInv'
<1>1. /\ uaNode = "opened" /\ uaNode' = "run"
      /\ uaHeap' = (IF uaMode = "static" THEN UaAlloc(UaConfigItems) ELSE uaHeap)
      /\ uaItems' = DOMAIN uaHeap'
      /\ uaCallers' = (IF uaFill = "green" THEN uaCallers + 1 ELSE uaCallers)
      /\ UNCHANGED <<uaMode, uaClient, uaSession, uaStateC, uaFill, uaHooked, uaSub, uaOp,
                     uaServer, uaIds, uaReaders, uaNote, uaWrong, uaLost>>
  BY DEF UaStart, uaNoteVars
<1>2. UaHandles = {} /\ uaItems = {} /\ UaSubs' = UaSubs /\ \A s \in UaSubs : uaServer'[s] = {} /\ uaServer[s] = {}
  <2>1. UaHandles = {} /\ UaSubs' = UaSubs
    BY <1>1 DEF UaInv, UaRoles, UaHandles, UaSubs
  <2> QED
    BY <1>1, <2>1 DEF UaInv, UaTypes, UaShape, UaServerOK
<1>3. uaHeap' \in Seq(UaEntry) /\ \A h \in UaHandles' : uaHeap'[h].mon = 0
  <2>1. CASE uaMode = "static"
    BY <1>1, <1>2, <2>1, UaAllocated, UaAssumption DEF UaInv, UaTypes, UaHandles
  <2>2. CASE uaMode # "static"
    BY <1>1, <1>2, <2>2 DEF UaInv, UaTypes, UaShape, UaHandles
  <2> QED
    BY <2>1, <2>2
<1>4. UaShape'
  BY <1>1, <1>3 DEF UaInv, UaTypes, UaShape, UaHandles
<1>5. UaGiven'
  BY <1>1, <1>2, <1>3 DEF UaInv, UaTypes, UaGiven, UaShape
<1>6. UaServerOK'
  BY <1>1, <1>2 DEF UaInv, UaTypes, UaServerOK
<1>7. UaLinked' /\ UaNamed'
  BY <1>1, <1>2 DEF UaInv, UaLinked, UaNamed
<1>8. UaRoles' /\ UaKnown'
  BY <1>1, <1>2 DEF UaInv, UaRoles, UaKnown, UaAt
<1>9. UaTrue'
  BY <1>1 DEF UaInv, UaTypes, UaShape, UaLinked, UaTrue, UaLive, UaCovered
<1>10. UaMaking'
  <2> SUFFICES ASSUME UaCurrent' PROVE UaMaking'
    BY DEF UaMaking
  <2>1. uaOp["rebuild"].states = {}
    BY <1>2 DEF UaInv, UaTypes, UaGiven, UaOps
  <2>2. uaItems' = uaItems
    BY <1>1, <1>2, <2>1 DEF UaCurrent
  <2> QED
    BY <1>1, <2>2, UaMakingSame DEF UaInv
<1> QED
  BY <1>4, <1>5, <1>6, <1>7, <1>8, <1>9, <1>10 DEF UaInv, UaTypes

-----------------------------------------------------------------------------
\* A caller of rebuildSubscription drops out or begins.
LEMMA UaRebuildKeeps == ASSUME UaInv, UaRebuild PROVE UaInv'
<1>0. /\ uaCallers > 0 /\ uaCallers' = uaCallers - 1
      /\ UNCHANGED <<uaMode, uaClient, uaSession, uaStateC, uaFill, uaHooked, uaNode, uaItems,
                     uaServer, uaIds, uaReaders, uaNote, uaWrong>>
  BY DEF UaRebuild, uaNoteVars
<1>1. uaCallers' \in Nat /\ UaSubs' = UaSubs
  BY <1>0 DEF UaInv, UaTypes, UaShape, UaSubs
<1>2. UaLinked'
  BY <1>0 DEF UaInv, UaLinked
<1>3. CASE ~UaAt("rebuild", "idle") \/ uaClient # "open"
  <2>1. /\ UNCHANGED <<uaSub, uaHeap, uaOp>> /\ uaLost' \in BOOLEAN /\ (uaLost => uaLost')
        /\ (~uaLost' /\ ~UaAt("rebuild", "idle") => UaCurrent)
    BY <1>3 DEF UaRebuild, UaInv, UaTypes, UaShape
  <2>2. UaHandles' = UaHandles
    BY <2>1 DEF UaHandles
  <2>3. UaShape'
    BY <1>0, <1>1, <2>1, <2>2 DEF UaInv, UaTypes, UaShape
  <2>4. UaGiven' /\ UaServerOK'
    BY <1>0, <1>1, <2>1, <2>2 DEF UaInv, UaTypes, UaGiven, UaServerOK
  <2>5. UaNamed' /\ UaRoles'
    BY <1>0, <1>1, <2>1, <2>2 DEF UaInv, UaNamed, UaRoles
  <2>6. UaKnown'
    BY <1>0, <1>1, <2>1 DEF UaInv, UaKnown, UaAt
  <2>7. UaTrue'
    <3> SUFFICES ASSUME UaLive' PROVE UaRebuilding' /\ UaControlling'
      BY DEF UaTrue
    <3>1. ~UaAt("rebuild", "idle") /\ ~uaLost'
      BY <1>0, <1>3 DEF UaLive, UaInv, UaLinked
    <3>2. UaCurrent'
      BY <1>0, <1>1, <2>1, <3>1 DEF UaCurrent
    <3> QED
      BY <2>1, <3>1, <3>2 DEF UaRebuilding, UaControlling, UaAt
  <2>8. UaMaking'
    BY <1>0, <2>1, UaMakingSame DEF UaInv
  <2> QED
    BY <1>2, <2>3, <2>4, <2>5, <2>6, <2>7, <2>8 DEF UaInv, UaTypes
<1>4. CASE UaAt("rebuild", "idle") /\ uaClient = "open"
  <2> DEFINE r == [step |-> "cancel", sub |-> uaSub, old |-> {}, states |-> uaItems, stop |-> uaNode \in {"opened", "run"}]
  <2>1. /\ uaSub' = 0 /\ uaLost' = (uaLost \/ ~UaAt("control", "idle"))
        /\ uaHeap' = [h \in UaHandles |-> IF h \in uaItems THEN [uaHeap[h] EXCEPT !.mon = 0] ELSE uaHeap[h]]
        /\ uaOp' = [uaOp EXCEPT !["rebuild"] = r]
    BY <1>4 DEF UaRebuild
  <2>2. r \in UaOpRec /\ r.step = "cancel" /\ r.sub = uaSub /\ r.states = uaItems /\ (r.stop <=> uaNode \in {"opened", "run"})
    <3>1. uaItems \in SUBSET Nat /\ uaSub \in Nat /\ "cancel" \in UaSteps /\ {} \in SUBSET (UaMonitored \cup Nat)
      BY LenProperties DEF UaInv, UaTypes, UaShape, UaHandles, UaSteps
    <3>2. (uaNode \in {"opened", "run"}) \in BOOLEAN
      OBVIOUS
    <3> QED
      BY <3>1, <3>2 DEF UaOpRec
  <2> HIDE DEF r
  <2>3. /\ uaOp' \in [UaOps -> UaOpRec] /\ uaOp'["rebuild"] = r /\ "rebuild" \in UaOps
        /\ \A b \in UaOps \ {"rebuild"} : uaOp'[b] = uaOp[b]
    BY <2>1, <2>2, UaSetOp DEF UaInv, UaTypes, UaOps
  <2>4. /\ Len(uaHeap) \in Nat /\ UaHandles = 1 .. Len(uaHeap)
        /\ \A h \in UaHandles : uaHeap[h] \in UaEntry
    BY LenProperties, ElementOfSeq DEF UaInv, UaTypes, UaShape, UaHandles
  <2>5. /\ \A h \in UaHandles : uaHeap'[h] \in UaEntry /\ uaHeap'[h].node = uaHeap[h].node
        /\ \A h \in UaHandles : uaHeap'[h].mon = uaHeap[h].mon \/ uaHeap'[h].mon = 0
        /\ DOMAIN uaHeap' = UaHandles
    BY <2>1, <2>4 DEF UaEntry
  <2>6. uaHeap' \in Seq(UaEntry) /\ UaHandles' = UaHandles
    <3>1. uaHeap' = [h \in 1 .. Len(uaHeap) |-> uaHeap'[h]]
      BY <2>1, <2>4
    <3>2. [h \in 1 .. Len(uaHeap) |-> uaHeap'[h]] \in Seq(UaEntry)
      BY <2>4, <2>5
    <3> QED
      BY <2>5, <3>1, <3>2 DEF UaHandles
  <2>7. uaLost' \in BOOLEAN /\ (~uaLost' => ~uaLost /\ UaAt("control", "idle"))
    BY <2>1 DEF UaInv, UaTypes, UaShape
  <2>8. UaShape'
    BY <1>0, <1>1, <2>1, <2>3, <2>6, <2>7 DEF UaInv, UaTypes, UaShape
  <2>9. UaGiven'
    <3>1. \A h \in UaHandles' : uaHeap'[h].mon <= uaIds'
      BY <1>0, <2>5, <2>6 DEF UaInv, UaTypes, UaGiven, UaShape
    <3>2. uaSub <= uaIds
      BY DEF UaInv, UaTypes, UaGiven
    <3>3. \A a \in UaOps : uaOp'[a].states \subseteq UaHandles' /\ uaOp'[a].sub <= uaIds'
      BY <1>0, <2>2, <2>3, <2>6, <3>2 DEF UaInv, UaTypes, UaGiven, UaShape
    <3> QED
      BY <1>0, <2>1, <2>2, <2>3, <3>1, <3>3 DEF UaInv, UaTypes, UaGiven, UaShape
  <2>10. UaServerOK'
    BY <1>0, <1>1, <2>6 DEF UaInv, UaTypes, UaServerOK
  <2>11. UaNamed'
    BY <1>0, <2>5, <2>6 DEF UaInv, UaNamed
  <2>12. UaRoles'
    <3>1. uaHeap = <<>> => uaHeap' = <<>>
      BY <2>4, <2>6, EmptySeq, LenProperties DEF UaHandles
    <3> QED
      BY <1>0, <1>1, <2>1, <2>2, <2>3, <3>1 DEF UaInv, UaRoles, UaOps
  <2>13. UaKnown'
    BY <1>0, <1>1, <1>4, <2>1, <2>2, <2>3, <2>7 DEF UaInv, UaKnown, UaAt, UaOps
  <2>14. UaTrue'
    BY <1>0, <2>2, <2>3 DEF UaTrue, UaLive, UaRebuilding, UaCurrent, UaControlling
  <2>15. UaMaking'
    BY <2>2, <2>3, UaMakingBegins
  <2> QED
    BY <1>2, <2>8, <2>9, <2>10, <2>11, <2>12, <2>13, <2>14, <2>15 DEF UaInv, UaTypes
<1> QED
  BY <1>3, <1>4

\* The rebuild cancels the old subscription.
LEMMA UaCancelOldKeeps == ASSUME UaInv, UaCancelOld PROVE UaInv'
<1>0. /\ uaOp["rebuild"].step = "cancel"
      /\ \/ uaServer' = UaForget(uaOp["rebuild"].sub) /\ uaLost' = uaLost
         \/ uaServer' = uaServer /\ uaLost' = TRUE
      /\ UNCHANGED <<uaMode, uaClient, uaSession, uaStateC, uaFill, uaHooked, uaCallers, uaNode, uaSub,
                     uaItems, uaHeap, uaIds, uaReaders, uaNote, uaWrong>>
  BY DEF UaCancelOld, UaServed, UaAt, uaLinkVars, uaNodeVars, uaNoteVars
<1>1. /\ uaOp' \in [UaOps -> UaOpRec] /\ \A b \in UaOps \ {"rebuild"} : uaOp'[b] = uaOp[b]
      /\ \/ uaOp'["rebuild"].step = "idle" /\ uaOp'["rebuild"].sub = 0 /\ uaOp'["rebuild"].states = {}
            /\ ~uaOp["rebuild"].stop /\ ~uaOp'["rebuild"].stop
         \/ /\ uaOp["rebuild"].stop /\ uaOp'["rebuild"].step = "subscribe" /\ uaOp'["rebuild"].sub = uaOp["rebuild"].sub
            /\ uaOp'["rebuild"].states = uaOp["rebuild"].states /\ uaOp'["rebuild"].stop = uaOp["rebuild"].stop
  <2>1. "rebuild" \in UaOps /\ "subscribe" \in UaSteps /\ UaShape
    BY DEF UaInv, UaTypes, UaOps, UaSteps
  <2>2. CASE uaOp["rebuild"].stop
    BY <2>1, <2>2, UaStepTo DEF UaCancelOld, UaGoto
  <2>3. CASE ~uaOp["rebuild"].stop
    BY <2>1, <2>3, UaSetOp, UaIdleIs DEF UaCancelOld, UaDone
  <2> QED
    BY <2>2, <2>3
<1>2. /\ UaHandles' = UaHandles /\ UaSubs' \subseteq UaSubs /\ \A s \in UaSubs' : uaServer'[s] = uaServer[s]
      /\ uaLost' \in BOOLEAN /\ (~uaLost' => ~uaLost /\ UaSubs' = UaSubs \ {uaOp["rebuild"].sub})
  BY <1>0 DEF UaHandles, UaSubs, UaForget, UaInv, UaTypes, UaShape
<1>3. UaShape'
  BY <1>0, <1>1, <1>2 DEF UaInv, UaTypes, UaShape
<1>4. UaGiven'
  BY <1>0, <1>1, <1>2 DEF UaInv, UaTypes, UaGiven, UaShape
<1>5. UaServerOK'
  BY <1>0, <1>2 DEF UaInv, UaTypes, UaServerOK
<1>6. UaLinked' /\ UaNamed'
  BY <1>0, <1>2 DEF UaInv, UaLinked, UaNamed
<1>7. UaRoles'
  BY <1>0, <1>1, <1>2 DEF UaInv, UaRoles, UaOps
<1>8. UaKnown'
  BY <1>0, <1>1, <1>2 DEF UaInv, UaKnown, UaAt, UaOps
<1>9. UaTrue'
  <2> SUFFICES ASSUME UaLive' PROVE UaRebuilding' /\ UaControlling'
    BY DEF UaTrue
  <2>1. UaRebuilding
    BY <1>0, <1>2 DEF UaInv, UaTrue, UaLive, UaCovered
  <2> QED
    BY <1>0, <1>1, <2>1 DEF UaRebuilding, UaCurrent, UaControlling
<1>10. UaMaking'
  BY <1>1, UaMakingBegins
<1> QED
  BY <1>3, <1>4, <1>5, <1>6, <1>7, <1>8, <1>9, <1>10 DEF UaInv, UaTypes

\* The rebuild subscribes.
LEMMA UaSubscribeKeeps == ASSUME UaInv, UaSubscribe PROVE UaInv'
<1>0. /\ uaOp["rebuild"].step = "subscribe" /\ "rebuild" \in UaOps /\ "store" \in UaSteps /\ UaShape
      /\ UNCHANGED <<uaMode, uaClient, uaSession, uaStateC, uaFill, uaHooked, uaCallers, uaNode, uaSub,
                     uaItems, uaHeap, uaReaders, uaNote, uaWrong>>
  BY DEF UaSubscribe, UaAt, uaLinkVars, uaNodeVars, uaNoteVars, UaInv, UaTypes, UaOps, UaSteps
<1>1. UaHandles' = UaHandles
  BY <1>0 DEF UaHandles
<1>2. UaLinked' /\ UaNamed'
  BY <1>0, <1>1 DEF UaInv, UaLinked, UaNamed
<1>3. CASE /\ uaSession /\ uaIds' = uaIds + 1
           /\ uaServer' = [s \in UaSubs \cup {uaIds'} |-> IF s \in UaSubs THEN uaServer[s] ELSE {}]
           /\ uaOp' = [uaOp EXCEPT !["rebuild"].step = "store", !["rebuild"].sub = uaIds']
           /\ UNCHANGED uaLost
  <2>1. PICK n \in Nat : n = uaIds + 1 /\ n = uaIds' /\ n > 0 /\ uaIds \in Nat
    BY <1>0, <1>3 DEF UaShape
  <2>2. /\ uaOp' \in [UaOps -> UaOpRec] /\ \A b \in UaOps \ {"rebuild"} : uaOp'[b] = uaOp[b]
        /\ uaOp'["rebuild"].step = "store" /\ uaOp'["rebuild"].sub = n
        /\ uaOp'["rebuild"].states = uaOp["rebuild"].states /\ uaOp'["rebuild"].stop = uaOp["rebuild"].stop
    <3>1. uaOp' = [uaOp EXCEPT !["rebuild"].step = "store", !["rebuild"].sub = n]
      BY <1>3, <2>1
    <3> QED
      BY <1>0, <3>1, UaSubTo
  <2>3. UaSubs \subseteq 1 .. uaIds /\ n \notin UaSubs
    BY <2>1 DEF UaInv, UaTypes, UaServerOK
  <2>4. /\ UaSubs' = UaSubs \cup {n} /\ uaServer'[n] = {}
        /\ \A s \in UaSubs : uaServer'[s] = uaServer[s]
    BY <1>3, <2>1, <2>3 DEF UaSubs
  <2>5. UaShape'
    BY <1>0, <1>1, <1>3, <2>1, <2>2 DEF UaShape
  <2>6. (\A x \in Nat : x <= uaIds => x <= n) /\ n \in 1 .. n /\ 1 .. uaIds \subseteq 1 .. n
    BY <2>1
  <2>7. UaGiven'
    <3>1. \A h \in UaHandles : uaHeap[h].mon \in Nat
      <4>1. \A h \in UaHandles : uaHeap[h] \in UaEntry
        BY <1>0, LenProperties, ElementOfSeq DEF UaShape, UaHandles
      <4> QED
        BY <4>1 DEF UaEntry
    <3>2. \A h \in UaHandles' : uaHeap'[h].mon <= uaIds'
      BY <1>0, <1>1, <2>1, <2>6, <3>1 DEF UaInv, UaTypes, UaGiven
    <3>3. \A a \in UaOps : uaOp'[a].states \subseteq UaHandles' /\ uaOp'[a].sub <= uaIds'
      <4>1. \A a \in UaOps : uaOp[a].sub \in Nat
        BY <1>0 DEF UaShape, UaOpRec
      <4> QED
        BY <1>1, <2>1, <2>2, <2>6, <4>1 DEF UaInv, UaTypes, UaGiven
    <3>4. \A a \in UaOps : uaOp'[a].step = "stitch" => \A m \in uaOp'[a].old : m \in UaMonitored /\ m.id \in 1 .. uaIds'
      BY <2>1, <2>2, <2>6 DEF UaInv, UaTypes, UaGiven
    <3>5. uaReaders' \subseteq 1 .. uaIds' /\ uaSub' <= uaIds'
      BY <1>0, <2>1, <2>6 DEF UaShape, UaInv, UaTypes, UaGiven
    <3> QED
      BY <2>1, <2>2, <3>2, <3>3, <3>4, <3>5 DEF UaGiven
  <2>8. UaServerOK'
    <3>1. UaSubs' \subseteq 1 .. uaIds'
      BY <2>1, <2>3, <2>4, <2>6
    <3>2. \A s \in UaSubs' : \A m \in uaServer'[s] : s \in UaSubs /\ m \in uaServer[s]
      BY <2>4
    <3>3. \A s \in UaSubs' : \A m \in uaServer'[s] : m \in UaMonitored /\ m.id \in 1 .. uaIds' /\ m.handle \in UaHandles'
      BY <1>1, <2>1, <2>6, <3>2 DEF UaInv, UaTypes, UaServerOK
    <3>4. \A s \in UaSubs' : \A m, k \in uaServer'[s] : m.id = k.id => m = k
      BY <3>2 DEF UaInv, UaTypes, UaServerOK
    <3> QED
      BY <3>1, <3>3, <3>4 DEF UaServerOK
  <2>9. UaRoles'
    BY <1>0, <1>3, <2>2 DEF UaInv, UaRoles, UaOps
  <2>10. UaKnown'
    BY <1>0, <1>3, <2>2, <2>4 DEF UaInv, UaKnown, UaAt, UaOps
  <2>11. UaTrue'
    <3> SUFFICES ASSUME UaLive' PROVE UaRebuilding' /\ UaControlling'
      BY DEF UaTrue
    <3>1. UaRebuilding
      BY <1>0, <1>3 DEF UaInv, UaTrue, UaLive, UaCovered
    <3> QED
      BY <1>0, <2>2, <2>4, <3>1 DEF UaRebuilding, UaCurrent, UaControlling
  <2>12. UaMaking'
    <3> SUFFICES ASSUME ~uaLost', uaNode' \in {"opened", "run"} PROVE UaMaking'
      BY DEF UaMaking
    <3>1. uaSub = 0 /\ uaOp["stop"].step = "idle" /\ ~uaLost
      BY <1>0, <1>3 DEF UaInv, UaKnown, UaRoles
    <3>2. UaSubs = {}
      BY <1>0, <2>1, <2>3, <3>1 DEF UaInv, UaKnown, UaAt
    <3> QED
      BY <2>2, <2>4, <3>2 DEF UaMaking
  <2> QED
    BY <1>2, <2>5, <2>7, <2>8, <2>9, <2>10, <2>11, <2>12 DEF UaInv, UaTypes
<1>4. CASE UaDone("rebuild") /\ UNCHANGED <<uaServer, uaIds>> /\ uaLost' = (uaLost \/ uaSession)
  <2>1. uaLost' \in BOOLEAN /\ (~uaLost' => ~uaLost /\ ~uaSession)
    BY <1>0, <1>4 DEF UaShape
  <2>2. /\ uaOp' \in [UaOps -> UaOpRec] /\ \A b \in UaOps \ {"rebuild"} : uaOp'[b] = uaOp[b]
        /\ uaOp'["rebuild"].step = "idle" /\ uaOp'["rebuild"].sub = 0 /\ uaOp'["rebuild"].states = {}
        /\ ~uaOp'["rebuild"].stop
    BY <1>0, <1>4, UaSetOp, UaIdleIs DEF UaDone
  <2>3. UaSubs' = UaSubs
    BY <1>4 DEF UaSubs
  <2>4. UaShape'
    BY <1>0, <1>1, <1>4, <2>1, <2>2 DEF UaShape
  <2>5. UaGiven' /\ UaServerOK'
    BY <1>0, <1>1, <1>4, <2>2, <2>3 DEF UaInv, UaTypes, UaShape, UaGiven, UaServerOK
  <2>6. UaRoles'
    BY <1>0, <1>4, <2>2, <2>3 DEF UaInv, UaRoles, UaOps
  <2>7. UaKnown'
    BY <1>0, <2>1, <2>2, <2>3 DEF UaInv, UaKnown, UaAt, UaOps
  <2>8. UaTrue' /\ UaMaking'
    BY <1>0, <2>1, <2>2, UaMakingBegins DEF UaTrue, UaLive
  <2> QED
    BY <1>2, <2>4, <2>5, <2>6, <2>7, <2>8 DEF UaInv, UaTypes
<1> QED
  BY <1>3, <1>4 DEF UaSubscribe

\* The rebuild stores its subscription.
LEMMA UaStoreKeeps == ASSUME UaInv, UaStore PROVE UaInv'
<1>0. /\ uaOp["rebuild"].step = "store" /\ uaSub' = uaOp["rebuild"].sub /\ uaReaders' = uaReaders \cup {uaSub'}
      /\ uaLost' = (uaLost \/ uaNode = "stopped") /\ uaOp' = [uaOp EXCEPT !["rebuild"].step = "monitor"]
      /\ UNCHANGED <<uaMode, uaClient, uaSession, uaStateC, uaFill, uaHooked, uaCallers, uaNode,
                     uaItems, uaHeap, uaServer, uaIds, uaNote, uaWrong>>
      /\ "rebuild" \in UaOps /\ "monitor" \in UaSteps /\ UaShape
  BY DEF UaStore, UaAt, UaGoto, uaLinkVars, UaInv, UaTypes, UaOps, UaSteps
<1>1. /\ uaOp' \in [UaOps -> UaOpRec] /\ \A b \in UaOps \ {"rebuild"} : uaOp'[b] = uaOp[b]
      /\ uaOp'["rebuild"].step = "monitor" /\ uaOp'["rebuild"].sub = uaOp["rebuild"].sub
      /\ uaOp'["rebuild"].states = uaOp["rebuild"].states /\ uaOp'["rebuild"].stop = uaOp["rebuild"].stop
  BY <1>0, UaStepTo
<1>2. UaHandles' = UaHandles /\ UaSubs' = UaSubs
  BY <1>0 DEF UaHandles, UaSubs
<1>3. uaLost' \in BOOLEAN /\ (~uaLost' => ~uaLost /\ uaNode # "stopped")
  BY <1>0 DEF UaShape
<1>4. uaOp["rebuild"].sub \in 1 .. uaIds /\ uaOp["rebuild"].sub \in Nat
  BY <1>0 DEF UaInv, UaTypes, UaGiven, UaShape, UaOpRec
<1>5. UaShape'
  BY <1>0, <1>1, <1>2, <1>3, <1>4 DEF UaShape
<1>6. UaGiven'
  <2>1. uaReaders' \subseteq 1 .. uaIds' /\ uaSub' <= uaIds'
    BY <1>0, <1>4 DEF UaInv, UaTypes, UaGiven
  <2> QED
    BY <1>0, <1>1, <1>2, <2>1 DEF UaInv, UaTypes, UaGiven
<1>7. UaServerOK'
  BY <1>0, <1>2 DEF UaInv, UaTypes, UaServerOK
<1>8. UaLinked' /\ UaNamed'
  BY <1>0, <1>2 DEF UaInv, UaLinked, UaNamed
<1>9. UaRoles'
  BY <1>0, <1>1, <1>2 DEF UaInv, UaRoles, UaOps
<1>10. UaKnown'
  <2> SUFFICES ASSUME ~uaLost' PROVE UaKnown'
    BY DEF UaKnown
  <2>1. uaSub = 0 /\ uaOp["control"].step = "idle" /\ uaOp["stop"].step = "idle" /\ uaNode # "stopped"
    BY <1>0, <1>3 DEF UaInv, UaKnown, UaRoles, UaAt
  <2>2. \A s \in UaSubs : s = uaSub'
    BY <1>0, <1>3, <2>1 DEF UaInv, UaTypes, UaKnown, UaAt, UaServerOK
  <2> QED
    BY <1>0, <1>1, <1>2, <2>1, <2>2 DEF UaKnown, UaAt, UaOps
<1>11. UaTrue'
  <2> SUFFICES ASSUME UaLive' PROVE UaRebuilding' /\ UaControlling'
    BY DEF UaTrue
  <2>1. UaRebuilding
    BY <1>0, <1>3 DEF UaInv, UaTrue, UaLive, UaCovered
  <2> QED
    BY <1>0, <1>1, <1>2, <2>1 DEF UaRebuilding, UaCurrent, UaControlling
<1>12. UaMaking'
  BY <1>0, <1>1, <1>2, <1>3 DEF UaInv, UaMaking, UaCurrent
<1> QED
  BY <1>5, <1>6, <1>7, <1>8, <1>9, <1>10, <1>11, <1>12 DEF UaInv, UaTypes

\* Stop takes the subscription ...
LEMMA UaStopKeeps == ASSUME UaInv, UaStop PROVE UaInv'
<1>0. /\ uaNode = "run" /\ uaNode' = "stopped" /\ uaSub' = 0
      /\ uaOp' = [uaOp EXCEPT !["stop"].step = "cancel", !["stop"].sub = uaSub]
      /\ UNCHANGED <<uaMode, uaClient, uaSession, uaStateC, uaFill, uaHooked, uaCallers,
                     uaItems, uaHeap, uaServer, uaIds, uaReaders, uaNote, uaWrong, uaLost>>
      /\ "stop" \in UaOps /\ UaShape /\ uaSub \in Nat
  BY DEF UaStop, uaLinkVars, uaNoteVars, UaInv, UaTypes, UaShape, UaOps
<1>1. /\ uaOp' \in [UaOps -> UaOpRec] /\ \A b \in UaOps \ {"stop"} : uaOp'[b] = uaOp[b]
      /\ uaOp'["stop"].step = "cancel" /\ uaOp'["stop"].sub = uaSub
      /\ uaOp'["stop"].states = uaOp["stop"].states
  <2>1. PICK q \in UaOpRec : q = uaOp["stop"]
    BY <1>0 DEF UaShape
  <2> DEFINE r == [q EXCEPT !.step = "cancel", !.sub = uaSub]
  <2>2. r \in UaOpRec
    BY <1>0 DEF UaOpRec, UaSteps
  <2>3. r.step = "cancel" /\ r.sub = uaSub /\ r.states = q.states
    BY DEF UaOpRec
  <2>4. uaOp' = [uaOp EXCEPT !["stop"] = r]
    BY <1>0, <2>1
  <2> HIDE DEF r
  <2>5. uaOp' \in [UaOps -> UaOpRec] /\ uaOp'["stop"] = r /\ \A b \in UaOps \ {"stop"} : uaOp'[b] = uaOp[b]
    BY <1>0, <2>2, <2>4, UaSetOp
  <2> QED
    BY <2>1, <2>3, <2>5
<1>2. UaHandles' = UaHandles /\ UaSubs' = UaSubs
  BY <1>0 DEF UaHandles, UaSubs
<1>3. UaShape'
  BY <1>0, <1>1, <1>2 DEF UaShape
<1>4. UaGiven'
  <2>1. UaGiven /\ 0 <= uaIds
    BY <1>0 DEF UaInv, UaTypes, UaShape
  <2>2. \A a \in UaOps : uaOp'[a].states \subseteq UaHandles /\ uaOp'[a].sub <= uaIds
    BY <1>0, <1>1, <2>1 DEF UaGiven
  <2>3. \A a \in UaOps : uaOp'[a].step = "stitch" => uaOp'[a] = uaOp[a]
    BY <1>1
  <2>4. uaOp'["rebuild"] = uaOp["rebuild"]
    BY <1>1 DEF UaOps
  <2> QED
    BY <1>0, <1>2, <2>1, <2>2, <2>3, <2>4 DEF UaGiven
<1>5. UaServerOK'
  BY <1>0, <1>2 DEF UaInv, UaTypes, UaServerOK
<1>6. UaLinked' /\ UaNamed'
  BY <1>0, <1>2 DEF UaInv, UaLinked, UaNamed
<1>7. UaRoles'
  BY <1>0, <1>1, <1>2 DEF UaInv, UaRoles, UaOps
<1>8. UaKnown'
  BY <1>0, <1>1, <1>2 DEF UaInv, UaKnown, UaAt, UaOps, UaRoles
<1>9. UaTrue' /\ UaMaking'
  BY <1>0 DEF UaTrue, UaLive, UaMaking
<1> QED
  BY <1>3, <1>4, <1>5, <1>6, <1>7, <1>8, <1>9 DEF UaInv, UaTypes

\* ... and cancels it.
LEMMA UaStopCancelKeeps == ASSUME UaInv, UaStopCancel PROVE UaInv'
<1>0. /\ uaOp["stop"].step = "cancel"
      /\ \/ uaServer' = UaForget(uaOp["stop"].sub) /\ uaLost' = uaLost
         \/ uaServer' = uaServer /\ uaLost' = TRUE
      /\ uaOp' = [uaOp EXCEPT !["stop"] = UaIdle]
      /\ UNCHANGED <<uaMode, uaClient, uaSession, uaStateC, uaFill, uaHooked, uaCallers, uaNode, uaSub,
                     uaItems, uaHeap, uaIds, uaReaders, uaNote, uaWrong>>
      /\ "stop" \in UaOps /\ UaShape /\ uaNode = "stopped"
  BY DEF UaStopCancel, UaServed, UaAt, UaDone, uaLinkVars, uaNodeVars, uaNoteVars, UaInv, UaTypes, UaOps, UaRoles
<1>1. /\ uaOp' \in [UaOps -> UaOpRec] /\ uaOp'["stop"] = UaIdle
      /\ \A b \in UaOps \ {"stop"} : uaOp'[b] = uaOp[b]
  BY <1>0, UaSetOp, UaIdleIs
<1>2. /\ UaHandles' = UaHandles /\ UaSubs' \subseteq UaSubs /\ \A s \in UaSubs' : uaServer'[s] = uaServer[s]
      /\ uaLost' \in BOOLEAN /\ (~uaLost' => ~uaLost /\ UaSubs' = UaSubs \ {uaOp["stop"].sub})
  <2>0. UaHandles' = UaHandles /\ uaLost \in BOOLEAN
    BY <1>0 DEF UaHandles, UaShape
  <2>1. CASE uaServer' = UaForget(uaOp["stop"].sub) /\ uaLost' = uaLost
    BY <2>0, <2>1 DEF UaSubs, UaForget
  <2>2. CASE uaServer' = uaServer /\ uaLost' = TRUE
    BY <2>0, <2>2 DEF UaSubs
  <2> QED
    BY <1>0, <2>1, <2>2
<1>3. UaShape'
  BY <1>0, <1>1, <1>2 DEF UaShape
<1>4. UaGiven'
  BY <1>0, <1>1, <1>2, UaIdleIs DEF UaInv, UaTypes, UaGiven, UaShape
<1>5. UaServerOK'
  BY <1>0, <1>2 DEF UaInv, UaTypes, UaServerOK
<1>6. UaLinked' /\ UaNamed'
  BY <1>0, <1>2 DEF UaInv, UaLinked, UaNamed
<1>7. UaRoles'
  BY <1>0, <1>1, <1>2, UaIdleIs DEF UaInv, UaRoles, UaOps
<1>8. UaKnown'
  BY <1>0, <1>1, <1>2, UaIdleIs DEF UaInv, UaKnown, UaAt, UaOps
<1>9. UaTrue' /\ UaMaking'
  BY <1>0 DEF UaTrue, UaLive, UaMaking
<1> QED
  BY <1>3, <1>4, <1>5, <1>6, <1>7, <1>8, <1>9 DEF UaInv, UaTypes

\* Notifications touch nothing the node or the server holds.
LEMMA UaNotesKeep == ASSUME UaInv, UaPublish \/ UaConsume \/ UaConsumerReturns PROVE UaInv'
<1>0. UNCHANGED <<uaMode, uaClient, uaSession, uaStateC, uaFill, uaHooked, uaCallers, uaNode, uaSub,
                  uaItems, uaHeap, uaOp, uaServer, uaIds, uaLost>>
  BY DEF UaPublish, UaConsume, UaConsumerReturns, uaLinkVars, uaNodeVars
<1>1. UaHandles' = UaHandles /\ UaSubs' = UaSubs /\ uaReaders' \subseteq uaReaders
  BY <1>0 DEF UaHandles, UaSubs, UaPublish, UaConsume, UaConsumerReturns
<1>2. UaShape'
  BY <1>0, <1>1 DEF UaInv, UaTypes, UaShape
<1>3. UaGiven' /\ UaServerOK'
  BY <1>0, <1>1 DEF UaInv, UaTypes, UaGiven, UaServerOK
<1>4. UaNamed'
  <2>1. CASE UaPublish
    <3>1. PICK s \in UaSubs : \E m \in uaServer[s] :
            uaNote' = [sub |-> s, handle |-> m.handle, of |-> uaHeap[m.handle].node]
      BY <2>1 DEF UaPublish
    <3>2. PICK m \in uaServer[s] : uaNote' = [sub |-> s, handle |-> m.handle, of |-> uaHeap[m.handle].node]
      BY <3>1
    <3>3. m.handle \in UaHandles
      BY DEF UaInv, UaTypes, UaServerOK
    <3>4. uaNote'.handle = m.handle /\ uaNote'.of = uaHeap[m.handle].node /\ uaWrong' = uaWrong
      BY <2>1, <3>2 DEF UaPublish
    <3> QED
      BY <1>0, <1>1, <3>3, <3>4 DEF UaInv, UaNamed
  <2>2. CASE UaConsume
    <3>1. uaNote # UaNoNote
      <4>1. UaNoNote.sub = 0 /\ 0 \notin uaReaders
        BY DEF UaNoNote, UaInv, UaTypes, UaGiven, UaShape
      <4> QED
        BY <2>2, <4>1 DEF UaConsume
    <3>2. {i \in uaItems : i = uaNote.handle /\ uaHeap[i].node # uaNote.of} = {}
      BY <3>1 DEF UaInv, UaNamed
    <3>3. uaWrong' = {} /\ uaNote' = UaNoNote
      BY <2>2, <3>2 DEF UaConsume, UaInv, UaNamed
    <3> QED
      BY <3>3 DEF UaNamed
  <2>3. CASE UaConsumerReturns
    BY <1>0, <1>1, <2>3 DEF UaConsumerReturns, UaInv, UaNamed
  <2> QED
    BY <2>1, <2>2, <2>3
<1>5. UaLinked' /\ UaRoles'
  BY <1>0, <1>1 DEF UaInv, UaLinked, UaRoles
<1>6. UaKnown'
  BY <1>0, <1>1 DEF UaInv, UaKnown, UaAt
<1>7. UaTrue'
  BY <1>0, <1>1 DEF UaInv, UaTrue, UaLive, UaCovered, UaRebuilding, UaCurrent, UaControlling
<1>8. UaMaking'
  BY <1>0, UaMakingSame DEF UaInv
<1> QED
  BY <1>2, <1>3, <1>4, <1>5, <1>6, <1>7, <1>8 DEF UaInv, UaTypes

-----------------------------------------------------------------------------
\* The place of a handle in a request.
UaRankOf(st, h) == Cardinality({g \in st : g <= h})

\* Places are 1, 2 and so on, no two handles have the same.
LEMMA UaRanks ==
  ASSUME NEW st \in SUBSET Nat, IsFiniteSet(st)
  PROVE  /\ Cardinality(st) \in Nat
         /\ \A h \in st : UaRankOf(st, h) \in 1 .. Cardinality(st)
         /\ \A h, k \in st : UaRankOf(st, h) = UaRankOf(st, k) => h = k
<1> DEFINE upTo(h) == {g \in st : g <= h}
<1>1. \A h \in st : upTo(h) \subseteq st /\ h \in upTo(h)
  OBVIOUS
<1>2. \A h \in st : /\ IsFiniteSet(upTo(h)) /\ Cardinality(upTo(h)) \in Nat
                    /\ Cardinality(upTo(h)) <= Cardinality(st) /\ Cardinality(upTo(h)) # 0
  BY <1>1, FS_Subset, FS_CardinalityType, FS_EmptySet
<1>3. Cardinality(st) \in Nat
  BY FS_CardinalityType
<1>4. ASSUME NEW h \in st, NEW k \in st, h < k PROVE Cardinality(upTo(h)) # Cardinality(upTo(k))
  <2>1. upTo(h) \subseteq upTo(k) /\ k \notin upTo(h) /\ k \in upTo(k)
    <3>1. h \in Nat /\ k \in Nat /\ ~(k <= h) /\ k <= k
      BY <1>4
    <3>2. \A g \in st : g \in Nat /\ (g <= h => g <= k)
      BY <1>4, <3>1
    <3> QED
      BY <3>1, <3>2
  <2>2. upTo(h) # upTo(k)
    BY <2>1
  <2> HIDE DEF upTo
  <2> QED
    BY <1>2, <2>1, <2>2, FS_Subset
<1>5. \A h \in st : UaRankOf(st, h) = Cardinality(upTo(h))
  BY DEF UaRankOf
<1> HIDE DEF upTo
<1>6. \A h \in st : UaRankOf(st, h) \in 1 .. Cardinality(st)
  BY <1>2, <1>3, <1>5
<1>7. ASSUME NEW h \in st, NEW k \in st, UaRankOf(st, h) = UaRankOf(st, k) PROVE h = k
  <2>1. ~(h < k) /\ ~(k < h)
    BY <1>4, <1>5, <1>7
  <2> QED
    BY <2>1
<1> QED
  BY <1>3, <1>6, <1>7

\* The items the server makes have new ids, no two the same.
UaNew(ids, st) == {[id |-> ids + UaRankOf(st, h), handle |-> h] : h \in st}

\* The server makes one item for each handle, with an id of its own.
LEMMA UaNewItems ==
  ASSUME NEW ids \in Nat, NEW st \in SUBSET Nat, IsFiniteSet(st)
  PROVE  /\ Cardinality(st) \in Nat
         /\ \A m \in UaNew(ids, st) : /\ m \in UaMonitored /\ m.handle \in st
                                      /\ m.id \in 1 .. ids + Cardinality(st) /\ m.id > ids
         /\ \A m, k \in UaNew(ids, st) : m.id = k.id => m = k
         /\ UaAnswers(UaNew(ids, st), st)
<1>1. /\ Cardinality(st) \in Nat
      /\ \A h \in st : UaRankOf(st, h) \in 1 .. Cardinality(st)
      /\ \A h, k \in st : UaRankOf(st, h) = UaRankOf(st, k) => h = k
  BY UaRanks
<1> DEFINE e(h) == [id |-> ids + UaRankOf(st, h), handle |-> h]
<1>2. \A h \in st : /\ e(h) \in UaMonitored /\ e(h).handle = h /\ e(h).id = ids + UaRankOf(st, h)
                    /\ e(h).id \in 1 .. ids + Cardinality(st) /\ e(h).id > ids
  BY <1>1 DEF UaMonitored
<1>3. ASSUME NEW h \in st, NEW k \in st, e(h).id = e(k).id PROVE h = k
  <2>1. ids + UaRankOf(st, h) = ids + UaRankOf(st, k)
    BY <1>2, <1>3
  <2>2. UaRankOf(st, h) \in Nat /\ UaRankOf(st, k) \in Nat
    BY <1>1
  <2>3. UaRankOf(st, h) = UaRankOf(st, k)
    BY <2>1, <2>2
  <2> QED
    BY <1>1, <2>3
<1>4. UaNew(ids, st) = {e(h) : h \in st}
  BY DEF UaNew
<1> HIDE DEF e
<1>5. \A m, k \in UaNew(ids, st) : m.id = k.id => m = k
  BY <1>3, <1>4
<1>6. \A m, k \in UaNew(ids, st) : m.handle = k.handle => m = k
  BY <1>2, <1>4
<1>7. {m.handle : m \in UaNew(ids, st)} = st
  <2>1. \A h \in st : e(h) \in UaNew(ids, st) /\ e(h).handle = h
    BY <1>2, <1>4
  <2>2. \A m \in UaNew(ids, st) : m.handle \in st
    BY <1>2, <1>4
  <2> QED
    BY <2>1, <2>2, Zenon
<1> QED
  BY <1>1, <1>2, <1>4, <1>5, <1>6, <1>7 DEF UaAnswers

\* The handles of an operation are numbers, finitely many.
LEMMA UaStatesFinite ==
  ASSUME UaInv, NEW a \in UaOps
  PROVE  uaOp[a].states \in SUBSET Nat /\ IsFiniteSet(uaOp[a].states) /\ uaOp[a].states \subseteq UaHandles
<1>1. UaHandles = 1 .. Len(uaHeap) /\ Len(uaHeap) \in Nat
  BY LenProperties DEF UaInv, UaTypes, UaShape, UaHandles
<1>2. uaOp[a].states \subseteq UaHandles
  BY DEF UaInv, UaTypes, UaGiven
<1>3. IsFiniteSet(1 .. Len(uaHeap))
  BY <1>1, FS_Interval
<1> QED
  BY <1>1, <1>2, <1>3, FS_Subset

\* createItemsOn ends without items.
LEMMA UaGivesUp ==
  ASSUME UaInv, NEW a \in {"rebuild", "control"}, uaOp[a].step = "monitor", UaDone(a),
         UNCHANGED <<uaMode, uaClient, uaSession, uaStateC, uaFill, uaHooked, uaCallers, uaNode, uaSub,
                     uaItems, uaHeap, uaServer, uaIds, uaReaders, uaNote, uaWrong>>,
         uaLost' \in BOOLEAN, uaLost => uaLost', ~UaLive'
  PROVE  UaInv'
<1>1. /\ uaOp' \in [UaOps -> UaOpRec] /\ uaOp'[a] = UaIdle /\ a \in UaOps
      /\ \A b \in UaOps \ {a} : uaOp'[b] = uaOp[b]
  BY UaSetOp, UaIdleIs DEF UaDone, UaInv, UaTypes, UaOps
<1>2. UaHandles' = UaHandles /\ UaSubs' = UaSubs
  BY DEF UaHandles, UaSubs
<1>3. UaShape'
  BY <1>1, <1>2 DEF UaInv, UaTypes, UaShape
<1>4. UaGiven'
  <2>1. UaGiven /\ 0 <= uaIds
    BY DEF UaInv, UaTypes, UaShape
  <2>2. \A b \in UaOps : uaOp'[b].states \subseteq UaHandles /\ uaOp'[b].sub <= uaIds
    BY <1>1, <2>1, UaIdleIs DEF UaGiven
  <2>3. \A b \in UaOps : uaOp'[b].step # "idle" => uaOp'[b] = uaOp[b]
    BY <1>1, UaIdleIs
  <2>4. uaOp'["rebuild"].step = "store" => uaOp'["rebuild"] = uaOp["rebuild"]
    BY <2>3 DEF UaOps
  <2>5. \A b \in UaOps : uaOp'[b].step = "stitch" =>
          \A m \in uaOp'[b].old : m \in UaMonitored /\ m.id \in 1 .. uaIds
    BY <2>1, <2>3 DEF UaGiven
  <2> QED
    BY <1>2, <2>1, <2>2, <2>4, <2>5 DEF UaGiven
<1>5. UaServerOK' /\ UaLinked' /\ UaNamed'
  BY <1>2 DEF UaInv, UaTypes, UaServerOK, UaLinked, UaNamed
<1>6. UaRoles'
  BY <1>1, <1>2, UaIdleIs DEF UaInv, UaRoles, UaOps
<1>7. UaKnown'
  BY <1>1, <1>2, UaIdleIs DEF UaInv, UaKnown, UaAt, UaOps
<1>8. UaMaking'
  <2>1. CASE a = "rebuild"
    BY <1>1, <2>1, UaIdleIs, UaMakingBegins
  <2>2. CASE a = "control"
    BY <1>1, <2>2, UaMakingSame DEF UaInv, UaOps
  <2> QED
    BY <2>1, <2>2
<1> QED
  BY <1>3, <1>4, <1>5, <1>6, <1>7, <1>8 DEF UaInv, UaTypes, UaTrue

\* createItemsOn, the request.
LEMMA UaMonitorKeeps == ASSUME UaInv, NEW a \in {"rebuild", "control"}, UaMonitor(a) PROVE UaInv'
<1>0. /\ uaOp[a].step = "monitor" /\ a \in UaOps /\ "stitch" \in UaSteps /\ UaShape
      /\ UNCHANGED <<uaMode, uaClient, uaSession, uaStateC, uaFill, uaHooked, uaCallers, uaNode, uaSub,
                     uaItems, uaHeap, uaReaders, uaNote, uaWrong>>
  BY DEF UaMonitor, UaAt, uaLinkVars, uaNodeVars, uaNoteVars, UaInv, UaTypes, UaOps, UaSteps
<1>l. UaLive => /\ a = "control" => uaOp["rebuild"].step = "idle"
                /\ uaOp[a].sub = uaSub /\ UaSubs = {uaSub}
  <2> SUFFICES ASSUME UaLive PROVE /\ a = "control" => uaOp["rebuild"].step = "idle"
                                   /\ uaOp[a].sub = uaSub /\ UaSubs = {uaSub}
    OBVIOUS
  <2>1. UaRebuilding /\ UaControlling /\ UaKnown /\ UaMaking /\ ~uaLost /\ uaNode = "run"
    BY DEF UaInv, UaTrue, UaLive
  <2>2. CASE a = "rebuild"
    BY <1>0, <2>1, <2>2 DEF UaRebuilding, UaMaking
  <2>3. CASE a = "control"
    BY <1>0, <2>1, <2>3 DEF UaControlling, UaKnown, UaAt
  <2> QED
    BY <2>2, <2>3
<1>1. CASE uaOp[a].sub \notin UaSubs
  <2>1. UaDone(a) /\ UNCHANGED <<uaServer, uaIds, uaLost>>
    BY <1>1 DEF UaMonitor
  <2>2. ~UaLive'
    BY <1>0, <1>1, <1>l, <2>1 DEF UaLive, UaCovered
  <2> QED
    BY <1>0, <2>1, <2>2, UaGivesUp DEF UaShape
<1>2. CASE UaDone(a) /\ uaLost' = TRUE /\ UNCHANGED <<uaServer, uaIds>>
  BY <1>0, <1>2, UaGivesUp DEF UaLive
<1>3. CASE /\ uaOp[a].sub \in UaSubs
           /\ uaServer' = [uaServer EXCEPT ![uaOp[a].sub] = @ \cup UaNew(uaIds, uaOp[a].states)]
           /\ uaIds' = uaIds + Cardinality(uaOp[a].states)
           /\ uaOp' = [uaOp EXCEPT ![a].step = "stitch", ![a].old = UaNew(uaIds, uaOp[a].states)]
           /\ UNCHANGED uaLost
  <2>1. PICK st \in SUBSET Nat : st = uaOp[a].states /\ IsFiniteSet(st) /\ st \subseteq UaHandles
    BY <1>0, UaStatesFinite
  <2>2. PICK new : new = UaNew(uaIds, st)
    OBVIOUS
  <2>3. PICK n \in Nat : n = uaIds + Cardinality(st) /\ uaIds <= n
    BY <1>0, <2>1, FS_CardinalityType DEF UaShape
  <2>4. /\ \A m \in new : m \in UaMonitored /\ m.handle \in st /\ m.id \in 1 .. n /\ m.id > uaIds
        /\ \A m, k \in new : m.id = k.id => m = k
        /\ UaAnswers(new, st)
    BY <1>0, <2>1, <2>2, <2>3, UaNewItems DEF UaShape
  <2>5. /\ uaOp' \in [UaOps -> UaOpRec] /\ \A b \in UaOps \ {a} : uaOp'[b] = uaOp[b]
        /\ uaOp'[a].step = "stitch" /\ uaOp'[a].sub = uaOp[a].sub /\ uaOp'[a].old = new
        /\ uaOp'[a].states = st /\ uaOp'[a].stop = uaOp[a].stop
    <3>1. new \in SUBSET (UaMonitored \cup Nat)
      BY <2>4
    <3>2. uaOp' = [uaOp EXCEPT ![a].step = "stitch", ![a].old = new]
      BY <1>3, <2>1, <2>2
    <3> QED
      BY <1>0, <2>1, <3>1, <3>2, UaOldTo
  <2>6. /\ UaHandles' = UaHandles /\ UaSubs' = UaSubs /\ uaIds' = n
        /\ \A s \in UaSubs : uaServer'[s] = IF s = uaOp[a].sub THEN uaServer[s] \cup new ELSE uaServer[s]
    BY <1>0, <1>3, <2>1, <2>2, <2>3 DEF UaHandles, UaSubs
  <2>7. 1 .. uaIds \subseteq 1 .. n /\ \A x \in Nat : x <= uaIds => x <= n
    BY <1>0, <2>3 DEF UaShape
  <2>8. UaShape'
    BY <1>0, <1>3, <2>3, <2>5, <2>6 DEF UaShape
  <2>9. UaGiven'
    <3>1. \A h \in UaHandles : uaHeap[h].mon \in Nat
      <4>1. \A h \in UaHandles : uaHeap[h] \in UaEntry
        BY <1>0, LenProperties, ElementOfSeq DEF UaShape, UaHandles
      <4> QED
        BY <4>1 DEF UaEntry
    <3>2. \A h \in UaHandles' : uaHeap'[h].mon <= uaIds'
      BY <1>0, <2>6, <2>7, <3>1 DEF UaInv, UaTypes, UaGiven
    <3>3. \A b \in UaOps : uaOp'[b].states \subseteq UaHandles' /\ uaOp'[b].sub <= uaIds'
      <4>1. \A b \in UaOps : uaOp[b].sub \in Nat
        BY <1>0 DEF UaShape, UaOpRec
      <4> QED
        BY <2>1, <2>5, <2>6, <2>7, <4>1 DEF UaInv, UaTypes, UaGiven
    <3>4. \A b \in UaOps : uaOp'[b].step = "stitch" => \A m \in uaOp'[b].old : m \in UaMonitored /\ m.id \in 1 .. uaIds'
      BY <2>4, <2>5, <2>6, <2>7 DEF UaInv, UaTypes, UaGiven
    <3>5. uaReaders' \subseteq 1 .. uaIds' /\ uaSub' <= uaIds'
      BY <1>0, <2>6, <2>7 DEF UaInv, UaTypes, UaGiven, UaShape
    <3>6. uaOp'["rebuild"].step = "store" => uaOp'["rebuild"].sub > 0
      BY <2>5 DEF UaInv, UaTypes, UaGiven, UaOps
    <3> QED
      BY <3>2, <3>3, <3>4, <3>5, <3>6 DEF UaGiven
  <2>10. UaServerOK'
    <3>1. UaServerOK
      BY DEF UaInv, UaTypes
    <3>2. UaSubs' \subseteq 1 .. uaIds'
      BY <2>6, <2>7, <3>1 DEF UaServerOK
    <3>3. \A s \in UaSubs : \A m \in uaServer'[s] : m \in uaServer[s] \/ m \in new
      BY <2>6
    <3>4. \A s \in UaSubs : \A m \in uaServer'[s] : m \in UaMonitored /\ m.id \in 1 .. n /\ m.handle \in UaHandles
      BY <2>1, <2>4, <2>7, <3>1, <3>3 DEF UaServerOK
    <3>5. \A s \in UaSubs : \A m \in uaServer[s], k \in new : m.id # k.id
      <4>1. \A s \in UaSubs : \A m \in uaServer[s] : m.id \in Nat /\ m.id <= uaIds
        <5>1. \A x \in 1 .. uaIds : x \in Nat /\ x <= uaIds
          BY <1>0 DEF UaShape
        <5> QED
          BY <3>1, <5>1 DEF UaServerOK
      <4>2. \A k \in new : k.id \in Nat /\ k.id > uaIds
        BY <2>4
      <4> QED
        BY <1>0, <4>1, <4>2 DEF UaShape
    <3>6. ASSUME NEW s \in UaSubs, NEW m \in uaServer'[s], NEW k \in uaServer'[s], m.id = k.id PROVE m = k
      <4>1. m \in uaServer[s] /\ k \in uaServer[s] => m = k
        BY <3>1, <3>6 DEF UaServerOK
      <4> QED
        BY <2>4, <3>3, <3>5, <3>6, <4>1
    <3> QED
      BY <2>6, <3>2, <3>4, <3>6 DEF UaServerOK
  <2>11. UaLinked' /\ UaNamed'
    BY <1>0, <2>6 DEF UaInv, UaLinked, UaNamed
  <2>12. UaRoles'
    BY <1>0, <2>5, <2>6 DEF UaInv, UaRoles, UaOps
  <2>13. UaKnown'
    BY <1>0, <1>3, <2>5, <2>6 DEF UaInv, UaKnown, UaAt, UaOps
  <2>14. UaTrue'
    <3> SUFFICES ASSUME UaLive' PROVE UaRebuilding' /\ UaControlling'
      BY DEF UaTrue
    <3>1. UaLive
      BY <1>0, <1>3 DEF UaLive, UaCovered
    <3>2. UaRebuilding /\ UaControlling /\ uaOp[a].sub = uaSub /\ UaSubs = {uaSub}
      BY <1>l, <3>1 DEF UaInv, UaTrue
    <3>3. uaServer'[uaSub] = uaServer[uaSub] \cup new
      BY <2>6, <3>2
    <3>4. CASE a = "rebuild"
      <4>1. UaCurrent'
        BY <1>0, <2>1, <2>5, <2>6, <3>2, <3>4 DEF UaRebuilding, UaCurrent
      <4> QED
        BY <2>5, <3>4, <4>1 DEF UaRebuilding, UaControlling
    <3>5. CASE a = "control"
      <4>1. uaOp["rebuild"].step = "idle" /\ uaOp'["rebuild"] = uaOp["rebuild"]
        BY <1>l, <2>5, <3>1, <3>5 DEF UaOps
      <4>2. uaServer[uaSub] = UaIdOf(uaHeap, uaItems \ st) /\ st \subseteq uaItems
        BY <1>0, <2>1, <3>2, <3>5, <4>1 DEF UaControlling
      <4>3. uaServer'[uaSub] = UaIdOf(uaHeap, uaItems \ st) \cup new
        BY <3>3, <4>2
      <4> QED
        BY <1>0, <2>4, <2>5, <2>6, <3>2, <3>5, <4>1, <4>2, <4>3 DEF UaRebuilding, UaControlling
    <3> QED
      BY <3>4, <3>5
  <2>15. UaMaking'
    <3>1. CASE a = "rebuild"
      <4> SUFFICES ASSUME ~uaLost', uaNode' \in {"opened", "run"}, UaCurrent' PROVE UaMaking'
        BY DEF UaMaking
      <4>1. UaCurrent /\ st = uaItems
        BY <1>0, <1>3, <2>1, <2>5, <2>6, <3>1 DEF UaCurrent
      <4>2. uaSub = uaOp["rebuild"].sub /\ UaSubs = {uaSub} /\ uaServer[uaSub] = {}
        BY <1>0, <1>3, <3>1, <4>1 DEF UaInv, UaMaking
      <4>3. uaServer'[uaSub] = new /\ uaOp'["rebuild"].old = new
        BY <2>5, <2>6, <3>1, <4>2
      <4> QED
        BY <1>0, <2>4, <2>5, <2>6, <3>1, <4>1, <4>2, <4>3 DEF UaMaking
    <3>2. CASE a = "control"
      <4> SUFFICES ASSUME ~uaLost' PROVE UaMaking'
        BY DEF UaMaking
      <4>1. uaOp["rebuild"].step = "idle" /\ uaOp'["rebuild"] = uaOp["rebuild"]
        BY <1>0, <1>3, <2>5, <3>2 DEF UaInv, UaKnown, UaAt, UaOps
      <4> QED
        BY <4>1, UaMakingBegins
    <3> QED
      BY <3>1, <3>2
  <2> QED
    BY <2>8, <2>9, <2>10, <2>11, <2>12, <2>13, <2>14, <2>15 DEF UaInv, UaTypes
<1> QED
  <2>1. CASE uaOp[a].sub \in UaSubs
    <3> DEFINE new == {[id |-> uaIds + Cardinality({g \in uaOp[a].states : g <= h}), handle |-> h] : h \in uaOp[a].states}
    <3>1. \/ /\ uaServer' = [uaServer EXCEPT ![uaOp[a].sub] = @ \cup new]
             /\ uaIds' = uaIds + Cardinality(uaOp[a].states)
             /\ uaOp' = [uaOp EXCEPT ![a].step = "stitch", ![a].old = new]
             /\ UNCHANGED uaLost
          \/ uaLost' = TRUE /\ UaDone(a) /\ UNCHANGED <<uaServer, uaIds>>
      BY <2>1, Zenon DEF UaMonitor
    <3>2. new = UaNew(uaIds, uaOp[a].states)
      BY Zenon DEF UaNew, UaRankOf
    <3> HIDE DEF new
    <3> QED
      BY <1>2, <1>3, <2>1, <3>1, <3>2
  <2> QED
    BY <1>1, <2>1

-----------------------------------------------------------------------------
\* The ids of an answer written to the items.
UaWrite(heap, old) ==
  [h \in DOMAIN heap |->
     IF \E m \in old : m.handle = h
     THEN [heap[h] EXCEPT !.mon = (CHOOSE m \in old : m.handle = h).id] ELSE heap[h]]

\* What is written is of the type of an item, and keeps the NodeIDs.
LEMMA UaWritten ==
  ASSUME NEW heap \in Seq(UaEntry), NEW n \in Nat, NEW old, \A m \in old : m \in UaMonitored /\ m.id \in 1 .. n,
         \A h \in DOMAIN heap : heap[h].mon <= n
  PROVE  /\ UaWrite(heap, old) \in Seq(UaEntry) /\ DOMAIN UaWrite(heap, old) = DOMAIN heap
         /\ \A h \in DOMAIN heap : /\ UaWrite(heap, old)[h].node = heap[h].node
                                   /\ UaWrite(heap, old)[h].mon <= n
<1>1. DOMAIN heap = 1 .. Len(heap) /\ Len(heap) \in Nat /\ \A h \in DOMAIN heap : heap[h] \in UaEntry
  BY LenProperties, ElementOfSeq
<1>2. PICK w : w = UaWrite(heap, old)
  OBVIOUS
<1>3. DOMAIN w = DOMAIN heap /\ w = [h \in DOMAIN heap |-> w[h]]
  BY <1>2 DEF UaWrite
<1>4. ASSUME NEW h \in DOMAIN heap PROVE w[h] \in UaEntry /\ w[h].node = heap[h].node /\ w[h].mon <= n
  <2>1. CASE \E m \in old : m.handle = h
    <3>1. PICK k : k = CHOOSE m \in old : m.handle = h
      OBVIOUS
    <3>2. k \in old
      BY <2>1, <3>1, Zenon
    <3>3. k.id \in Nat /\ k.id <= n
      BY <3>2
    <3>4. w[h] = [heap[h] EXCEPT !.mon = k.id]
      BY <1>2, <2>1, <3>1 DEF UaWrite
    <3> QED
      BY <1>1, <3>3, <3>4 DEF UaEntry
  <2>2. CASE ~\E m \in old : m.handle = h
    BY <1>1, <1>2, <2>2 DEF UaWrite
  <2> QED
    BY <2>1, <2>2
<1>5. [h \in 1 .. Len(heap) |-> w[h]] \in Seq(UaEntry)
  BY <1>1, <1>4
<1>6. w \in Seq(UaEntry)
  BY <1>1, <1>3, <1>5
<1> QED
  BY <1>2, <1>3, <1>4, <1>6

\* The items then have the ids of the server, and the others the ids they had.
LEMMA UaWrittenIds ==
  ASSUME NEW heap \in Seq(UaEntry), NEW old, \A m \in old : m \in UaMonitored,
         NEW hs, hs \subseteq DOMAIN heap, UaAnswers(old, hs)
  PROVE  /\ UaIdOf(UaWrite(heap, old), hs) = old
         /\ \A ks : ks \subseteq DOMAIN heap \ hs => UaIdOf(UaWrite(heap, old), ks) = UaIdOf(heap, ks)
<1>1. \A h \in DOMAIN heap : heap[h] \in UaEntry
  BY LenProperties, ElementOfSeq
<1>2. PICK w : w = UaWrite(heap, old)
  OBVIOUS
<1>3. ASSUME NEW m \in old PROVE m.handle \in hs /\ UaItem(w, m.handle) = m
  <2>1. PICK h \in hs : h = m.handle
    BY DEF UaAnswers
  <2>2. (CHOOSE k \in old : k.handle = h) = m
    <3>1. PICK k : k = CHOOSE j \in old : j.handle = h
      OBVIOUS
    <3>2. k \in old /\ k.handle = h
      BY <2>1, <3>1, Zenon
    <3> QED
      BY <2>1, <3>1, <3>2, Zenon DEF UaAnswers
  <2>3. w[h] = [heap[h] EXCEPT !.mon = m.id]
    BY <1>2, <2>1, <2>2 DEF UaWrite
  <2>4. w[h].mon = m.id
    BY <1>1, <2>1, <2>3 DEF UaEntry
  <2>5. m = [id |-> m.id, handle |-> h]
    BY <2>1 DEF UaMonitored
  <2> QED
    BY <2>1, <2>4, <2>5 DEF UaItem
<1>4. ASSUME NEW h \in hs PROVE \E m \in old : m = UaItem(w, h)
  <2>1. PICK m \in old : m.handle = h
    BY DEF UaAnswers
  <2> QED
    BY <1>3, <2>1
<1>5. UaIdOf(w, hs) = old
  BY <1>3, <1>4, Zenon DEF UaIdOf
<1>6. ASSUME NEW ks, ks \subseteq DOMAIN heap \ hs PROVE UaIdOf(w, ks) = UaIdOf(heap, ks)
  <2>1. \A h \in ks : ~\E m \in old : m.handle = h
    BY <1>6 DEF UaAnswers
  <2>2. \A h \in ks : w[h] = heap[h]
    BY <1>2, <1>6, <2>1 DEF UaWrite
  <2>3. \A h \in ks : UaItem(w, h) = UaItem(heap, h)
    BY <2>2 DEF UaItem
  <2> QED
    BY <2>3, Zenon DEF UaIdOf
<1> QED
  BY <1>2, <1>5, <1>6, Zenon

\* The items of two sets of handles.
LEMMA UaIdOfUnion ==
  ASSUME NEW heap, NEW hs, NEW ks
  PROVE  UaIdOf(heap, hs \cup ks) = UaIdOf(heap, hs) \cup UaIdOf(heap, ks)
BY Zenon DEF UaIdOf

\* createItemsOn, the answer.
LEMMA UaStitchKeeps == ASSUME UaInv, NEW a \in {"rebuild", "control"}, UaStitch(a) PROVE UaInv'
<1>0. /\ uaOp[a].step = "stitch" /\ a \in UaOps /\ UaShape /\ uaOp' = [uaOp EXCEPT ![a] = UaIdle]
      /\ uaHeap' = UaWrite(uaHeap, uaOp[a].old)
      /\ UNCHANGED <<uaMode, uaClient, uaSession, uaStateC, uaFill, uaHooked, uaCallers, uaNode, uaSub,
                     uaItems, uaServer, uaIds, uaReaders, uaNote, uaWrong, uaLost>>
  BY DEF UaStitch, UaAt, UaDone, UaWrite, UaHandles, uaLinkVars, uaNoteVars, UaInv, UaTypes, UaOps
<1>1. /\ uaOp' \in [UaOps -> UaOpRec] /\ uaOp'[a] = UaIdle
      /\ \A b \in UaOps \ {a} : uaOp'[b] = uaOp[b]
  BY <1>0, UaSetOp, UaIdleIs
<1>2. PICK old : old = uaOp[a].old /\ \A m \in old : m \in UaMonitored /\ m.id \in 1 .. uaIds
  BY <1>0 DEF UaInv, UaTypes, UaGiven
<1>3. /\ uaHeap' \in Seq(UaEntry) /\ DOMAIN uaHeap' = DOMAIN uaHeap
      /\ \A h \in DOMAIN uaHeap : uaHeap'[h].node = uaHeap[h].node /\ uaHeap'[h].mon <= uaIds
  <2>1. uaHeap \in Seq(UaEntry) /\ uaIds \in Nat /\ \A h \in DOMAIN uaHeap : uaHeap[h].mon <= uaIds
    BY DEF UaInv, UaTypes, UaShape, UaGiven, UaHandles
  <2> QED
    BY <1>0, <1>2, <2>1, UaWritten
<1>4. UaHandles' = UaHandles /\ UaSubs' = UaSubs /\ UaHandles = DOMAIN uaHeap
  BY <1>0, <1>3 DEF UaHandles, UaSubs
<1>5. UaShape'
  BY <1>0, <1>1, <1>3, <1>4 DEF UaShape
<1>6. UaGiven'
  <2>1. UaGiven /\ 0 <= uaIds
    BY DEF UaInv, UaTypes, UaShape
  <2>2. \A b \in UaOps : uaOp'[b].states \subseteq UaHandles /\ uaOp'[b].sub <= uaIds
    BY <1>1, <2>1, UaIdleIs DEF UaGiven
  <2>3. \A b \in UaOps : uaOp'[b].step # "idle" => uaOp'[b] = uaOp[b]
    BY <1>1, UaIdleIs
  <2>4. uaOp'["rebuild"].step = "store" => uaOp'["rebuild"] = uaOp["rebuild"]
    BY <2>3 DEF UaOps
  <2>5. \A b \in UaOps : uaOp'[b].step = "stitch" =>
          \A m \in uaOp'[b].old : m \in UaMonitored /\ m.id \in 1 .. uaIds
    BY <2>1, <2>3 DEF UaGiven
  <2> QED
    BY <1>0, <1>3, <1>4, <2>1, <2>2, <2>4, <2>5 DEF UaGiven
<1>7. UaServerOK' /\ UaLinked'
  BY <1>0, <1>4 DEF UaInv, UaTypes, UaServerOK, UaLinked
<1>8. UaNamed'
  BY <1>0, <1>3, <1>4 DEF UaInv, UaNamed
<1>9. UaRoles'
  <2>1. uaHeap = <<>> => uaHeap' = <<>>
    BY <1>3, EmptySeq, LenProperties
  <2> QED
    BY <1>0, <1>1, <1>4, <2>1, UaIdleIs DEF UaInv, UaRoles, UaOps
<1>10. UaKnown'
  BY <1>0, <1>1, <1>4, UaIdleIs DEF UaInv, UaKnown, UaAt, UaOps
<1>11. UaTrue'
  <2> SUFFICES ASSUME UaLive' PROVE UaRebuilding' /\ UaControlling'
    BY DEF UaTrue
  <2>1. UaRebuilding /\ UaControlling /\ UaKnown /\ UaMaking /\ ~uaLost /\ uaNode = "run"
    BY <1>0 DEF UaInv, UaTrue, UaLive, UaCovered
  <2>2. uaHeap \in Seq(UaEntry) /\ uaItems \subseteq DOMAIN uaHeap
    BY <1>0, <1>4 DEF UaShape
  <2>3. uaOp'["rebuild"].step = "idle" /\ uaOp'["control"].step = "idle"
    BY <1>0, <1>1, <2>1, UaIdleIs DEF UaKnown, UaAt, UaOps
  <2>4. UaSubs = {uaSub} /\ uaServer[uaSub] = UaIdOf(uaHeap', uaItems)
    <3>1. CASE a = "rebuild"
      <4>1. UaSubs = {uaSub} /\ uaServer[uaSub] = old /\ UaAnswers(old, uaItems)
        BY <1>0, <1>2, <2>1, <3>1 DEF UaRebuilding, UaMaking
      <4>2. UaIdOf(UaWrite(uaHeap, old), uaItems) = old
        BY <1>2, <2>2, <4>1, UaWrittenIds
      <4> QED
        BY <1>0, <1>2, <4>1, <4>2
    <3>2. CASE a = "control"
      <4>0. PICK hs : hs = uaOp["control"].states
        OBVIOUS
      <4>1. /\ UaSubs = {uaSub} /\ uaServer[uaSub] = UaIdOf(uaHeap, uaItems \ hs) \cup old
            /\ UaAnswers(old, hs) /\ hs \subseteq uaItems
        BY <1>0, <1>2, <2>1, <3>2, <4>0 DEF UaControlling, UaKnown, UaAt
      <4>2. /\ UaIdOf(UaWrite(uaHeap, old), hs) = old
            /\ UaIdOf(UaWrite(uaHeap, old), uaItems \ hs) = UaIdOf(uaHeap, uaItems \ hs)
        <5>1. hs \subseteq DOMAIN uaHeap /\ uaItems \ hs \subseteq DOMAIN uaHeap \ hs
          BY <2>2, <4>1
        <5> QED
          BY <1>2, <2>2, <4>1, <5>1, UaWrittenIds
      <4>3. (uaItems \ hs) \cup hs = uaItems
        BY <4>1
      <4>4. UaIdOf(uaHeap', uaItems) = UaIdOf(uaHeap', uaItems \ hs) \cup UaIdOf(uaHeap', hs)
        <5>1. PICK g : g = uaHeap'
          OBVIOUS
        <5>2. UaIdOf(g, (uaItems \ hs) \cup hs) = UaIdOf(g, uaItems \ hs) \cup UaIdOf(g, hs)
          BY UaIdOfUnion
        <5> QED
          BY <4>3, <5>1, <5>2
      <4> QED
        BY <1>0, <1>2, <4>1, <4>2, <4>4
    <3> QED
      BY <3>1, <3>2
  <2> QED
    BY <1>0, <1>4, <2>3, <2>4 DEF UaRebuilding, UaControlling
<1>12. UaMaking'
  <2> SUFFICES ASSUME ~uaLost' PROVE UaMaking'
    BY DEF UaMaking
  <2>1. uaOp'["rebuild"].step = "idle"
    BY <1>0, <1>1, UaIdleIs DEF UaInv, UaKnown, UaAt, UaOps
  <2> QED
    BY <2>1, UaMakingBegins
<1> QED
  BY <1>5, <1>6, <1>7, <1>8, <1>9, <1>10, <1>11, <1>12 DEF UaInv, UaTypes

-----------------------------------------------------------------------------
\* What is left of the items when the ids of some are removed.
UaLeftOf(srv, old) == {m \in srv : m.id \notin old}

\* Removing the ids of the items that go leaves the others.
LEMMA UaRemains ==
  ASSUME NEW heap, NEW items, NEW gone, gone \subseteq items, NEW srv, srv = UaIdOf(heap, items),
         \A m \in srv : m.id # 0, \A m, k \in srv : m.id = k.id => m = k,
         NEW old, old = {heap[h].mon : h \in gone} \ {0}
  PROVE  UaLeftOf(srv, old) = UaIdOf(heap, items \ gone)
<1>1. \A h \in items : UaItem(heap, h) \in srv
  BY Zenon DEF UaIdOf
<1>2. \A h : UaItem(heap, h).id = heap[h].mon /\ UaItem(heap, h).handle = h
  BY DEF UaItem
<1>3. ASSUME NEW h \in gone PROVE heap[h].mon \in old
  <2>1. heap[h].mon # 0
    BY <1>1, <1>2
  <2> QED
    BY <2>1
<1>4. ASSUME NEW h \in items \ gone PROVE heap[h].mon \notin old
  <2> SUFFICES ASSUME heap[h].mon \in old PROVE FALSE
    OBVIOUS
  <2>1. PICK g \in gone : heap[g].mon = heap[h].mon
    OBVIOUS
  <2>2. UaItem(heap, g).id = UaItem(heap, h).id /\ UaItem(heap, g) \in srv /\ UaItem(heap, h) \in srv
    BY <1>1, <1>2, <2>1
  <2>3. UaItem(heap, g) = UaItem(heap, h)
    BY <2>2
  <2>4. g = h
    BY <1>2, <2>3
  <2> QED
    BY <2>4
<1>5. ASSUME NEW m \in UaLeftOf(srv, old) PROVE m \in UaIdOf(heap, items \ gone)
  <2>1. m \in srv /\ m.id \notin old
    BY DEF UaLeftOf
  <2>2. PICK h \in items : m = UaItem(heap, h)
    BY <2>1, Zenon DEF UaIdOf
  <2>3. h \notin gone
    BY <1>2, <1>3, <2>1, <2>2
  <2> QED
    BY <2>2, <2>3, Zenon DEF UaIdOf
<1>6. ASSUME NEW m \in UaIdOf(heap, items \ gone) PROVE m \in UaLeftOf(srv, old)
  <2>1. PICK h \in items \ gone : m = UaItem(heap, h)
    BY Zenon DEF UaIdOf
  <2>2. m \in srv /\ m.id \notin old
    BY <1>1, <1>2, <1>4, <2>1
  <2> QED
    BY <2>2 DEF UaLeftOf
<1> QED
  BY <1>5, <1>6

\* A control message: some items go, others with new handles come.
LEMMA UaControlBegins ==
  ASSUME UaInv, uaNode = "run", UaAt("control", "idle"),
         NEW gone, gone \subseteq uaItems, NEW st,
         uaHeap' \in Seq(UaEntry), UaHandles \subseteq UaHandles',
         \A h \in UaHandles : uaHeap'[h] = uaHeap[h],
         \A h \in UaHandles' \ UaHandles : uaHeap'[h].mon = 0,
         st \subseteq UaHandles', st \cap UaHandles = {}, uaItems' = (uaItems \ gone) \cup st,
         uaOp' = [uaOp EXCEPT !["control"] = IF uaSub = 0 THEN UaIdle ELSE
                    [step |-> "unmonitor", sub |-> uaSub, old |-> UaMonIds(gone), states |-> st, stop |-> FALSE]],
         uaLost' = (uaLost \/ ~UaAt("rebuild", "idle")),
         UNCHANGED <<uaMode, uaClient, uaSession, uaStateC, uaFill, uaHooked, uaCallers, uaNode, uaSub,
                     uaServer, uaIds, uaReaders, uaNote, uaWrong>>
  PROVE  UaInv'
<1>0. UaShape /\ "control" \in UaOps /\ uaItems \subseteq UaHandles
  BY DEF UaInv, UaTypes, UaShape, UaOps
<1>1. uaLost' \in BOOLEAN /\ (~uaLost' => ~uaLost /\ uaOp["rebuild"].step = "idle")
  BY <1>0 DEF UaShape, UaAt
<1>2. UaHandles' \subseteq Nat /\ \A h \in UaHandles : uaHeap[h] \in UaEntry
  BY <1>0, LenProperties, ElementOfSeq DEF UaHandles, UaShape
<1>3. PICK old \in SUBSET Nat : old = {uaHeap[h].mon : h \in gone} \ {0} /\ old = UaMonIds(gone)
  BY <1>0, <1>2 DEF UaEntry, UaMonIds
<1>4. PICK c \in UaOpRec :
        /\ uaOp' = [uaOp EXCEPT !["control"] = c] /\ c.sub \in {0, uaSub} /\ c.states \subseteq st
        /\ uaSub # 0 => c.step = "unmonitor" /\ c.sub = uaSub /\ c.old = old /\ c.states = st
        /\ uaSub = 0 => c.step = "idle"
  <2> DEFINE r == [step |-> "unmonitor", sub |-> uaSub, old |-> old, states |-> st, stop |-> FALSE]
  <2>1. r \in UaOpRec
    <3>1. old \in SUBSET (UaMonitored \cup Nat) /\ st \in SUBSET Nat /\ uaSub \in Nat /\ "unmonitor" \in UaSteps
      BY <1>0, <1>2, <1>3 DEF UaShape, UaSteps
    <3> QED
      BY <3>1 DEF UaOpRec
  <2>2. r.step = "unmonitor" /\ r.sub = uaSub /\ r.old = old /\ r.states = st
    OBVIOUS
  <2>3. uaOp' = [uaOp EXCEPT !["control"] = IF uaSub = 0 THEN UaIdle ELSE r]
    BY <1>3
  <2> HIDE DEF r
  <2> QED
    BY <2>1, <2>2, <2>3, UaIdleIs
<1>5. /\ uaOp' \in [UaOps -> UaOpRec] /\ uaOp'["control"] = c
      /\ \A b \in UaOps \ {"control"} : uaOp'[b] = uaOp[b]
  BY <1>0, <1>4, UaSetOp
<1>6. UaSubs' = UaSubs
  BY DEF UaSubs
<1>7. UaShape'
  BY <1>0, <1>1, <1>5 DEF UaShape
<1>8. UaGiven'
  <2>1. UaGiven /\ 0 <= uaIds
    BY DEF UaInv, UaTypes, UaShape
  <2>2. \A b \in UaOps : uaOp'[b].states \subseteq UaHandles' /\ uaOp'[b].sub <= uaIds
    BY <1>4, <1>5, <2>1 DEF UaGiven
  <2>3. \A b \in UaOps : uaOp'[b].step \in {"stitch", "store"} => uaOp'[b] = uaOp[b]
    BY <1>4, <1>5
  <2>4. uaOp'["rebuild"] = uaOp["rebuild"]
    BY <1>5 DEF UaOps
  <2>5. \A b \in UaOps : uaOp'[b].step = "stitch" =>
          \A m \in uaOp'[b].old : m \in UaMonitored /\ m.id \in 1 .. uaIds
    BY <2>1, <2>3 DEF UaGiven
  <2>6. \A h \in UaHandles' : uaHeap'[h].mon <= uaIds
    BY <2>1 DEF UaGiven
  <2> QED
    BY <2>1, <2>2, <2>4, <2>5, <2>6 DEF UaGiven
<1>9. UaServerOK' /\ UaLinked'
  BY <1>6 DEF UaInv, UaTypes, UaServerOK, UaLinked
<1>10. UaNamed'
  BY DEF UaInv, UaNamed
<1>11. UaRoles'
  BY <1>4, <1>5 DEF UaInv, UaRoles, UaOps
<1>12. UaKnown'
  BY <1>1, <1>5, <1>6 DEF UaInv, UaKnown, UaAt, UaOps
<1>13. UaTrue'
  <2> SUFFICES ASSUME UaLive' PROVE UaRebuilding' /\ UaControlling'
    BY DEF UaTrue
  <2>1. UaControlling /\ uaOp["rebuild"].step = "idle" /\ uaOp["control"].step = "idle"
    BY <1>1 DEF UaInv, UaTrue, UaLive, UaCovered, UaAt
  <2>2. UaSubs = {uaSub} /\ uaServer[uaSub] = UaIdOf(uaHeap, uaItems)
    BY <2>1 DEF UaControlling
  <2>3. uaSub # 0 /\ \A m \in uaServer[uaSub] : m.id # 0
    BY <1>0, <2>2 DEF UaInv, UaTypes, UaServerOK, UaShape
  <2>4. \A m, k \in uaServer[uaSub] : m.id = k.id => m = k
    BY <2>2 DEF UaInv, UaTypes, UaServerOK
  <2>5. UaLeftOf(uaServer[uaSub], old) = UaIdOf(uaHeap, uaItems \ gone)
    BY <1>3, <2>2, <2>3, <2>4, UaRemains
  <2>6. uaItems' \ st = uaItems \ gone /\ st \subseteq uaItems'
    BY <1>0
  <2>7. UaIdOf(uaHeap', uaItems \ gone) = UaIdOf(uaHeap, uaItems \ gone)
    <3>1. \A h \in uaItems \ gone : UaItem(uaHeap', h) = UaItem(uaHeap, h)
      BY <1>0 DEF UaItem
    <3> QED
      BY <3>1, Zenon DEF UaIdOf
  <2>8. {m \in uaServer[uaSub] : m.id \notin c.old} = UaIdOf(uaHeap', uaItems' \ c.states)
    <3>1. c.old = old /\ c.states = st
      BY <1>4, <2>3
    <3> QED
      BY <2>5, <2>6, <2>7, <3>1, Zenon DEF UaLeftOf
  <2>9. uaOp'["rebuild"].step = "idle" /\ c.step = "unmonitor" /\ c.sub = uaSub /\ c.states \subseteq uaItems'
    BY <1>4, <1>5, <2>1, <2>3, <2>6 DEF UaOps
  <2>10. UaRebuilding'
    BY <2>9 DEF UaRebuilding
  <2>11. UaControlling'
    BY <1>5, <1>6, <2>2, <2>8, <2>9 DEF UaControlling
  <2> QED
    BY <2>10, <2>11
<1>14. UaMaking'
  <2> SUFFICES ASSUME ~uaLost' PROVE UaMaking'
    BY DEF UaMaking
  <2>1. uaOp'["rebuild"].step = "idle"
    BY <1>1, <1>5 DEF UaAt, UaOps
  <2> QED
    BY <2>1, UaMakingBegins
<1> QED
  BY <1>7, <1>8, <1>9, <1>10, <1>11, <1>12, <1>13, <1>14 DEF UaInv, UaTypes

\* replaceItems.
LEMMA UaReplaceKeeps ==
  ASSUME UaInv, UaHandleMessage, NEW specs \in Seq(UaNodeIds), replaceItems(specs)
  PROVE  UaInv'
<1>0. /\ uaNode = "run" /\ UaAt("control", "idle") /\ uaLost' = (uaLost \/ ~UaAt("rebuild", "idle"))
      /\ UNCHANGED <<uaMode, uaClient, uaSession, uaStateC, uaFill, uaHooked, uaCallers, uaNode, uaSub,
                     uaServer, uaIds, uaReaders, uaNote, uaWrong>>
  BY DEF UaHandleMessage, uaLinkVars, uaNoteVars
<1>1. /\ uaHeap' = UaAlloc(specs) /\ uaItems' = Len(uaHeap) + 1 .. Len(uaHeap) + Len(specs)
      /\ uaOp' = [uaOp EXCEPT !["control"] = IF uaSub = 0 THEN UaIdle ELSE
                    [step |-> "unmonitor", sub |-> uaSub, old |-> UaMonIds(uaItems), states |-> uaItems', stop |-> FALSE]]
  BY DEF replaceItems
<1>2. /\ UaAlloc(specs) \in Seq(UaEntry) /\ UaHandles = 1 .. Len(uaHeap) /\ Len(uaHeap) \in Nat /\ Len(specs) \in Nat
      /\ DOMAIN UaAlloc(specs) = 1 .. Len(uaHeap) + Len(specs)
      /\ \A h \in UaHandles : UaAlloc(specs)[h] = uaHeap[h]
      /\ \A h \in DOMAIN UaAlloc(specs) \ UaHandles : UaAlloc(specs)[h].mon = 0
  BY UaAllocated DEF UaInv, UaTypes
<1>3. UaHandles' = 1 .. Len(uaHeap) + Len(specs)
  BY <1>1, <1>2 DEF UaHandles
<1>4. PICK st : st = Len(uaHeap) + 1 .. Len(uaHeap) + Len(specs)
  OBVIOUS
<1>5. st \subseteq UaHandles' /\ st \cap UaHandles = {} /\ UaHandles \subseteq UaHandles'
  BY <1>2, <1>3, <1>4
<1>6. uaItems' = st /\ uaItems' = (uaItems \ uaItems) \cup st
  BY <1>1, <1>4
<1>7. uaOp' = [uaOp EXCEPT !["control"] = IF uaSub = 0 THEN UaIdle ELSE
                 [step |-> "unmonitor", sub |-> uaSub, old |-> UaMonIds(uaItems), states |-> st, stop |-> FALSE]]
  BY <1>1, <1>6
<1>8. /\ uaHeap' \in Seq(UaEntry) /\ \A h \in UaHandles : uaHeap'[h] = uaHeap[h]
      /\ \A h \in UaHandles' \ UaHandles : uaHeap'[h].mon = 0
  BY <1>1, <1>2, <1>3
<1>9. PICK gone : gone = uaItems
  OBVIOUS
<1> QED
  BY <1>0, <1>5, <1>6, <1>7, <1>8, <1>9, UaControlBegins

\* removeItems.
LEMMA UaRemoveKeeps ==
  ASSUME UaInv, UaHandleMessage, NEW ids, removeItems(ids)
  PROVE  UaInv'
<1>0. /\ uaNode = "run" /\ UaAt("control", "idle") /\ uaLost' = (uaLost \/ ~UaAt("rebuild", "idle"))
      /\ UNCHANGED <<uaMode, uaClient, uaSession, uaStateC, uaFill, uaHooked, uaCallers, uaNode, uaSub,
                     uaServer, uaIds, uaReaders, uaNote, uaWrong>>
  BY DEF UaHandleMessage, uaLinkVars, uaNoteVars
<1>1. PICK gone : /\ gone = {h \in uaItems : uaHeap[h].node \in ids} /\ uaItems' = uaItems \ gone /\ uaHeap' = uaHeap
                  /\ uaOp' = [uaOp EXCEPT !["control"] = IF uaSub = 0 THEN UaIdle ELSE
                      [step |-> "unmonitor", sub |-> uaSub, old |-> UaMonIds(gone), states |-> {}, stop |-> FALSE]]
  BY DEF removeItems
<1>2. PICK st : st = {}
  OBVIOUS
<1>3. /\ uaHeap' \in Seq(UaEntry) /\ UaHandles' = UaHandles /\ gone \subseteq uaItems
      /\ uaItems' = (uaItems \ gone) \cup st
  BY <1>1, <1>2 DEF UaInv, UaTypes, UaShape, UaHandles
<1>4. uaOp' = [uaOp EXCEPT !["control"] = IF uaSub = 0 THEN UaIdle ELSE
                 [step |-> "unmonitor", sub |-> uaSub, old |-> UaMonIds(gone), states |-> st, stop |-> FALSE]]
  BY <1>1, <1>2
<1>5. st \subseteq UaHandles' /\ st \cap UaHandles = {}
  BY <1>2
<1>6. \A h \in UaHandles' \ UaHandles : uaHeap'[h].mon = 0
  BY <1>3
<1>7. \A h \in UaHandles : uaHeap'[h] = uaHeap[h]
  BY <1>1
<1> QED
  BY <1>0, <1>3, <1>4, <1>5, <1>6, <1>7, UaControlBegins

\* A control message: subscribe, clear or unsubscribe.
LEMMA UaHandleMessageKeeps == ASSUME UaInv, UaHandleMessage PROVE UaInv'
<1>1. \A v \in UaNodeIds : <<v>> \in Seq(UaNodeIds)
  OBVIOUS
<1>2. <<>> \in Seq(UaNodeIds)
  OBVIOUS
<1>3. CASE \E v \in UaNodeIds : replaceItems(<<v>>)
  BY <1>1, <1>3, UaReplaceKeeps
<1>4. CASE replaceItems(<<>>)
  BY <1>2, <1>4, UaReplaceKeeps
<1>5. CASE \E v \in UaNodeIds : removeItems({v})
  BY <1>5, UaRemoveKeeps
<1> QED
  BY <1>3, <1>4, <1>5 DEF UaHandleMessage

\* Unmonitor.
LEMMA UaUnmonitorKeeps == ASSUME UaInv, UaUnmonitor PROVE UaInv'
<1>0. /\ uaOp["control"].step = "unmonitor" /\ "control" \in UaOps /\ UaShape /\ "monitor" \in UaSteps
      /\ IF uaOp["control"].states = {} THEN uaOp' = [uaOp EXCEPT !["control"] = UaIdle]
         ELSE uaOp' = [uaOp EXCEPT !["control"].step = "monitor"]
      /\ UNCHANGED <<uaMode, uaClient, uaSession, uaStateC, uaFill, uaHooked, uaCallers, uaNode, uaSub,
                     uaItems, uaHeap, uaIds, uaReaders, uaNote, uaWrong>>
  BY DEF UaUnmonitor, UaAt, UaDone, uaLinkVars, uaNodeVars, uaNoteVars, UaInv, UaTypes, UaOps, UaSteps
<1>1. PICK c \in UaOpRec : c = uaOp["control"]
  BY <1>0 DEF UaShape
<1>2. /\ uaOp' \in [UaOps -> UaOpRec] /\ \A b \in UaOps \ {"control"} : uaOp'[b] = uaOp[b]
      /\ uaOp'["control"].step = IF c.states = {} THEN "idle" ELSE "monitor"
      /\ uaOp'["control"].states = c.states
      /\ uaOp'["control"].sub = IF c.states = {} THEN 0 ELSE c.sub
  <2>1. CASE c.states = {}
    <3>1. uaOp' = [uaOp EXCEPT !["control"] = UaIdle]
      BY <1>0, <1>1, <2>1
    <3>2. /\ uaOp' \in [UaOps -> UaOpRec] /\ uaOp'["control"] = UaIdle
          /\ \A b \in UaOps \ {"control"} : uaOp'[b] = uaOp[b]
      BY <1>0, <3>1, UaSetOp, UaIdleIs
    <3> QED
      BY <2>1, <3>2, UaIdleIs
  <2>2. CASE c.states # {}
    <3>1. uaOp' = [uaOp EXCEPT !["control"].step = "monitor"]
      BY <1>0, <1>1, <2>2
    <3>2. /\ uaOp' \in [UaOps -> UaOpRec] /\ \A b \in UaOps \ {"control"} : uaOp'[b] = uaOp[b]
          /\ uaOp'["control"].step = "monitor" /\ uaOp'["control"].sub = uaOp["control"].sub
          /\ uaOp'["control"].states = uaOp["control"].states
      BY <1>0, <3>1, UaStepTo
    <3> QED
      BY <1>1, <2>2, <3>2
  <2> QED
    BY <2>1, <2>2
<1>3. /\ UaHandles' = UaHandles /\ UaSubs' = UaSubs
      /\ \A s \in UaSubs : uaServer'[s] \subseteq uaServer[s]
      /\ uaLost' \in BOOLEAN /\ (~uaLost' => ~uaLost)
      /\ ~uaLost' /\ c.sub \in UaSubs => uaServer'[c.sub] = UaLeftOf(uaServer[c.sub], c.old)
  <2>0. UaHandles' = UaHandles
    BY <1>0 DEF UaHandles
  <2>1. CASE /\ uaServer' = [s \in UaSubs |->
                  IF s = c.sub THEN {m \in uaServer[s] : m.id \notin c.old} ELSE uaServer[s]]
             /\ uaLost' = uaLost
    BY <1>0, <2>0, <2>1 DEF UaSubs, UaLeftOf, UaShape
  <2>2. CASE uaServer' = uaServer /\ uaLost' = TRUE
    BY <2>0, <2>2 DEF UaSubs
  <2> QED
    BY <1>1, <2>1, <2>2 DEF UaUnmonitor, UaServed
<1>4. UaShape'
  BY <1>0, <1>2, <1>3 DEF UaShape
<1>5. UaGiven'
  <2>1. UaGiven /\ 0 <= uaIds
    BY DEF UaInv, UaTypes, UaShape
  <2>2. \A b \in UaOps : uaOp'[b].states \subseteq UaHandles /\ uaOp'[b].sub <= uaIds
    BY <1>0, <1>1, <1>2, <2>1 DEF UaGiven
  <2>3. \A b \in UaOps : uaOp'[b].step = "stitch" => uaOp'[b] = uaOp[b]
    BY <1>2
  <2>4. uaOp'["rebuild"] = uaOp["rebuild"]
    BY <1>2 DEF UaOps
  <2>5. \A b \in UaOps : uaOp'[b].step = "stitch" =>
          \A m \in uaOp'[b].old : m \in UaMonitored /\ m.id \in 1 .. uaIds
    BY <2>1, <2>3 DEF UaGiven
  <2> QED
    BY <1>0, <1>3, <2>1, <2>2, <2>4, <2>5 DEF UaGiven
<1>6. UaServerOK'
  BY <1>0, <1>3 DEF UaInv, UaTypes, UaServerOK
<1>7. UaLinked' /\ UaNamed'
  BY <1>0, <1>3 DEF UaInv, UaLinked, UaNamed
<1>8. UaRoles'
  BY <1>0, <1>2, <1>3 DEF UaInv, UaRoles, UaOps
<1>9. UaKnown'
  BY <1>0, <1>2, <1>3 DEF UaInv, UaKnown, UaAt, UaOps
<1>10. UaTrue'
  <2> SUFFICES ASSUME UaLive' PROVE UaRebuilding' /\ UaControlling'
    BY DEF UaTrue
  <2>1. UaControlling /\ UaKnown /\ ~uaLost /\ ~uaLost'
    BY <1>0, <1>3 DEF UaInv, UaTrue, UaLive, UaCovered
  <2>2. uaOp["rebuild"].step = "idle" /\ uaOp'["rebuild"].step = "idle"
    BY <1>0, <1>2, <2>1 DEF UaKnown, UaAt, UaOps
  <2>3. /\ UaSubs = {uaSub} /\ c.sub = uaSub /\ c.states \subseteq uaItems
        /\ UaLeftOf(uaServer[uaSub], c.old) = UaIdOf(uaHeap, uaItems \ c.states)
    BY <1>0, <1>1, <2>1, <2>2 DEF UaControlling, UaLeftOf
  <2>4. uaServer'[uaSub] = UaIdOf(uaHeap, uaItems \ c.states)
    BY <1>3, <2>1, <2>3
  <2>5. UaRebuilding'
    BY <2>2 DEF UaRebuilding
  <2>6. CASE c.states = {}
    <3>1. uaItems \ c.states = uaItems
      BY <2>6
    <3> QED
      BY <1>0, <1>2, <1>3, <2>3, <2>4, <2>5, <2>6, <3>1 DEF UaControlling
  <2>7. CASE c.states # {}
    BY <1>0, <1>2, <1>3, <2>3, <2>4, <2>5, <2>7 DEF UaControlling
  <2> QED
    BY <2>6, <2>7
<1>11. UaMaking'
  <2> SUFFICES ASSUME ~uaLost' PROVE UaMaking'
    BY DEF UaMaking
  <2>1. uaOp'["rebuild"].step = "idle"
    BY <1>0, <1>2, <1>3 DEF UaInv, UaKnown, UaAt, UaOps
  <2> QED
    BY <2>1, UaMakingBegins
<1> QED
  BY <1>4, <1>5, <1>6, <1>7, <1>8, <1>9, <1>10, <1>11 DEF UaInv, UaTypes

-----------------------------------------------------------------------------
\* A step that changes nothing.
LEMMA UaStutterKeeps == ASSUME UaInv, UNCHANGED uaVars PROVE UaInv'
<1>1. UaShape' /\ UaLinked'
  BY DEF UaInv, UaTypes, UaShape, UaLinked, UaHandles, uaVars
<1>2. /\ UNCHANGED <<uaNode, uaNodeVars, uaOp, uaIds, uaNoteVars, uaLost>>
      /\ uaServer' = uaServer /\ (UaLive' => UaLive)
  BY DEF uaVars, uaNodeVars, uaNoteVars, UaLive, UaCovered
<1> QED
  BY <1>1, <1>2, UaLinkKeeps

\* Every step keeps the invariant.
LEMMA UaInductive == UaInv /\ [UaNext]_uaVars => UaInv'
<1> SUFFICES ASSUME UaInv, [UaNext]_uaVars PROVE UaInv'
  OBVIOUS
<1>1. CASE UNCHANGED uaVars
  BY <1>1, UaStutterKeeps
<1>2. CASE UaServerStart \/ UaConnect \/ UaDrop \/ UaServerStop \/ UaWatchState
  BY <1>2, UaConnectionKeeps
<1>3. CASE UaRegister
  BY <1>3, UaRegisterKeeps
<1>15. CASE UaOpen
  BY <1>15, UaOpenKeeps
<1>4. CASE UaStart
  BY <1>4, UaStartKeeps
<1>5. CASE UaStop
  BY <1>5, UaStopKeeps
<1>6. CASE UaHandleMessage
  BY <1>6, UaHandleMessageKeeps
<1>7. CASE UaPublish \/ UaConsume \/ UaConsumerReturns
  BY <1>7, UaNotesKeep
<1>8. CASE UaRebuild
  BY <1>8, UaRebuildKeeps
<1>9. CASE UaCancelOld
  BY <1>9, UaCancelOldKeeps
<1>10. CASE UaSubscribe
  BY <1>10, UaSubscribeKeeps
<1>11. CASE UaStore
  BY <1>11, UaStoreKeeps
<1>12. CASE UaStopCancel
  BY <1>12, UaStopCancelKeeps
<1>13. CASE UaUnmonitor
  BY <1>13, UaUnmonitorKeeps
<1>14. CASE \E a \in {"rebuild", "control"} : UaMonitor(a) \/ UaStitch(a)
  BY <1>14, UaMonitorKeeps, UaStitchKeeps
<1> QED
  BY <1>1, <1>2, <1>3, <1>4, <1>5, <1>6, <1>7, <1>8, <1>9, <1>10, <1>11, <1>12, <1>13, <1>14, <1>15
  DEF UaNext, UaProgress

\* With nothing under way the invariant says what the server has.
LEMMA UaInvIsSound == UaInv => UaSound
<1> SUFFICES ASSUME UaInv PROVE UaSound
  OBVIOUS
<1>1. UaRightItem
  BY DEF UaInv, UaNamed, UaRightItem
<1>2. ASSUME UaQuiet, ~uaLost, uaSession, uaNode = "run"
      PROVE  UaSubs = {uaSub} /\ uaServer[uaSub] = {[id |-> uaHeap[h].mon, handle |-> h] : h \in uaItems}
  <2>1. UaLive
    BY <1>2 DEF UaLive, UaCovered, UaQuiet, UaInv, UaTypes, UaShape
  <2>2. uaOp["rebuild"].step = "idle" /\ uaOp["control"].step = "idle"
    BY <1>2 DEF UaQuiet, UaAt, UaOps
  <2> QED
    BY <2>1, <2>2 DEF UaInv, UaTrue, UaControlling, UaIdOf, UaItem
<1>3. ASSUME UaQuiet, ~uaLost, uaNode = "stopped" PROVE UaSubs = {}
  <2>1. \A a \in UaOps : uaOp[a].step = "idle"
    BY <1>3 DEF UaQuiet, UaAt
  <2>2. \A s \in UaSubs : s = uaSub /\ uaSub = 0
    BY <1>3, <2>1 DEF UaInv, UaKnown, UaAt, UaOps
  <2>3. \A s \in UaSubs : s \in 1 .. uaIds
    BY DEF UaInv, UaTypes, UaServerOK
  <2> QED
    BY <2>2, <2>3
<1> QED
  BY <1>1, <1>2, <1>3 DEF UaSound, UaItemsMonitored

(***************************************************************************)
(* The opcua-subscribe node, for every set of variables, configuration and *)
(* bounds: with nothing under way on a live session the server monitors    *)
(* exactly the items the node holds, each under the id the node would      *)
(* remove it with, and none for a stopped node, however sessions were lost *)
(* and rebuilds coalesced; every value goes out under the NodeID it is of. *)
(* The first half is not claimed once uaLost holds: a caller dropped out   *)
(* for a rebuild that was not UaCurrent, a rebuild met a control message   *)
(* or Stop, or a request failed on a live session (see UaItemsMonitored,   *)
(* and UaCoalescingSafe and UaStopLeavesNone for what is then false).      *)
(***************************************************************************)
THEOREM ItemsStayMonitored == UaSpec => []UaSound
<1>1. UaSpec => []UaInv
  BY UaInitially, UaInductive, PTL DEF UaSpec
<1>2. []UaInv => []UaSound
  BY UaInvIsSound, PTL
<1> QED
  BY <1>1, <1>2, PTL

-----------------------------------------------------------------------------
(***************************************************************************)
(* opcua-read and opcua-write.                                             *)
(***************************************************************************)

IoWriteSteps == {"idle", "resolve", "lookup", "cache", "sent", "served"}
IoWriteRec == [step : IoWriteSteps, specs : Seq(IoIds), at : Nat, rows : Seq(IoCodes), got : 0 .. 2]
IoReadSteps == {"idle", "warm", "schema", "read"}
IoReadRec == [step : IoReadSteps, list : Seq(IoIds), mine : SUBSET IoIds]

\* The types.
IoLinkOK ==
  /\ ioClient \in {"open", "closed"} /\ ioSession \in BOOLEAN /\ ioReset \in BOOLEAN
  /\ ioStale \in BOOLEAN /\ (ioSession => ioClient = "open")
  /\ ioType \in [IoIds -> 1 .. 2]
  /\ ioShown \in [IoReaders \cup {"writer"} -> {"grey", "green", "yellow", "red"}]
IoCachesOK ==
  ioCache \in [IoIds -> 0 .. 2] /\ ioWarm \subseteq IoIds /\ ioSchema \subseteq IoStructs
IoReadOK == ioRead \in [IoReaders -> IoReadRec]
IoWriteOK ==
  /\ ioWrite \in IoWriteRec /\ Len(ioWrite.rows) = Len(ioWrite.specs)
  /\ ioWrite.step \in {"lookup", "cache"} => ioWrite.at \in 1 .. Len(ioWrite.specs)
  /\ ioWrite.step = "resolve" => ioWrite.at > 0
  /\ ioApplied \subseteq 1 .. Len(ioWrite.specs)

\* What a row may be before the request has been answered or has failed.
IoEarly == {"none", "BadConnectionClosed", "BadInvalidArgument", "BadTypeMismatch", "BadEncodingError"}

\* What the server applies of a request.
IoGranted == {IoPairs[j] : j \in {k \in 1 .. Len(IoPairs) : IoAnswer[k] = "Good"}}

\* Nothing is Good before the server has answered, nothing applied before it
\* has served the request.
IoUnanswered ==
  ioWrite.step # "idle" =>
    /\ \A i \in 1 .. Len(ioWrite.rows) : ioWrite.rows[i] \in IoEarly
    /\ ioApplied = IF ioWrite.step = "served" THEN IoGranted ELSE {}

\* The structures among the variables a reader was asked for.
IoWanted(r) == {v \in IoStructs : \E i \in 1 .. Len(ioRead[r].list) : ioRead[r].list[i] = v}

\* Unless a prewarm was crossed or failed: a marked structure is known or
\* about to be, and a reader reads what is known.
IoPrewarmed ==
  ~ioStale =>
    /\ \A v \in ioWarm \cap IoStructs :
         v \in ioSchema \/ \E r \in IoReaders : ioRead[r].step = "schema" /\ v \in ioRead[r].mine
    /\ \A r \in IoReaders :
         /\ ioRead[r].step = "schema" => IoWanted(r) \subseteq ioRead[r].mine \cup ioSchema
         /\ ioRead[r].step = "read" => IoWanted(r) \subseteq ioSchema

\* Unless a lookup was crossed: a cache is of the session there is, and empty
\* without one.
IoFresh ==
  (~ioStale /\ ~ioReset /\ ioClient = "open") =>
    /\ ioSession => /\ \A v \in IoIds : ioCache[v] \in {0, ioType[v]}
                    /\ ioWrite.step = "cache" => ioWrite.got = ioType[ioWrite.specs[ioWrite.at]]
    /\ ~ioSession => /\ \A v \in IoIds : ioCache[v] = 0
                     /\ ioWrite.step # "cache"

IoTypes == IoLinkOK /\ IoCachesOK /\ IoReadOK /\ IoWriteOK
IoInv == /\ IoTypes /\ IoUnanswered /\ IoRowsTruthful /\ IoPrewarmed /\ IoFresh
         /\ IoRecordsMatch

-----------------------------------------------------------------------------
\* A list made in order has every place once, at its rank.
LEMMA IoOrdered ==
  ASSUME NEW n \in Nat, NEW ns \in SUBSET (1 .. n)
  PROVE  /\ Cardinality(ns) \in Nat /\ Len(IoInOrder(ns)) = Cardinality(ns)
         /\ \A k \in 1 .. Cardinality(ns) : IoInOrder(ns)[k] \in ns /\ IoRank(ns, IoInOrder(ns)[k]) = k
         /\ \A i \in ns : IoRank(ns, i) \in 1 .. Cardinality(ns) /\ IoInOrder(ns)[IoRank(ns, i)] = i
<1>1. IsFiniteSet(1 .. n)
  BY FS_Interval
<1>2. IsFiniteSet(ns) /\ ns \in SUBSET Nat
  <2>1. IsFiniteSet(ns)
    BY <1>1, FS_Subset
  <2>2. 1 .. n \subseteq Nat
    OBVIOUS
  <2> QED
    BY <2>1, <2>2
<1>3. /\ Cardinality(ns) \in Nat
      /\ \A h \in ns : IoRank(ns, h) \in 1 .. Cardinality(ns)
      /\ \A h, k \in ns : IoRank(ns, h) = IoRank(ns, k) => h = k
  <2>1. \A h : IoRank(ns, h) = UaRankOf(ns, h)
    BY DEF IoRank, UaRankOf
  <2> QED
    BY <1>2, <2>1, UaRanks
<1>4. PICK c \in Nat : c = Cardinality(ns)
  BY <1>3
<1>5. \A k \in 1 .. c : \E i \in ns : IoRank(ns, i) = k
  <2> DEFINE f == [h \in ns |-> IoRank(ns, h)]
  <2>1. f \in Injection(ns, 1 .. c)
    <3>1. f \in [ns -> 1 .. c]
      BY <1>3, <1>4
    <3>2. \A a, b \in ns : f[a] = f[b] => a = b
      BY <1>3
    <3> QED
      BY <3>1, <3>2 DEF Injection, IsInjective
  <2>2. \A h \in ns : f[h] = IoRank(ns, h)
    OBVIOUS
  <2> HIDE DEF f
  <2>3. IsFiniteSet(1 .. c) /\ Cardinality(1 .. c) = c
    BY FS_Interval
  <2>4. f \in Surjection(ns, 1 .. c)
    BY <1>4, <2>1, <2>3, FS_Injection
  <2> QED
    BY <2>2, <2>4 DEF Surjection
<1>6. \A k \in 1 .. c : IoInOrder(ns)[k] \in ns /\ IoRank(ns, IoInOrder(ns)[k]) = k
  <2> SUFFICES ASSUME NEW k \in 1 .. c
               PROVE IoInOrder(ns)[k] \in ns /\ IoRank(ns, IoInOrder(ns)[k]) = k
    OBVIOUS
  <2>1. IoInOrder(ns)[k] = CHOOSE i \in ns : IoRank(ns, i) = k
    BY <1>4 DEF IoInOrder
  <2>2. \E i \in ns : IoRank(ns, i) = k
    BY <1>5
  <2>3. (CHOOSE i \in ns : IoRank(ns, i) = k) \in ns /\ IoRank(ns, CHOOSE i \in ns : IoRank(ns, i) = k) = k
    BY <2>2, Zenon
  <2> QED
    BY <2>1, <2>3
<1>7. Len(IoInOrder(ns)) = c
  BY <1>4 DEF IoInOrder
<1>8. \A i \in ns : IoRank(ns, i) \in 1 .. c /\ IoInOrder(ns)[IoRank(ns, i)] = i
  BY <1>3, <1>4, <1>6
<1> QED
  BY <1>4, <1>6, <1>7, <1>8

\* The result of an entry that parses is the one of that entry.
LEMMA IoResultIs ==
  ASSUME NEW list \in Seq(IoIds), NEW i \in 1 .. Len(list), IoParses(list[i])
  PROVE  IoResult(list, i) = list[i]
<1>1. IoToRead(list) \in SUBSET (1 .. Len(list)) /\ i \in IoToRead(list) /\ Len(list) \in Nat
  BY DEF IoToRead
<1>2. IoInOrder(IoToRead(list))[IoRank(IoToRead(list), i)] = i
  BY <1>1, IoOrdered
<1> QED
  BY <1>2 DEF IoResult

-----------------------------------------------------------------------------
\* The caches are empty and no call is under way.
LEMMA IoInitially == IoInit => IoInv
<1> SUFFICES ASSUME IoInit PROVE IoInv
  OBVIOUS
<1>0. <<>> \in Seq(IoIds) /\ <<>> \in Seq(IoCodes)
  OBVIOUS
<1>1. IoWriteIdle \in IoWriteRec /\ IoWriteIdle.step = "idle" /\ IoWriteIdle.specs = <<>> /\ IoWriteIdle.rows = <<>>
  BY <1>0 DEF IoWriteIdle, IoWriteRec, IoWriteSteps
<1>2. IoReadIdle \in IoReadRec /\ IoReadIdle.step = "idle"
  BY <1>0 DEF IoReadIdle, IoReadRec, IoReadSteps
<1>3. IoLinkOK
  <2>1. ioType \in [IoIds -> 1 .. 2]
    BY DEF IoInit
  <2>2. ioShown \in [IoReaders \cup {"writer"} -> {"grey", "green", "yellow", "red"}]
    BY DEF IoInit
  <2> QED
    BY <2>1, <2>2 DEF IoInit, IoLinkOK
<1>11. IoCachesOK
  <2>1. ioCache \in [IoIds -> 0 .. 2]
    BY DEF IoInit
  <2> QED
    BY <2>1 DEF IoInit, IoCachesOK
<1>4. IoReadOK
  BY <1>2 DEF IoInit, IoReadOK
<1>5. IoWriteOK
  BY <1>1 DEF IoInit, IoWriteOK
<1>6. IoUnanswered
  BY <1>1 DEF IoInit, IoUnanswered
<1>7. IoRowsTruthful
  BY <1>1 DEF IoInit, IoRowsTruthful
<1>8. IoPrewarmed
  BY <1>2 DEF IoInit, IoPrewarmed
<1>9. IoFresh
  BY <1>1 DEF IoInit, IoFresh
<1>10. IoRecordsMatch
  BY DEF IoInit, IoRecordsMatch
<1> QED
  BY <1>3, <1>4, <1>5, <1>6, <1>7, <1>8, <1>9, <1>10, <1>11 DEF IoInv, IoTypes

\* A step that has no part in a read.
LEMMA IoReadsSame ==
  ASSUME IoInv, UNCHANGED <<ioRead, ioPayload, ioWarm, ioSchema>>, ioStale => ioStale'
  PROVE  IoReadOK' /\ IoPrewarmed' /\ IoRecordsMatch'
<1>1. IoReadOK'
  BY DEF IoInv, IoTypes, IoReadOK
<1>2. \A r \in IoReaders : IoWanted(r)' = IoWanted(r)
  BY DEF IoWanted
<1>3. IoPrewarmed'
  BY <1>2 DEF IoInv, IoPrewarmed
<1>4. IoRecordsMatch'
  BY DEF IoInv, IoRecordsMatch
<1> QED
  BY <1>1, <1>3, <1>4

\* A step that has no part in a write.
LEMMA IoWriteSame ==
  ASSUME IoInv, UNCHANGED <<ioWrite, ioApplied>>
  PROVE  IoWriteOK' /\ IoUnanswered' /\ IoRowsTruthful'
<1>1. IoGranted' = IoGranted
  BY DEF IoGranted, IoPairs, IoSubmitted, IoAnswer
<1> QED
  BY <1>1 DEF IoInv, IoTypes, IoWriteOK, IoUnanswered, IoRowsTruthful

-----------------------------------------------------------------------------
\* The session is lost, comes back or is closed.
LEMMA IoSessionKeeps == ASSUME IoInv, IoDrop \/ IoReconnect \/ IoClose PROVE IoInv'
<1>0. /\ UNCHANGED <<ioCache, ioWarm, ioSchema, ioWrite, ioApplied, ioRead, ioPayload, ioShown, ioStale>>
      /\ IoTypes
  BY DEF IoDrop, IoReconnect, IoClose, ioCaches, ioWriter, ioReader, IoInv
<1>1. IoReadOK' /\ IoPrewarmed' /\ IoRecordsMatch'
  BY <1>0, IoReadsSame
<1>2. IoWriteOK' /\ IoUnanswered' /\ IoRowsTruthful'
  BY <1>0, IoWriteSame
<1>3. IoCachesOK'
  BY <1>0 DEF IoTypes, IoCachesOK
<1>4. CASE IoDrop
  <2>1. IoLinkOK' /\ IoFresh'
    BY <1>0, <1>4 DEF IoDrop, IoTypes, IoLinkOK, IoFresh
  <2> QED
    BY <1>1, <1>2, <1>3, <2>1 DEF IoInv, IoTypes
<1>5. CASE IoReconnect
  <2>1. ioType' \in [IoIds -> 1 .. 2]
    <3>1. \A v \in IoIds : 3 - ioType[v] \in 1 .. 2
      BY <1>0 DEF IoTypes, IoLinkOK
    <3> QED
      BY <1>0, <1>5, <3>1 DEF IoReconnect, IoTypes, IoLinkOK
  <2>2. IoLinkOK'
    BY <1>0, <1>5, <2>1 DEF IoReconnect, IoTypes, IoLinkOK
  <2>3. IoFresh'
    BY <1>0, <1>5 DEF IoReconnect, IoInv, IoFresh
  <2> QED
    BY <1>1, <1>2, <1>3, <2>2, <2>3 DEF IoInv, IoTypes
<1>6. CASE IoClose
  <2>1. IoLinkOK' /\ IoFresh'
    BY <1>0, <1>6 DEF IoClose, IoTypes, IoLinkOK, IoFresh
  <2> QED
    BY <1>1, <1>2, <1>3, <2>1 DEF IoInv, IoTypes
<1> QED
  BY <1>4, <1>5, <1>6

\* watchState empties the caches.
LEMMA IoResetKeeps == ASSUME IoInv, IoResetCaches PROVE IoInv'
<1>0. /\ ioReset' = FALSE /\ ioCache' = [v \in IoIds |-> 0] /\ ioSchema' = {} /\ ioWarm' = {}
      /\ ioStale' = (ioStale \/ ioWrite.step = "cache" \/ \E r \in IoReaders : ioRead[r].step # "idle")
      /\ UNCHANGED <<ioClient, ioSession, ioType, ioWrite, ioApplied, ioRead, ioPayload, ioShown>> /\ IoTypes
  BY DEF IoResetCaches, ioWriter, ioReader, IoInv
<1>1. IoWriteOK' /\ IoUnanswered' /\ IoRowsTruthful'
  BY <1>0, IoWriteSame
<1>2. IoLinkOK' /\ IoCachesOK' /\ IoReadOK'
  <2>1. ioStale' \in BOOLEAN
    BY <1>0, Zenon
  <2>2. ioCache' \in [IoIds -> 0 .. 2]
    BY <1>0
  <2> QED
    BY <1>0, <2>1, <2>2 DEF IoTypes, IoLinkOK, IoCachesOK, IoReadOK
<1>3. IoPrewarmed'
  BY <1>0 DEF IoPrewarmed
<1>4. IoFresh'
  BY <1>0 DEF IoFresh
<1>5. IoRecordsMatch'
  BY <1>0 DEF IoInv, IoRecordsMatch
<1> QED
  BY <1>1, <1>2, <1>3, <1>4, <1>5 DEF IoInv, IoTypes

-----------------------------------------------------------------------------
\* A write that goes on: no row is Good and nothing is applied.
LEMMA IoGoesOn ==
  ASSUME IoInv, ioWrite.step \notin {"idle", "served"}, UNCHANGED ioApplied, NEW w \in IoWriteRec,
         ioWrite' = w, w.step \notin {"idle", "served"}, w.specs = ioWrite.specs, Len(w.rows) = Len(ioWrite.rows),
         \A i \in 1 .. Len(w.rows) : w.rows[i] \in IoEarly,
         w.step = "resolve" => w.at > 0,
         w.step \in {"lookup", "cache"} => w.at \in 1 .. Len(ioWrite.specs)
  PROVE  IoWriteOK' /\ IoUnanswered' /\ IoRowsTruthful'
<1>1. IoWriteOK'
  BY DEF IoInv, IoTypes, IoWriteOK
<1>2. IoUnanswered'
  BY DEF IoInv, IoUnanswered
<1>3. IoRowsTruthful'
  BY DEF IoRowsTruthful
<1> QED
  BY <1>1, <1>2, <1>3

\* A row is filled and the next spec taken.
LEMMA IoRowIs ==
  ASSUME IoWriteOK, NEW i \in 1 .. Len(ioWrite.specs), NEW code \in IoEarly,
         \A j \in 1 .. Len(ioWrite.rows) : ioWrite.rows[j] \in IoEarly
  PROVE  /\ IoRow(i, code) \in IoWriteRec /\ IoRow(i, code).step = "resolve" /\ IoRow(i, code).at = i + 1
         /\ IoRow(i, code).specs = ioWrite.specs /\ Len(IoRow(i, code).rows) = Len(ioWrite.rows)
         /\ \A j \in 1 .. Len(IoRow(i, code).rows) : IoRow(i, code).rows[j] \in IoEarly
<1>1. PICK w \in IoWriteRec : w = ioWrite
  BY DEF IoWriteOK
<1>2. w.rows \in Seq(IoCodes) /\ Len(w.rows) = Len(w.specs) /\ Len(w.specs) \in Nat /\ w.specs \in Seq(IoIds)
  BY <1>1 DEF IoWriteOK, IoWriteRec
<1> DEFINE rows == [w.rows EXCEPT ![i] = code]
<1>0. code \in IoCodes
  BY DEF IoEarly, IoCodes
<1>3. rows \in Seq(IoCodes) /\ Len(rows) = Len(w.rows) /\ i + 1 \in Nat
  BY <1>0, <1>1, <1>2
<1>4. \A j \in 1 .. Len(rows) : rows[j] \in IoEarly
  BY <1>1, <1>2, <1>3
<1>5. IoRow(i, code) = [w EXCEPT !.rows = rows, !.at = i + 1, !.step = "resolve"]
  BY <1>1 DEF IoRow
<1> HIDE DEF rows
<1>6. /\ IoRow(i, code) \in IoWriteRec /\ IoRow(i, code).step = "resolve" /\ IoRow(i, code).at = i + 1
      /\ IoRow(i, code).specs = w.specs /\ IoRow(i, code).rows = rows
  BY <1>3, <1>5 DEF IoWriteRec, IoWriteSteps
<1> QED
  BY <1>1, <1>3, <1>4, <1>6

\* coerceOrEncode goes on with the next spec.
LEMMA IoCoerced ==
  ASSUME IoWriteOK, NEW i \in 1 .. Len(ioWrite.specs),
         \A j \in 1 .. Len(ioWrite.rows) : ioWrite.rows[j] \in IoEarly
  PROVE  /\ coerceOrEncode(i) \in IoWriteRec /\ coerceOrEncode(i).step = "resolve" /\ coerceOrEncode(i).at = i + 1
         /\ coerceOrEncode(i).specs = ioWrite.specs /\ Len(coerceOrEncode(i).rows) = Len(ioWrite.rows)
         /\ \A j \in 1 .. Len(coerceOrEncode(i).rows) : coerceOrEncode(i).rows[j] \in IoEarly
<1>1. CASE IoKind[ioWrite.specs[i]] = "badValue"
  <2>1. coerceOrEncode(i) = IoRow(i, "BadTypeMismatch") /\ "BadTypeMismatch" \in IoEarly
    BY <1>1 DEF coerceOrEncode, IoEarly
  <2> QED
    BY <2>1, IoRowIs
<1>2. CASE IoKind[ioWrite.specs[i]] # "badValue"
  <2>1. PICK w \in IoWriteRec : w = ioWrite
    BY DEF IoWriteOK
  <2>2. coerceOrEncode(i) = [w EXCEPT !.at = i + 1, !.step = "resolve"] /\ i + 1 \in Nat
    BY <1>2, <2>1 DEF coerceOrEncode
  <2>3. /\ coerceOrEncode(i) \in IoWriteRec /\ coerceOrEncode(i).step = "resolve" /\ coerceOrEncode(i).at = i + 1
        /\ coerceOrEncode(i).specs = w.specs /\ coerceOrEncode(i).rows = w.rows
    BY <2>2 DEF IoWriteRec, IoWriteSteps
  <2> QED
    BY <2>1, <2>3
<1> QED
  BY <1>1, <1>2

\* resolveTypeID: the cache, or a lookup.
LEMMA IoResolveKeeps == ASSUME IoInv, IoResolve PROVE IoInv'
<1>0. /\ ioWrite.step = "resolve" /\ ioWrite.at <= Len(ioWrite.specs)
      /\ UNCHANGED <<ioClient, ioSession, ioReset, ioType, ioCache, ioWarm, ioSchema, ioApplied, ioRead,
                     ioPayload, ioShown, ioStale>>
      /\ IoTypes /\ IoWriteOK /\ IoUnanswered
  BY DEF IoResolve, ioLink, ioCaches, ioReader, IoInv, IoTypes
<1>1. PICK w \in IoWriteRec : w = ioWrite
  BY <1>0 DEF IoWriteOK
<1>2. PICK i \in 1 .. Len(ioWrite.specs) : i = ioWrite.at
  BY <1>0, <1>1 DEF IoWriteOK, IoWriteRec
<1>3. \A j \in 1 .. Len(ioWrite.rows) : ioWrite.rows[j] \in IoEarly
  BY <1>0 DEF IoUnanswered
<1>4. \/ \E code \in {"BadInvalidArgument", "BadTypeMismatch"} : ioWrite' = IoRow(i, code)
      \/ ioWrite' = coerceOrEncode(i)
      \/ ioWrite' = [ioWrite EXCEPT !.step = "lookup"]
  BY <1>2 DEF IoResolve
<1>5. {"BadInvalidArgument", "BadTypeMismatch"} \subseteq IoEarly
  BY DEF IoEarly
<1>6. IoWriteOK' /\ IoUnanswered' /\ IoRowsTruthful' /\ ioWrite'.step # "cache"
  <2>1. CASE \E code \in {"BadInvalidArgument", "BadTypeMismatch"} : ioWrite' = IoRow(i, code)
    <3>0. PICK code \in IoEarly : ioWrite' = IoRow(i, code)
      BY <1>5, <2>1
    <3>1. PICK r \in IoWriteRec : r = IoRow(i, code)
      BY <1>0, <1>3, IoRowIs
    <3>2. /\ r.step = "resolve" /\ r.at = i + 1 /\ r.specs = ioWrite.specs /\ Len(r.rows) = Len(ioWrite.rows)
          /\ \A j \in 1 .. Len(r.rows) : r.rows[j] \in IoEarly
      BY <1>0, <1>3, <3>1, IoRowIs
    <3>3. ioWrite' = r /\ r.at > 0
      BY <3>0, <3>1, <3>2
    <3> QED
      BY <1>0, <3>2, <3>3, IoGoesOn
  <2>2. CASE ioWrite' = coerceOrEncode(i)
    <3>1. PICK r \in IoWriteRec : r = coerceOrEncode(i)
      BY <1>0, <1>3, IoCoerced
    <3>2. /\ r.step = "resolve" /\ r.at = i + 1 /\ r.specs = ioWrite.specs /\ Len(r.rows) = Len(ioWrite.rows)
          /\ \A j \in 1 .. Len(r.rows) : r.rows[j] \in IoEarly
      BY <1>0, <1>3, <3>1, IoCoerced
    <3>3. ioWrite' = r /\ r.at > 0
      BY <2>2, <3>1, <3>2
    <3> QED
      BY <1>0, <3>2, <3>3, IoGoesOn
  <2>3. CASE ioWrite' = [ioWrite EXCEPT !.step = "lookup"]
    <3>1. PICK r : r = [w EXCEPT !.step = "lookup"]
      OBVIOUS
    <3>2. /\ r \in IoWriteRec /\ r.step = "lookup" /\ r.at = w.at /\ r.specs = w.specs /\ r.rows = w.rows
      BY <3>1 DEF IoWriteRec, IoWriteSteps
    <3>3. ioWrite' = r /\ r.at \in 1 .. Len(ioWrite.specs)
      BY <1>1, <1>2, <2>3, <3>1, <3>2
    <3> QED
      BY <1>0, <1>1, <1>3, <3>2, <3>3, IoGoesOn
  <2> QED
    BY <1>4, <2>1, <2>2, <2>3
<1>7. IoReadOK' /\ IoPrewarmed' /\ IoRecordsMatch'
  BY <1>0, IoReadsSame
<1>8. IoLinkOK' /\ IoCachesOK'
  BY <1>0 DEF IoTypes, IoLinkOK, IoCachesOK
<1>9. IoFresh'
  BY <1>0, <1>6 DEF IoInv, IoFresh
<1> QED
  BY <1>6, <1>7, <1>8, <1>9 DEF IoInv, IoTypes

\* LookupDataType, the Read of the attribute.
LEMMA IoLookupKeeps == ASSUME IoInv, IoLookup PROVE IoInv'
<1>0. /\ ioWrite.step = "lookup" /\ ioWrite.at \in 1 .. Len(ioWrite.specs)
      /\ UNCHANGED <<ioClient, ioSession, ioReset, ioType, ioCache, ioWarm, ioSchema, ioApplied, ioRead,
                     ioPayload, ioShown, ioStale>>
      /\ IoTypes /\ IoWriteOK /\ IoUnanswered
  BY DEF IoLookup, ioLink, ioCaches, ioReader, IoInv, IoTypes, IoWriteOK
<1>1. PICK w \in IoWriteRec : w = ioWrite
  BY <1>0 DEF IoWriteOK
<1>2. PICK i \in 1 .. Len(ioWrite.specs) : i = ioWrite.at
  BY <1>0
<1>3. \A j \in 1 .. Len(ioWrite.rows) : ioWrite.rows[j] \in IoEarly
  BY <1>0 DEF IoUnanswered
<1>4. PICK v \in IoIds : v = w.specs[i]
  BY <1>1, <1>2 DEF IoWriteRec
<1>5. /\ IoWriteOK' /\ IoUnanswered' /\ IoRowsTruthful'
      /\ ioWrite'.step = "cache" => /\ ioSession /\ ioWrite'.got = ioType[v]
                                    /\ ioWrite'.specs = w.specs /\ ioWrite'.at = w.at
  <2>0. \/ ioWrite' = IoRow(ioWrite.at, "BadTypeMismatch")
        \/ ioSession /\ ioWrite' = [ioWrite EXCEPT !.step = "cache", !.got = ioType[ioWrite.specs[ioWrite.at]]]
    BY DEF IoLookup
  <2>1. CASE ioWrite' = IoRow(ioWrite.at, "BadTypeMismatch")
    <3>0. "BadTypeMismatch" \in IoEarly /\ ioWrite' = IoRow(i, "BadTypeMismatch")
      BY <1>2, <2>1 DEF IoEarly
    <3>1. PICK r \in IoWriteRec : r = IoRow(i, "BadTypeMismatch")
      BY <1>0, <1>3, <3>0, IoRowIs
    <3>2. /\ r.step = "resolve" /\ r.at = i + 1 /\ r.specs = ioWrite.specs /\ Len(r.rows) = Len(ioWrite.rows)
          /\ \A j \in 1 .. Len(r.rows) : r.rows[j] \in IoEarly
      BY <1>0, <1>3, <3>0, <3>1, IoRowIs
    <3>3. ioWrite' = r /\ r.at > 0
      BY <3>0, <3>1, <3>2
    <3> QED
      BY <1>0, <3>2, <3>3, IoGoesOn
  <2>2. CASE ioSession /\ ioWrite' = [ioWrite EXCEPT !.step = "cache", !.got = ioType[ioWrite.specs[ioWrite.at]]]
    <3>1. PICK r : r = [w EXCEPT !.step = "cache", !.got = ioType[v]]
      OBVIOUS
    <3>2. ioType[v] \in 0 .. 2
      BY <1>0 DEF IoTypes, IoLinkOK
    <3>3. /\ r \in IoWriteRec /\ r.step = "cache" /\ r.at = w.at /\ r.specs = w.specs /\ r.rows = w.rows
          /\ r.got = ioType[v]
      BY <3>1, <3>2 DEF IoWriteRec, IoWriteSteps
    <3>4. ioWrite' = r /\ r.at \in 1 .. Len(ioWrite.specs)
      BY <1>1, <1>2, <1>4, <2>2, <3>1, <3>3
    <3> QED
      BY <1>0, <1>1, <1>3, <2>2, <3>3, <3>4, IoGoesOn
  <2> QED
    BY <2>0, <2>1, <2>2
<1>6. IoReadOK' /\ IoPrewarmed' /\ IoRecordsMatch'
  BY <1>0, IoReadsSame
<1>7. IoLinkOK' /\ IoCachesOK'
  BY <1>0 DEF IoTypes, IoLinkOK, IoCachesOK
<1>8. IoFresh'
  BY <1>0, <1>1, <1>2, <1>4, <1>5 DEF IoInv, IoFresh
<1> QED
  BY <1>5, <1>6, <1>7, <1>8 DEF IoInv, IoTypes

\* cache.set.
LEMMA IoCacheSetKeeps == ASSUME IoInv, IoCacheSet PROVE IoInv'
<1>0. /\ ioWrite.step = "cache" /\ ioWrite.at \in 1 .. Len(ioWrite.specs)
      /\ ioStale' = (ioStale \/ ~ioSession)
      /\ ioCache' = [ioCache EXCEPT ![ioWrite.specs[ioWrite.at]] = ioWrite.got]
      /\ UNCHANGED <<ioClient, ioSession, ioReset, ioType, ioWarm, ioSchema, ioApplied, ioRead,
                     ioPayload, ioShown>>
      /\ IoTypes /\ IoWriteOK /\ IoUnanswered
  BY DEF IoCacheSet, ioLink, ioReader, IoInv, IoTypes, IoWriteOK
<1>1. PICK w \in IoWriteRec : w = ioWrite
  BY <1>0 DEF IoWriteOK
<1>2. PICK i \in 1 .. Len(ioWrite.specs) : i = ioWrite.at
  BY <1>0
<1>3. \A j \in 1 .. Len(ioWrite.rows) : ioWrite.rows[j] \in IoEarly
  BY <1>0 DEF IoUnanswered
<1>4. PICK v \in IoIds : v = ioWrite.specs[ioWrite.at]
  BY <1>1, <1>2 DEF IoWriteRec
<1>5. w.got \in 0 .. 2
  BY DEF IoWriteRec
<1>6. ioCache' \in [IoIds -> 0 .. 2] /\ ioCache'[v] = ioWrite.got /\ \A u \in IoIds \ {v} : ioCache'[u] = ioCache[u]
  BY <1>0, <1>1, <1>4, <1>5 DEF IoTypes, IoCachesOK
<1>7. IoWriteOK' /\ IoUnanswered' /\ IoRowsTruthful' /\ ioWrite'.step = "resolve"
  <2>1. PICK r \in IoWriteRec : r = coerceOrEncode(i)
    BY <1>0, <1>3, IoCoerced
  <2>2. /\ r.step = "resolve" /\ r.at = i + 1 /\ r.specs = ioWrite.specs /\ Len(r.rows) = Len(ioWrite.rows)
        /\ \A j \in 1 .. Len(r.rows) : r.rows[j] \in IoEarly
    BY <1>0, <1>3, <2>1, IoCoerced
  <2>3. ioWrite' = r /\ r.at > 0
    BY <1>2, <2>1, <2>2 DEF IoCacheSet
  <2> QED
    BY <1>0, <2>2, <2>3, IoGoesOn
<1>8. ioStale' \in BOOLEAN
  BY <1>0, Zenon
<1>9. IoReadOK' /\ IoPrewarmed' /\ IoRecordsMatch'
  BY <1>0, IoReadsSame
<1>10. IoLinkOK' /\ IoCachesOK'
  BY <1>0, <1>6, <1>8 DEF IoTypes, IoLinkOK, IoCachesOK
<1>11. IoFresh'
  <2> SUFFICES ASSUME ~ioStale', ~ioReset', ioClient' = "open"
               PROVE  ioSession /\ \A u \in IoIds : ioCache'[u] \in {0, ioType[u]}
    BY <1>0, <1>7 DEF IoFresh
  <2>1. ioSession /\ ~ioStale
    BY <1>0
  <2>2. (\A u \in IoIds : ioCache[u] \in {0, ioType[u]}) /\ ioWrite.got = ioType[v]
    BY <1>0, <1>4, <2>1 DEF IoInv, IoFresh
  <2> QED
    BY <1>6, <2>1, <2>2
<1> QED
  BY <1>7, <1>9, <1>10, <1>11 DEF IoInv, IoTypes

-----------------------------------------------------------------------------
\* HandleMessage of opcua-write.
LEMMA IoHandleWriteKeeps == ASSUME IoInv, NEW list \in IoLists, IoHandleWrite(list) PROVE IoInv'
<1>0. /\ ioWrite.step = "idle" /\ ioApplied' = {}
      /\ UNCHANGED <<ioClient, ioSession, ioReset, ioType, ioCache, ioWarm, ioSchema, ioRead,
                     ioPayload, ioStale>>
      /\ IoTypes
  BY DEF IoHandleWrite, ioLink, ioCaches, ioReader, IoInv
<1>1. list \in Seq(IoIds) /\ Len(list) \in Nat
  BY IoAssumption DEF IoIds
<1>2. PICK w : w = ioWrite'
  OBVIOUS
<1>3. PICK rows : /\ rows \in Seq(IoCodes) /\ Len(rows) = Len(list) /\ \A i \in 1 .. Len(rows) : rows[i] \in IoEarly
                  /\ \/ w = [step |-> "resolve", specs |-> list, at |-> 1, got |-> 0, rows |-> rows]
                     \/ w = [step |-> "idle", specs |-> list, at |-> 0, got |-> 0, rows |-> rows]
  <2>1. \A c \in IoEarly :
           /\ [i \in 1 .. Len(list) |-> c] \in Seq(IoCodes) /\ Len([i \in 1 .. Len(list) |-> c]) = Len(list)
           /\ \A i \in 1 .. Len([i \in 1 .. Len(list) |-> c]) : [k \in 1 .. Len(list) |-> c][i] # "Good"
    BY <1>1 DEF IoEarly, IoCodes
  <2>2. "none" \in IoEarly /\ "BadConnectionClosed" \in IoEarly
    BY DEF IoEarly
  <2> QED
    BY <1>2, <2>1, <2>2 DEF IoHandleWrite
<1>4. /\ w \in IoWriteRec /\ w.specs = list /\ w.rows = rows /\ w.step \in {"resolve", "idle"}
      /\ w.step = "resolve" => w.at = 1
  BY <1>1, <1>3 DEF IoWriteRec, IoWriteSteps
<1>5. IoWriteOK' /\ IoUnanswered' /\ IoRowsTruthful'
  <2>1. DOMAIN list = 1 .. Len(list)
    BY <1>1
  <2>2. \A c \in IoEarly : c # "Good" /\ c # "BadCommunicationError"
    BY DEF IoEarly
  <2> QED
    BY <1>0, <1>1, <1>2, <1>3, <1>4, <2>1, <2>2 DEF IoWriteOK, IoUnanswered, IoRowsTruthful
<1>6. IoReadOK' /\ IoPrewarmed' /\ IoRecordsMatch'
  BY <1>0, IoReadsSame
<1>7. ioShown' \in [IoReaders \cup {"writer"} -> {"grey", "green", "yellow", "red"}]
  BY <1>0 DEF IoHandleWrite, IoTypes, IoLinkOK
<1>8. IoLinkOK' /\ IoCachesOK'
  BY <1>0, <1>7 DEF IoTypes, IoLinkOK, IoCachesOK
<1>9. IoFresh'
  BY <1>0, <1>2, <1>4 DEF IoInv, IoFresh
<1> QED
  BY <1>5, <1>6, <1>8, <1>9 DEF IoInv, IoTypes

\* A request holds the rows that are open, each once.
LEMMA IoRequest ==
  ASSUME IoWriteOK
  PROVE  /\ Len(IoPairs) \in Nat /\ IoSubmitted \subseteq 1 .. Len(ioWrite.specs)
         /\ \A k \in 1 .. Len(IoPairs) : IoPairs[k] \in IoSubmitted
         /\ \A i \in IoSubmitted : \E k \in 1 .. Len(IoPairs) : IoPairs[k] = i
         /\ \A j, k \in 1 .. Len(IoPairs) : IoPairs[j] = IoPairs[k] => j = k
         /\ \A k \in 1 .. Len(IoPairs) : IoAnswer[k] \in {"Good", "BadNotWritable"}
         /\ IoGranted \subseteq IoSubmitted
<1>1. PICK n \in Nat : n = Len(ioWrite.specs)
  BY DEF IoWriteOK, IoWriteRec
<1>2. IoSubmitted \in SUBSET (1 .. n)
  BY <1>1 DEF IoSubmitted
<1>3. PICK c \in Nat : c = Cardinality(IoSubmitted) /\ c = Len(IoPairs)
  BY <1>2, IoOrdered DEF IoPairs
<1>4. \A k \in 1 .. c : IoPairs[k] \in IoSubmitted /\ IoRank(IoSubmitted, IoPairs[k]) = k
  BY <1>2, <1>3, IoOrdered DEF IoPairs
<1>5. \A i \in IoSubmitted : \E k \in 1 .. c : IoPairs[k] = i
  BY <1>2, <1>3, IoOrdered DEF IoPairs
<1>6. \A j, k \in 1 .. c : IoPairs[j] = IoPairs[k] => j = k
  BY <1>4
<1>7. \A k \in 1 .. c : IoAnswer[k] \in {"Good", "BadNotWritable"}
  BY <1>3 DEF IoAnswer
<1>8. IoGranted \subseteq IoSubmitted
  BY <1>3, <1>4 DEF IoGranted
<1> QED
  BY <1>1, <1>2, <1>3, <1>4, <1>5, <1>6, <1>7, <1>8

\* A write that has returned with these rows.
LEMMA IoReturns ==
  ASSUME IoInv, NEW rows, NEW applied, rows = [i \in 1 .. Len(ioWrite.specs) |-> rows[i]],
         \A i \in 1 .. Len(ioWrite.specs) :
           /\ rows[i] \in IoCodes /\ (rows[i] = "Good" => i \in applied)
           /\ i \in applied => rows[i] \in {"Good", "BadCommunicationError"}
           /\ rows[i] = "BadCommunicationError" => \A j \in 1 .. Len(ioWrite.specs) : rows[j] # "Good",
         applied \subseteq 1 .. Len(ioWrite.specs), ioApplied' = applied,
         ioWrite' = [ioWrite EXCEPT !.step = "idle", !.rows = rows],
         ioShown' \in [IoReaders \cup {"writer"} -> {"grey", "green", "yellow", "red"}],
         UNCHANGED <<ioClient, ioSession, ioReset, ioType, ioCache, ioWarm, ioSchema, ioRead, ioPayload, ioStale>>
  PROVE  IoInv'
<1>0. IoTypes /\ IoWriteOK
  BY DEF IoInv, IoTypes
<1>1. PICK w \in IoWriteRec : w = ioWrite
  BY <1>0 DEF IoWriteOK
<1>2. PICK n \in Nat : n = Len(ioWrite.specs)
  BY <1>1 DEF IoWriteRec
<1>3. rows \in Seq(IoCodes) /\ Len(rows) = n
  <2>1. \A i \in 1 .. n : rows[i] \in IoCodes
    BY <1>2
  <2>2. rows = [i \in 1 .. n |-> rows[i]]
    BY <1>2
  <2> QED
    BY <2>1, <2>2
<1>4. PICK r : r = [w EXCEPT !.step = "idle", !.rows = rows]
  OBVIOUS
<1>5. r \in IoWriteRec /\ r.step = "idle" /\ r.rows = rows /\ r.specs = w.specs
  BY <1>3, <1>4 DEF IoWriteRec, IoWriteSteps
<1>6. ioWrite' = r
  BY <1>1, <1>4
<1>7. DOMAIN r.specs = 1 .. n
  <2>1. r.specs \in Seq(IoIds) /\ Len(r.specs) = n
    BY <1>1, <1>2, <1>5 DEF IoWriteRec
  <2> QED
    BY <2>1, LenProperties
<1>8. IoWriteOK' /\ IoUnanswered'
  BY <1>1, <1>2, <1>3, <1>5, <1>6 DEF IoWriteOK, IoUnanswered
<1>9. IoRowsTruthful'
  BY <1>2, <1>5, <1>6, <1>7 DEF IoRowsTruthful
<1>10. IoReadOK' /\ IoPrewarmed' /\ IoRecordsMatch'
  BY IoReadsSame
<1>11. IoLinkOK' /\ IoCachesOK'
  BY <1>0 DEF IoTypes, IoLinkOK, IoCachesOK
<1>12. IoFresh'
  BY <1>5, <1>6 DEF IoInv, IoFresh
<1> QED
  BY <1>8, <1>9, <1>10, <1>11, <1>12 DEF IoInv, IoTypes

\* The request goes out, or there is nothing to write.
LEMMA IoSubmitKeeps == ASSUME IoInv, IoSubmit PROVE IoInv'
<1>0. /\ ioWrite.step = "resolve" /\ IoTypes /\ IoWriteOK /\ IoUnanswered
      /\ UNCHANGED <<ioClient, ioSession, ioReset, ioType, ioCache, ioWarm, ioSchema, ioApplied, ioRead,
                     ioPayload, ioShown, ioStale>>
  BY DEF IoSubmit, ioLink, ioCaches, ioReader, IoInv, IoTypes
<1>1. PICK w \in IoWriteRec : w = ioWrite
  BY <1>0 DEF IoWriteOK
<1>2. PICK n \in Nat : n = Len(ioWrite.specs) /\ n = Len(ioWrite.rows)
  BY <1>0, <1>1 DEF IoWriteOK, IoWriteRec
<1>3. (\A j \in 1 .. n : ioWrite.rows[j] \in IoEarly) /\ ioApplied = {}
  BY <1>0, <1>2 DEF IoUnanswered
<1>4. PICK rows : rows = IoWithVariants
  OBVIOUS
<1>5. rows = [i \in 1 .. n |-> rows[i]] /\ \A i \in 1 .. n : rows[i] \in IoEarly
  <2>1. "BadEncodingError" \in IoEarly
    BY DEF IoEarly
  <2> QED
    BY <1>2, <1>3, <1>4, <2>1 DEF IoWithVariants
<1>6. \A e \in IoEarly : e \in IoCodes /\ e # "Good" /\ e # "BadCommunicationError"
  BY DEF IoEarly, IoCodes
<1>7. CASE IoPairs = <<>>
  <2>1. ioWrite' = [ioWrite EXCEPT !.step = "idle", !.rows = rows] /\ ioApplied' = {}
    BY <1>0, <1>3, <1>4, <1>7 DEF IoSubmit
  <2>2. ioShown' \in [IoReaders \cup {"writer"} -> {"grey", "green", "yellow", "red"}]
    BY <1>0 DEF IoTypes, IoLinkOK
  <2>3. /\ rows = [i \in 1 .. Len(ioWrite.specs) |-> rows[i]]
        /\ \A i \in 1 .. Len(ioWrite.specs) :
             rows[i] \in IoCodes /\ rows[i] # "Good" /\ rows[i] # "BadCommunicationError"
    BY <1>2, <1>5, <1>6
  <2> QED
    BY <1>0, <2>1, <2>2, <2>3, IoReturns
<1>8. CASE IoPairs # <<>>
  <2>1. PICK r : r = [w EXCEPT !.step = "sent", !.rows = rows]
    OBVIOUS
  <2>2. rows \in Seq(IoCodes) /\ Len(rows) = n
    BY <1>5, <1>6
  <2>3. r \in IoWriteRec /\ r.step = "sent" /\ r.rows = rows /\ r.specs = w.specs
    BY <2>1, <2>2 DEF IoWriteRec, IoWriteSteps
  <2>4. ioWrite' = r
    BY <1>1, <1>4, <1>8, <2>1 DEF IoSubmit
  <2>5. IoWriteOK' /\ IoUnanswered' /\ IoRowsTruthful'
    BY <1>0, <1>1, <1>2, <1>5, <2>2, <2>3, <2>4, IoGoesOn
  <2>6. IoReadOK' /\ IoPrewarmed' /\ IoRecordsMatch'
    BY <1>0, IoReadsSame
  <2>7. IoLinkOK' /\ IoCachesOK'
    BY <1>0 DEF IoTypes, IoLinkOK, IoCachesOK
  <2>8. IoFresh'
    BY <1>0, <2>3, <2>4 DEF IoInv, IoFresh
  <2> QED
    BY <2>5, <2>6, <2>7, <2>8 DEF IoInv, IoTypes
<1> QED
  BY <1>7, <1>8

\* The server applies what it grants.
LEMMA IoServeKeeps == ASSUME IoInv, IoServe PROVE IoInv'
<1>0. /\ ioWrite.step = "sent" /\ IoTypes /\ IoWriteOK /\ IoUnanswered
      /\ UNCHANGED <<ioClient, ioSession, ioReset, ioType, ioCache, ioWarm, ioSchema, ioRead,
                     ioPayload, ioShown, ioStale>>
      /\ ioWrite' = [ioWrite EXCEPT !.step = "served"]
  BY DEF IoServe, ioLink, ioCaches, ioReader, IoInv, IoTypes
<1>1. ioApplied' = IoGranted
  BY DEF IoServe, IoGranted
<1>2. PICK w \in IoWriteRec : w = ioWrite
  BY <1>0 DEF IoWriteOK
<1>3. PICK r : r = [w EXCEPT !.step = "served"]
  OBVIOUS
<1>4. r \in IoWriteRec /\ r.step = "served" /\ r.rows = w.rows /\ r.specs = w.specs /\ ioWrite' = r
  BY <1>0, <1>2, <1>3 DEF IoWriteRec, IoWriteSteps
<1>5. IoGranted' = IoGranted
  <2>1. ioWrite'.specs = ioWrite.specs /\ ioWrite'.rows = ioWrite.rows
    BY <1>2, <1>4
  <2>2. IoSubmitted' = IoSubmitted
    BY <2>1 DEF IoSubmitted
  <2>3. IoPairs' = IoPairs
    BY <2>2 DEF IoPairs
  <2>4. IoAnswer' = IoAnswer
    BY <2>1, <2>3 DEF IoAnswer
  <2> QED
    BY <2>3, <2>4 DEF IoGranted
<1>6. IoGranted \subseteq 1 .. Len(ioWrite.specs)
  BY <1>0, IoRequest
<1>7. IoWriteOK' /\ IoRowsTruthful'
  BY <1>0, <1>1, <1>2, <1>4, <1>6 DEF IoWriteOK, IoRowsTruthful
<1>8. IoUnanswered'
  BY <1>0, <1>1, <1>2, <1>4, <1>5 DEF IoUnanswered
<1>9. IoReadOK' /\ IoPrewarmed' /\ IoRecordsMatch'
  BY <1>0, IoReadsSame
<1>10. IoLinkOK' /\ IoCachesOK'
  BY <1>0 DEF IoTypes, IoLinkOK, IoCachesOK
<1>11. IoFresh'
  BY <1>0, <1>4 DEF IoInv, IoFresh
<1> QED
  BY <1>7, <1>8, <1>9, <1>10, <1>11 DEF IoInv, IoTypes

\* The rows made of an answer are Good for what was applied.
LEMMA IoAnsweredKeeps == ASSUME IoInv, IoAnswered PROVE IoInv'
<1>0. /\ ioWrite.step = "served" /\ IoTypes /\ IoWriteOK /\ IoUnanswered
      /\ UNCHANGED <<ioClient, ioSession, ioReset, ioType, ioCache, ioWarm, ioSchema, ioApplied, ioRead,
                     ioPayload, ioStale>>
  BY DEF IoAnswered, ioLink, ioCaches, ioReader, IoInv, IoTypes
<1>1. PICK n \in Nat : n = Len(ioWrite.specs) /\ n = Len(ioWrite.rows)
  BY <1>0 DEF IoWriteOK, IoWriteRec
<1>2. (\A j \in 1 .. n : ioWrite.rows[j] \in IoEarly) /\ ioApplied = IoGranted
  BY <1>0, <1>1 DEF IoUnanswered
<1>3. PICK c \in Nat : c = Len(IoPairs)
  BY <1>0, IoRequest
<1>4. /\ \A k \in 1 .. c : IoPairs[k] \in 1 .. n /\ IoAnswer[k] \in {"Good", "BadNotWritable"}
      /\ \A j, k \in 1 .. c : IoPairs[j] = IoPairs[k] => j = k
  BY <1>0, <1>1, <1>3, IoRequest
<1>5. \A e \in IoEarly \cup {"Good", "BadNotWritable"} : e \in IoCodes /\ e # "BadCommunicationError"
  BY DEF IoEarly, IoCodes
<1>6. "Good" \notin IoEarly
  BY DEF IoEarly
<1> DEFINE hit(i) == \E j \in 1 .. c : IoPairs[j] = i
           of(i) == CHOOSE j \in 1 .. c : IoPairs[j] = i
<1>7. PICK rows : rows = [i \in 1 .. n |-> IF hit(i) THEN IoAnswer[of(i)] ELSE ioWrite.rows[i]]
  OBVIOUS
<1>8. /\ ioWrite' = [ioWrite EXCEPT !.step = "idle", !.rows = rows]
      /\ ioShown' = [ioShown EXCEPT !["writer"] = IoPulse(rows)]
  BY <1>1, <1>3, <1>7 DEF IoAnswered, IoMap
<1>9. \A i \in 1 .. n : hit(i) => of(i) \in 1 .. c /\ IoPairs[of(i)] = i
  OBVIOUS
<1>10. \A i \in 1 .. n : (hit(i) => rows[i] = IoAnswer[of(i)]) /\ (~hit(i) => rows[i] = ioWrite.rows[i])
  BY <1>7
<1>11. \A i \in 1 .. n : i \in ioApplied <=> \E j \in 1 .. c : IoPairs[j] = i /\ IoAnswer[j] = "Good"
  BY <1>2, <1>3 DEF IoGranted
<1>12. \A j \in 1 .. c : hit(IoPairs[j])
  OBVIOUS
<1>13. rows = [i \in 1 .. n |-> rows[i]]
  BY <1>7
<1> HIDE DEF hit, of
<1>14. \A i \in 1 .. n : rows[i] \in IoEarly \cup {"Good", "BadNotWritable"}
  BY <1>2, <1>4, <1>9, <1>10
<1>15. \A i \in 1 .. n : rows[i] = "Good" <=> i \in ioApplied
  <2> SUFFICES ASSUME NEW i \in 1 .. n PROVE rows[i] = "Good" <=> i \in ioApplied
    OBVIOUS
  <2>1. CASE hit(i)
    <3>1. \A j \in 1 .. c : IoPairs[j] = i => j = of(i)
      BY <1>4, <1>9, <2>1
    <3> QED
      BY <1>9, <1>10, <1>11, <2>1, <3>1
  <2>2. CASE ~hit(i)
    BY <1>2, <1>6, <1>10, <1>11, <1>12, <2>2
  <2> QED
    BY <2>1, <2>2
<1>16. ioShown' \in [IoReaders \cup {"writer"} -> {"grey", "green", "yellow", "red"}]
  <2>1. IoPulse(rows) \in {"green", "yellow"}
    BY DEF IoPulse
  <2> QED
    BY <1>0, <1>8, <2>1 DEF IoTypes, IoLinkOK
<1>17. \A i \in 1 .. Len(ioWrite.specs) :
         /\ rows[i] \in IoCodes /\ (rows[i] = "Good" => i \in ioApplied)
         /\ i \in ioApplied => rows[i] \in {"Good", "BadCommunicationError"}
         /\ rows[i] # "BadCommunicationError"
  BY <1>1, <1>5, <1>14, <1>15
<1>18. rows = [i \in 1 .. Len(ioWrite.specs) |-> rows[i]] /\ ioApplied \subseteq 1 .. Len(ioWrite.specs)
  BY <1>0, <1>1, <1>13 DEF IoWriteOK
<1> QED
  BY <1>0, <1>8, <1>16, <1>17, <1>18, IoReturns

\* A request that failed says so of every row that was submitted.
LEMMA IoWriteFailsKeeps == ASSUME IoInv, IoWriteFails PROVE IoInv'
<1>0. /\ ioWrite.step \in {"sent", "served"} /\ IoTypes /\ IoWriteOK /\ IoUnanswered
      /\ UNCHANGED <<ioClient, ioSession, ioReset, ioType, ioCache, ioWarm, ioSchema, ioApplied, ioRead,
                     ioPayload, ioStale>>
  BY DEF IoWriteFails, ioLink, ioCaches, ioReader, IoInv, IoTypes
<1>1. PICK n \in Nat : n = Len(ioWrite.specs) /\ n = Len(ioWrite.rows)
  BY <1>0 DEF IoWriteOK, IoWriteRec
<1>2. (\A j \in 1 .. n : ioWrite.rows[j] \in IoEarly) /\ ioApplied \subseteq IoSubmitted
  BY <1>0, <1>1, IoRequest DEF IoUnanswered
<1>3. \A e \in IoEarly : e \in IoCodes /\ e # "Good"
  BY DEF IoEarly, IoCodes
<1>4. PICK rows : rows = [i \in 1 .. n |-> IF i \in IoSubmitted THEN "BadCommunicationError" ELSE ioWrite.rows[i]]
  OBVIOUS
<1>5. /\ ioWrite' = [ioWrite EXCEPT !.step = "idle", !.rows = rows]
      /\ ioShown' = [ioShown EXCEPT !["writer"] = "red"]
  BY <1>1, <1>4 DEF IoWriteFails
<1>6. ioShown' \in [IoReaders \cup {"writer"} -> {"grey", "green", "yellow", "red"}]
  BY <1>0, <1>5 DEF IoTypes, IoLinkOK
<1>7. \A i \in 1 .. n : /\ rows[i] \in IoCodes /\ rows[i] # "Good"
                        /\ i \in ioApplied => rows[i] = "BadCommunicationError"
  BY <1>2, <1>3, <1>4 DEF IoCodes
<1>8. \A i \in 1 .. Len(ioWrite.specs) :
         /\ rows[i] \in IoCodes /\ rows[i] # "Good"
         /\ i \in ioApplied => rows[i] \in {"Good", "BadCommunicationError"}
  BY <1>1, <1>7
<1>9. rows = [i \in 1 .. Len(ioWrite.specs) |-> rows[i]] /\ ioApplied \subseteq 1 .. Len(ioWrite.specs)
  BY <1>0, <1>1, <1>4 DEF IoWriteOK
<1> QED
  BY <1>0, <1>5, <1>6, <1>8, <1>9, IoReturns

-----------------------------------------------------------------------------
\* A reader is set to something else.
LEMMA IoSetRead ==
  ASSUME IoReadOK, NEW r \in IoReaders, NEW q \in IoReadRec, ioRead' = [ioRead EXCEPT ![r] = q]
  PROVE  /\ IoReadOK' /\ ioRead'[r] = q /\ \A o \in IoReaders \ {r} : ioRead'[o] = ioRead[o]
         /\ \A o \in IoReaders \ {r} : IoWanted(o)' = IoWanted(o)
<1>1. IoReadOK' /\ ioRead'[r] = q /\ \A o \in IoReaders \ {r} : ioRead'[o] = ioRead[o]
  BY DEF IoReadOK
<1>2. \A o \in IoReaders \ {r} : IoWanted(o)' = IoWanted(o)
  BY <1>1 DEF IoWanted
<1> QED
  BY <1>1, <1>2

\* doRead begins.
LEMMA IoDoReadKeeps ==
  ASSUME IoInv, NEW r \in IoReaders, NEW list \in IoLists, IoDoRead(r, list) PROVE IoInv'
<1>0. /\ ioRead[r].step = "idle" /\ IoTypes /\ IoReadOK
      /\ UNCHANGED <<ioClient, ioSession, ioReset, ioType, ioCache, ioWarm, ioSchema, ioWrite, ioApplied,
                     ioPayload, ioStale>>
      /\ \/ ioRead' = [ioRead EXCEPT ![r] = [step |-> "warm", list |-> list, mine |-> {}]] /\ ioShown' = ioShown
         \/ ioRead' = ioRead /\ ioShown' = [ioShown EXCEPT ![r] = "red"]
  BY DEF IoDoRead, ioLink, ioCaches, ioWriter, IoInv, IoTypes
<1>1. IoWriteOK' /\ IoUnanswered' /\ IoRowsTruthful'
  BY <1>0, IoWriteSame
<1>2. ioShown' \in [IoReaders \cup {"writer"} -> {"grey", "green", "yellow", "red"}]
  BY <1>0 DEF IoTypes, IoLinkOK
<1>3. IoLinkOK' /\ IoCachesOK'
  BY <1>0, <1>2 DEF IoTypes, IoLinkOK, IoCachesOK
<1>4. IoFresh'
  BY <1>0 DEF IoInv, IoFresh
<1>5. CASE ioRead' = ioRead
  <2>1. IoReadOK' /\ IoPrewarmed' /\ IoRecordsMatch'
    BY <1>0, <1>5, IoReadsSame
  <2> QED
    BY <1>1, <1>3, <1>4, <2>1 DEF IoInv, IoTypes
<1>6. CASE ioRead' = [ioRead EXCEPT ![r] = [step |-> "warm", list |-> list, mine |-> {}]]
  <2>1. list \in Seq(IoIds)
    BY IoAssumption DEF IoIds
  <2>2. PICK q : q = [step |-> "warm", list |-> list, mine |-> {}]
    OBVIOUS
  <2>3. q \in IoReadRec /\ q.step = "warm"
    BY <2>1, <2>2 DEF IoReadRec, IoReadSteps
  <2>4. /\ IoReadOK' /\ ioRead'[r] = q /\ \A o \in IoReaders \ {r} : ioRead'[o] = ioRead[o]
        /\ \A o \in IoReaders \ {r} : IoWanted(o)' = IoWanted(o)
    BY <1>0, <1>6, <2>2, <2>3, IoSetRead
  <2>5. IoPrewarmed'
    BY <1>0, <2>3, <2>4 DEF IoInv, IoPrewarmed
  <2>6. IoRecordsMatch'
    BY <1>0 DEF IoInv, IoRecordsMatch
  <2> QED
    BY <1>1, <1>3, <1>4, <2>4, <2>5, <2>6 DEF IoInv, IoTypes
<1> QED
  BY <1>0, <1>5, <1>6

\* PrewarmStructForVariable marks.
LEMMA IoMarkKeeps == ASSUME IoInv, NEW r \in IoReaders, IoMark(r) PROVE IoInv'
<1>0. /\ ioRead[r].step = "warm" /\ IoTypes /\ IoReadOK
      /\ UNCHANGED <<ioClient, ioSession, ioReset, ioType, ioCache, ioSchema, ioWrite, ioApplied,
                     ioPayload, ioShown>>
  BY DEF IoMark, ioLink, ioWriter, IoInv, IoTypes
<1>1. PICK list \in Seq(IoIds) : list = ioRead[r].list
  BY <1>0 DEF IoReadOK, IoReadRec
<1>2. PICK all : all = {v \in Range(list) : IoParses(v)}
  OBVIOUS
<1>3. PICK mine : mine = all \ ioWarm
  OBVIOUS
<1>4. /\ ioWarm' = ioWarm \cup mine
      /\ ioRead' = [ioRead EXCEPT ![r] = [step |-> "schema", list |-> list, mine |-> mine]]
      /\ ioStale' = (ioStale \/ \E q \in IoReaders \ {r} : ioRead[q].step = "schema" /\ ioRead[q].mine \cap all # {})
  BY <1>1, <1>2, <1>3 DEF IoMark
<1>5. all \subseteq IoIds
  BY <1>1, <1>2 DEF Range
<1>6. PICK q : q = [step |-> "schema", list |-> list, mine |-> mine]
  OBVIOUS
<1>7. q \in IoReadRec /\ q.step = "schema" /\ q.list = list /\ q.mine = mine
  BY <1>1, <1>3, <1>5, <1>6 DEF IoReadRec, IoReadSteps
<1>8. /\ IoReadOK' /\ ioRead'[r] = q /\ \A o \in IoReaders \ {r} : ioRead'[o] = ioRead[o]
      /\ \A o \in IoReaders \ {r} : IoWanted(o)' = IoWanted(o)
  BY <1>0, <1>4, <1>6, <1>7, IoSetRead
<1>9. IoWriteOK' /\ IoUnanswered' /\ IoRowsTruthful'
  BY <1>0, IoWriteSame
<1>10. ioStale' \in BOOLEAN
  BY <1>4, Zenon
<1>11. IoLinkOK' /\ IoCachesOK'
  BY <1>0, <1>3, <1>4, <1>5, <1>10 DEF IoTypes, IoLinkOK, IoCachesOK
<1>12. IoFresh'
  BY <1>0, <1>4 DEF IoInv, IoFresh
<1>13. IoRecordsMatch'
  BY <1>0, <1>4 DEF IoInv, IoRecordsMatch
<1>14. IoPrewarmed'
  <2> SUFFICES ASSUME ~ioStale'
               PROVE /\ \A v \in ioWarm' \cap IoStructs :
                          v \in ioSchema \/ \E o \in IoReaders : ioRead'[o].step = "schema" /\ v \in ioRead'[o].mine
                     /\ \A o \in IoReaders :
                          /\ ioRead'[o].step = "schema" => IoWanted(o)' \subseteq ioRead'[o].mine \cup ioSchema
                          /\ ioRead'[o].step = "read" => IoWanted(o)' \subseteq ioSchema
    BY <1>0 DEF IoPrewarmed
  <2>1. ~ioStale /\ \A o \in IoReaders \ {r} : ioRead[o].step = "schema" => ioRead[o].mine \cap all = {}
    BY <1>4
  <2>2. /\ \A v \in ioWarm \cap IoStructs :
             v \in ioSchema \/ \E o \in IoReaders : ioRead[o].step = "schema" /\ v \in ioRead[o].mine
        /\ \A o \in IoReaders :
             /\ ioRead[o].step = "schema" => IoWanted(o) \subseteq ioRead[o].mine \cup ioSchema
             /\ ioRead[o].step = "read" => IoWanted(o) \subseteq ioSchema
    BY <2>1 DEF IoInv, IoPrewarmed
  <2>3. \A v \in ioWarm' \cap IoStructs :
          v \in ioSchema \/ \E o \in IoReaders : ioRead'[o].step = "schema" /\ v \in ioRead'[o].mine
    <3> SUFFICES ASSUME NEW v \in ioWarm' \cap IoStructs, v \notin ioSchema
                 PROVE  \E o \in IoReaders : ioRead'[o].step = "schema" /\ v \in ioRead'[o].mine
      OBVIOUS
    <3>1. CASE v \in mine
      BY <1>7, <1>8, <3>1
    <3>2. CASE v \in ioWarm
      <4>1. PICK o \in IoReaders : ioRead[o].step = "schema" /\ v \in ioRead[o].mine
        BY <2>2, <3>2
      <4>2. o # r
        BY <1>0, <4>1
      <4> QED
        BY <1>8, <4>1, <4>2
    <3> QED
      BY <1>4, <3>1, <3>2
  <2>4. IoWanted(r)' \subseteq mine \cup ioSchema
    <3> SUFFICES ASSUME NEW v \in IoWanted(r)' PROVE v \in mine \cup ioSchema
      OBVIOUS
    <3>1. v \in IoStructs /\ \E i \in 1 .. Len(list) : list[i] = v
      BY <1>7, <1>8 DEF IoWanted
    <3>2. v \in all
      BY <1>1, <1>2, <3>1 DEF Range, IoStructs, IoParses
    <3>3. CASE v \in ioWarm
      BY <1>0, <2>1, <2>2, <3>1, <3>2, <3>3
    <3> QED
      BY <1>3, <3>2, <3>3
  <2> QED
    BY <1>7, <1>8, <2>2, <2>3, <2>4
<1> QED
  BY <1>8, <1>9, <1>11, <1>12, <1>13, <1>14 DEF IoInv, IoTypes

\* resolveStruct of what the reader marked.
LEMMA IoSchemaKeeps == ASSUME IoInv, NEW r \in IoReaders, IoSchemaRead(r) PROVE IoInv'
<1>0. /\ ioRead[r].step = "schema" /\ IoTypes /\ IoReadOK
      /\ UNCHANGED <<ioClient, ioSession, ioReset, ioType, ioCache, ioWrite, ioApplied, ioPayload, ioShown>>
  BY DEF IoSchemaRead, ioLink, ioWriter, IoInv, IoTypes
<1>1. PICK list \in Seq(IoIds) : list = ioRead[r].list
  BY <1>0 DEF IoReadOK, IoReadRec
<1>2. PICK mine \in SUBSET IoIds : mine = ioRead[r].mine
  BY <1>0 DEF IoReadOK, IoReadRec
<1>3. /\ \/ ioSchema' = ioSchema \cup (mine \cap IoStructs) /\ ioStale' = ioStale
         \/ ioSchema' = ioSchema /\ ioStale' = (ioStale \/ mine # {})
      /\ ioWarm' \subseteq ioWarm
      /\ ioRead' = [ioRead EXCEPT ![r] = [step |-> "read", list |-> list, mine |-> {}]]
  BY <1>1, <1>2 DEF IoSchemaRead
<1>4. PICK q : q = [step |-> "read", list |-> list, mine |-> {}]
  OBVIOUS
<1>5. q \in IoReadRec /\ q.step = "read" /\ q.list = list
  BY <1>1, <1>4 DEF IoReadRec, IoReadSteps
<1>6. /\ IoReadOK' /\ ioRead'[r] = q /\ \A o \in IoReaders \ {r} : ioRead'[o] = ioRead[o]
      /\ \A o \in IoReaders \ {r} : IoWanted(o)' = IoWanted(o)
  BY <1>0, <1>3, <1>4, <1>5, IoSetRead
<1>7. IoWanted(r)' = IoWanted(r)
  BY <1>1, <1>5, <1>6 DEF IoWanted
<1>8. IoWriteOK' /\ IoUnanswered' /\ IoRowsTruthful'
  BY <1>0, IoWriteSame
<1>9. ioStale' \in BOOLEAN
  BY <1>0, <1>3, Zenon DEF IoTypes, IoLinkOK
<1>10. IoLinkOK' /\ IoCachesOK'
  BY <1>0, <1>3, <1>9 DEF IoTypes, IoLinkOK, IoCachesOK
<1>14. ioStale => ioStale'
  <2>1. CASE ioStale' = ioStale
    BY <2>1
  <2>2. CASE ioStale' = (ioStale \/ mine # {})
    BY <2>2, Zenon
  <2> QED
    BY <1>3, <2>1, <2>2
<1>11. IoFresh'
  BY <1>0, <1>14 DEF IoInv, IoFresh
<1>12. IoRecordsMatch'
  BY <1>0, <1>14 DEF IoInv, IoRecordsMatch
<1>13. IoPrewarmed'
  <2> SUFFICES ASSUME ~ioStale'
               PROVE /\ \A v \in ioWarm' \cap IoStructs :
                          v \in ioSchema' \/ \E o \in IoReaders : ioRead'[o].step = "schema" /\ v \in ioRead'[o].mine
                     /\ \A o \in IoReaders :
                          /\ ioRead'[o].step = "schema" => IoWanted(o)' \subseteq ioRead'[o].mine \cup ioSchema'
                          /\ ioRead'[o].step = "read" => IoWanted(o)' \subseteq ioSchema'
    BY DEF IoPrewarmed
  <2>1. ~ioStale /\ (ioSchema' = ioSchema \cup (mine \cap IoStructs) \/ (ioSchema' = ioSchema /\ mine = {}))
    <3>1. CASE ioSchema' = ioSchema \cup (mine \cap IoStructs)
      BY <1>14, <3>1
    <3>2. CASE ioSchema' = ioSchema /\ ioStale' = (ioStale \/ mine # {})
      <4>1. ~(ioStale \/ mine # {})
        BY <3>2, Zenon
      <4> QED
        BY <3>2, <4>1
    <3> QED
      BY <1>3, <3>1, <3>2
  <2>2. ioSchema \subseteq ioSchema' /\ mine \cap IoStructs \subseteq ioSchema'
    BY <1>3, <2>1
  <2>3. /\ \A v \in ioWarm \cap IoStructs :
             v \in ioSchema \/ \E o \in IoReaders : ioRead[o].step = "schema" /\ v \in ioRead[o].mine
        /\ \A o \in IoReaders :
             /\ ioRead[o].step = "schema" => IoWanted(o) \subseteq ioRead[o].mine \cup ioSchema
             /\ ioRead[o].step = "read" => IoWanted(o) \subseteq ioSchema
    BY <2>1 DEF IoInv, IoPrewarmed
  <2>4. IoWanted(r) \subseteq ioSchema'
    <3>1. IoWanted(r) \subseteq mine \cup ioSchema /\ IoWanted(r) \subseteq IoStructs
      BY <1>0, <1>2, <2>3 DEF IoWanted
    <3> QED
      BY <2>2, <3>1
  <2>5. ASSUME NEW v \in ioWarm' \cap IoStructs, v \notin ioSchema'
        PROVE  \E o \in IoReaders : ioRead'[o].step = "schema" /\ v \in ioRead'[o].mine
    <3>1. PICK o \in IoReaders : ioRead[o].step = "schema" /\ v \in ioRead[o].mine
      BY <1>3, <2>2, <2>3, <2>5
    <3>2. o # r
      BY <1>2, <2>2, <2>5, <3>1
    <3> QED
      BY <1>6, <3>1, <3>2
  <2>6. ASSUME NEW o \in IoReaders
        PROVE  /\ ioRead'[o].step = "schema" => IoWanted(o)' \subseteq ioRead'[o].mine \cup ioSchema'
               /\ ioRead'[o].step = "read" => IoWanted(o)' \subseteq ioSchema'
    <3>1. CASE o = r
      BY <1>5, <1>6, <1>7, <2>4, <3>1
    <3>2. CASE o # r
      BY <1>6, <2>2, <2>3, <3>2
    <3> QED
      BY <3>1, <3>2
  <2> QED
    BY <2>5, <2>6
<1> QED
  BY <1>6, <1>8, <1>10, <1>11, <1>12, <1>13 DEF IoInv, IoTypes

\* The Read and the message made of it.
LEMMA IoReadDoneKeeps == ASSUME IoInv, NEW r \in IoReaders, IoReadDone(r) PROVE IoInv'
<1>0. /\ ioRead[r].step = "read" /\ IoTypes /\ IoReadOK /\ ioRead' = [ioRead EXCEPT ![r] = IoReadIdle]
      /\ UNCHANGED <<ioClient, ioSession, ioReset, ioType, ioCache, ioWarm, ioSchema, ioWrite, ioApplied, ioStale>>
  BY DEF IoReadDone, ioLink, ioCaches, ioWriter, IoInv, IoTypes
<1>1. PICK list \in Seq(IoIds) : list = ioRead[r].list
  BY <1>0 DEF IoReadOK, IoReadRec
<1>2. \/ /\ ioPayload' = [rows |-> IoRecords(list), list |-> list,
                          keys |-> IF IoShape = "by-name" THEN IoByName(list) ELSE {}]
         /\ ioShown' = ioShown
      \/ ioShown' = [ioShown EXCEPT ![r] = "red"] /\ ioPayload' = ioPayload
  BY <1>1 DEF IoReadDone
<1>3. IoReadIdle \in IoReadRec /\ IoReadIdle.step = "idle"
  BY DEF IoReadIdle, IoReadRec, IoReadSteps
<1>4. /\ IoReadOK' /\ ioRead'[r] = IoReadIdle /\ \A o \in IoReaders \ {r} : ioRead'[o] = ioRead[o]
      /\ \A o \in IoReaders \ {r} : IoWanted(o)' = IoWanted(o)
  BY <1>0, <1>3, IoSetRead
<1>5. IoWriteOK' /\ IoUnanswered' /\ IoRowsTruthful'
  BY <1>0, IoWriteSame
<1>6. ioShown' \in [IoReaders \cup {"writer"} -> {"grey", "green", "yellow", "red"}]
  BY <1>0, <1>2 DEF IoTypes, IoLinkOK
<1>7. IoLinkOK' /\ IoCachesOK'
  BY <1>0, <1>6 DEF IoTypes, IoLinkOK, IoCachesOK
<1>8. IoFresh'
  BY <1>0 DEF IoInv, IoFresh
<1>9. IoPrewarmed'
  <2> SUFFICES ASSUME ~ioStale
               PROVE /\ \A v \in ioWarm \cap IoStructs :
                          v \in ioSchema \/ \E o \in IoReaders : ioRead'[o].step = "schema" /\ v \in ioRead'[o].mine
                     /\ \A o \in IoReaders :
                          /\ ioRead'[o].step = "schema" => IoWanted(o)' \subseteq ioRead'[o].mine \cup ioSchema
                          /\ ioRead'[o].step = "read" => IoWanted(o)' \subseteq ioSchema
    BY <1>0 DEF IoPrewarmed
  <2>1. /\ \A v \in ioWarm \cap IoStructs :
             v \in ioSchema \/ \E o \in IoReaders : ioRead[o].step = "schema" /\ v \in ioRead[o].mine
        /\ \A o \in IoReaders :
             /\ ioRead[o].step = "schema" => IoWanted(o) \subseteq ioRead[o].mine \cup ioSchema
             /\ ioRead[o].step = "read" => IoWanted(o) \subseteq ioSchema
    BY DEF IoInv, IoPrewarmed
  <2>2. \A o \in IoReaders : ioRead[o].step = "schema" => o # r
    BY <1>0
  <2> QED
    BY <1>3, <1>4, <2>1, <2>2
<1>10. IoRecordsMatch'
  <2>1. CASE ioPayload' = ioPayload
    BY <1>0, <2>1 DEF IoInv, IoRecordsMatch
  <2>2. CASE ioPayload' = [rows |-> IoRecords(list), list |-> list,
                           keys |-> IF IoShape = "by-name" THEN IoByName(list) ELSE {}]
    <3>1. ioPayload'.rows = IoRecords(list) /\ ioPayload'.list = list
      BY <2>2
    <3> SUFFICES ASSUME NEW i \in DOMAIN list, IoParses(list[i])
                 PROVE  IoRecords(list)[i].of = list[i] /\ (IoRecords(list)[i].code = "typeId" => ioStale)
      BY <1>0, <3>1 DEF IoRecordsMatch
    <3>2. i \in 1 .. Len(list)
      OBVIOUS
    <3>3. IoResult(list, i) = list[i]
      BY <3>2, IoResultIs
    <3>4. IoRecords(list)[i] = [node |-> list[i], of |-> list[i],
                                code |-> IF list[i] \in IoStructs \ ioSchema THEN "typeId" ELSE "Good"]
      BY <3>2, <3>3 DEF IoRecords
    <3>5. IoRecords(list)[i].of = list[i]
          /\ IoRecords(list)[i].code = IF list[i] \in IoStructs \ ioSchema THEN "typeId" ELSE "Good"
      BY <3>4
    <3>6. ~ioStale => (list[i] \in IoStructs => list[i] \in ioSchema)
      BY <1>0, <1>1, <3>2 DEF IoInv, IoPrewarmed, IoWanted
    <3> QED
      BY <3>5, <3>6
  <2> QED
    BY <1>2, <2>1, <2>2
<1> QED
  BY <1>4, <1>5, <1>7, <1>8, <1>9, <1>10 DEF IoInv, IoTypes

-----------------------------------------------------------------------------
\* A step that changes nothing.
LEMMA IoStutterKeeps == ASSUME IoInv, UNCHANGED ioVars PROVE IoInv'
<1>0. UNCHANGED <<ioClient, ioSession, ioReset, ioType, ioCache, ioWarm, ioSchema, ioWrite, ioApplied, ioRead,
                  ioPayload, ioShown, ioStale>> /\ IoTypes
  BY DEF ioVars, IoInv
<1>1. IoReadOK' /\ IoPrewarmed' /\ IoRecordsMatch'
  BY <1>0, IoReadsSame
<1>2. IoWriteOK' /\ IoUnanswered' /\ IoRowsTruthful'
  BY <1>0, IoWriteSame
<1>3. IoLinkOK' /\ IoCachesOK'
  BY <1>0 DEF IoTypes, IoLinkOK, IoCachesOK
<1>4. IoFresh'
  BY <1>0 DEF IoInv, IoFresh
<1> QED
  BY <1>1, <1>2, <1>3, <1>4 DEF IoInv, IoTypes

\* Every step keeps the invariant.
LEMMA IoInductive == IoInv /\ [IoNext]_ioVars => IoInv'
<1> SUFFICES ASSUME IoInv, [IoNext]_ioVars PROVE IoInv'
  OBVIOUS
<1>1. CASE UNCHANGED ioVars
  BY <1>1, IoStutterKeeps
<1>2. CASE IoDrop \/ IoReconnect \/ IoClose
  BY <1>2, IoSessionKeeps
<1>3. CASE \E l \in IoLists : IoHandleWrite(l)
  BY <1>3, IoHandleWriteKeeps
<1>4. CASE \E l \in IoLists : \E r \in IoReaders : IoDoRead(r, l)
  BY <1>4, IoDoReadKeeps
<1>5. CASE IoResetCaches
  BY <1>5, IoResetKeeps
<1>6. CASE IoResolve
  BY <1>6, IoResolveKeeps
<1>7. CASE IoLookup
  BY <1>7, IoLookupKeeps
<1>8. CASE IoCacheSet
  BY <1>8, IoCacheSetKeeps
<1>9. CASE IoSubmit
  BY <1>9, IoSubmitKeeps
<1>13. CASE IoServe
  BY <1>13, IoServeKeeps
<1>14. CASE IoAnswered
  BY <1>14, IoAnsweredKeeps
<1>15. CASE IoWriteFails
  BY <1>15, IoWriteFailsKeeps
<1>10. CASE \E r \in IoReaders : IoMark(r)
  BY <1>10, IoMarkKeeps
<1>11. CASE \E r \in IoReaders : IoSchemaRead(r)
  BY <1>11, IoSchemaKeeps
<1>12. CASE \E r \in IoReaders : IoReadDone(r)
  BY <1>12, IoReadDoneKeeps
<1> QED
  BY <1>1, <1>2, <1>3, <1>4, <1>5, <1>6, <1>7, <1>8, <1>9, <1>10, <1>11, <1>12, <1>13, <1>14, <1>15
     DEF IoNext, IoProgress

\* The invariant gives the type invariant, and says what IoSound does.
LEMMA IoInvIsSound == IoInv => IoTypeOK /\ IoSound
<1> SUFFICES ASSUME IoInv PROVE IoTypeOK /\ IoSound
  OBVIOUS
<1>1. IoTypeOK
  BY DEF IoInv, IoTypes, IoLinkOK, IoCachesOK, IoReadOK, IoWriteOK, IoWriteRec, IoTypeOK
<1>2. IoTypesFresh
  BY DEF IoInv, IoTypes, IoLinkOK, IoFresh, IoTypesFresh
<1> QED
  BY <1>1, <1>2 DEF IoInv, IoSound

(***************************************************************************)
(* opcua-read and opcua-write, for any number of readers, any lists of     *)
(* entries and any bounds: a row of a write is Good only if the server     *)
(* applied it, and one that was applied is Good, or BadCommunicationError  *)
(* with all the others when the answer was lost; a record carries the      *)
(* value of the entry it names and a structure comes decoded, and a cached *)
(* DataType is the server's, across lost sessions and emptied caches,      *)
(* unless a lookup or a prewarm crossed a reset, met another or failed.    *)
(***************************************************************************)
THEOREM RowsAndRecordsSound == IoSpec => []IoSound
<1>1. IoSpec => []IoInv
  BY IoInitially, IoInductive, PTL DEF IoSpec
<1>2. []IoInv => []IoSound
  BY IoInvIsSound, PTL
<1> QED
  BY <1>1, <1>2, PTL

-----------------------------------------------------------------------------
(***************************************************************************)
(* All the parts together.                                                 *)
(***************************************************************************)

\* The rest of the type invariant of the Modbus connection.
MbSeen ==
  /\ \A n \in MbNodes : mbCfg[n] \in MbConfigs(n)
  /\ mbServer \in {"new", "started", "stopped"}
  /\ mbFill \in {"grey", "yellow", "green", "red"}
  /\ mbShown \in [MbNodes -> {"none", "grey", "yellow", "green", "red"}]
  /\ mbSlave \in MbUnits \cup {0}
  /\ \A n \in MbNodes : mbCall[n].step = "idle" => mbCall[n] = MbIdle
  /\ mbStop \in [MbNodes -> {"new", "running", "waiting", "returned"}]

\* setStatusLocked keeps the types.
LEMMA MbStatusSeen ==
  ASSUME MbSeen, NEW fill \in {"grey", "yellow", "green", "red"}, SetStatus(fill)
  PROVE  /\ mbFill' \in {"grey", "yellow", "green", "red"}
         /\ mbShown' \in [MbNodes -> {"none", "grey", "yellow", "green", "red"}]
BY DEF MbSeen, SetStatus

\* Every step of the Modbus connection keeps these types.
LEMMA MbSeenKeeps == ASSUME MbInv, MbSeen, [MbNext]_mbVars PROVE MbSeen'
<1>0. MbShape /\ MbSection
  BY DEF MbInv
<1>1. CASE UNCHANGED mbVars
  BY <1>1 DEF mbVars, MbSeen
<1>2. CASE MbServerStart
  <2>1. PICK fill \in {"green", "red"} : SetStatus(fill)
    BY <1>2 DEF MbServerStart
  <2> QED
    BY <1>2, <2>1, MbStatusSeen DEF MbServerStart, MbSeen
<1>3. CASE MbServerStop
  BY <1>3, MbStatusSeen DEF MbServerStop, MbSeen
<1>4. ASSUME NEW n \in MbNodes, MbNodeStart(n) \/ MbNodeStop(n) \/ MbNodeStopped(n) PROVE MbSeen'
  BY <1>4 DEF MbNodeStart, MbNodeStop, MbNodeStopped, MbSeen
<1>5. ASSUME NEW n \in MbNodes, MbTick(n) \/ MbHandleMessage(n) PROVE MbSeen'
  <2>1. PICK u : mbCall' = [mbCall EXCEPT ![n] = [step |-> "want", unit |-> u, got |-> <<>>]]
    BY <1>5 DEF MbTick, MbHandleMessage
  <2>2. \A m \in MbNodes : mbCall'[m].step = "idle" => mbCall'[m] = MbIdle
    BY <1>0, <2>1 DEF MbSeen, MbShape
  <2> QED
    BY <1>5, <2>2 DEF MbTick, MbHandleMessage, MbSeen
<1>6. ASSUME NEW n \in MbNodes, MbCallStep(n) PROVE MbSeen'
  <2>1. \A m \in MbNodes : mbCall'[m].step = "idle" => mbCall'[m] = MbIdle
    <3>1. \A m \in MbNodes \ {n} : mbCall'[m] = mbCall[m]
      BY <1>0, <1>6 DEF MbShape, MbCallStep, MbLock, MbSetSlaveID, MbWire, MbWireFails, MbAfter, MbSend
    <3>2. mbCall'[n] = MbIdle \/ mbCall'[n].step \in {"set", "wire", "got", "send"}
      BY <1>0, <1>6 DEF MbShape, MbCallStep, MbLock, MbSetSlaveID, MbWire, MbWireFails, MbAfter, MbSend
    <3> QED
      BY <3>1, <3>2 DEF MbSeen
  <2>2. mbSlave' \in MbUnits \cup {0}
    BY <1>0, <1>6 DEF MbSeen, MbShape, MbCallStep, MbLock, MbSetSlaveID, MbWire, MbWireFails, MbAfter, MbSend
  <2>3. /\ mbFill' \in {"grey", "yellow", "green", "red"}
        /\ mbShown' \in [MbNodes -> {"none", "grey", "yellow", "green", "red"}]
    <3>1. CASE MbWire(n)
      BY <3>1, MbStatusSeen DEF MbWire
    <3>2. CASE MbWireFails(n)
      BY <3>2, MbStatusSeen DEF MbWireFails, MbSeen
    <3>3. CASE MbLock(n) \/ MbSetSlaveID(n) \/ MbAfter(n) \/ MbSend(n)
      BY <3>3 DEF MbLock, MbSetSlaveID, MbAfter, MbSend, MbSeen
    <3> QED
      BY <1>6, <3>1, <3>2, <3>3 DEF MbCallStep
  <2>4. UNCHANGED <<mbCfg, mbServer, mbStop>>
    BY <1>6 DEF MbCallStep, MbLock, MbSetSlaveID, MbWire, MbWireFails, MbAfter, MbSend
  <2> QED
    BY <2>1, <2>2, <2>3, <2>4 DEF MbSeen
<1> QED
  BY <1>1, <1>2, <1>3, <1>4, <1>5, <1>6 DEF MbNext

\* The invariants give the type invariants.
LEMMA MbTyped == MbInv /\ MbSeen => MbTypeOK
<1> SUFFICES ASSUME MbInv, MbSeen PROVE MbTypeOK
  OBVIOUS
<1>1. \A n \in MbNodes : /\ mbCall[n].step \in {"idle", "want", "set", "wire", "got", "send"}
                          /\ mbCall[n] # MbIdle => mbCall[n].unit \in MbUnits
  BY DEF MbInv, MbShape, MbSection, MbSeen
<1> QED
  BY <1>1 DEF MbInv, MbShape, MbSeen, MbTypeOK

\* The same of the MQTT connection.
LEMMA MqTyped == MqInv => MqTypeOK
BY DEF MqInv, MqShape, MqNodesOK, MqTypeOK, MqMuxes, MqCalls

-----------------------------------------------------------------------------
\* The invariants of all the parts.
DevicesInv == MqInv /\ RqInv /\ S7Inv /\ MbInv /\ MbSeen /\ UaInv /\ IoInv

\* A step is one of one part, and the others do nothing.
LEMMA OnePartSteps ==
  ASSUME [DevicesNext]_devicesVars
  PROVE  /\ [MqNext]_mqVars /\ [RqNext]_rqVars /\ [S7Next]_s7Vars /\ [MbNext]_mbVars
         /\ [UaNext]_uaVars /\ [IoNext]_ioVars
BY DEF DevicesNext, devicesVars, Only

(***************************************************************************)
(* The composition of the parts: whichever of them a behaviour is of, the  *)
(* types and the properties of all of them hold, for every value of the    *)
(* constants of each.                                                      *)
(***************************************************************************)
THEOREM DevicesAreSound ==
  DevicesSpec =>
    [](DevicesTypeOK /\ MqSound /\ RqSound /\ S7Sound /\ MbRightUnit /\ UaSound /\ IoSound)
<1>1. DevicesInit => DevicesInv
  <2> SUFFICES ASSUME DevicesInit PROVE DevicesInv
    OBVIOUS
  <2>1. MqInit /\ RqInit /\ S7Init /\ MbInit /\ UaInit /\ IoInit
    BY DEF DevicesInit
  <2>2. MbSeen
    BY <2>1 DEF MbInit, MbSeen, MbIdle
  <2> QED
    BY <2>1, <2>2, MqInitially, RqInitially, S7Initially, MbInitially, UaInitially, IoInitially DEF DevicesInv
<1>2. DevicesInv /\ [DevicesNext]_devicesVars => DevicesInv'
  <2> SUFFICES ASSUME DevicesInv, [DevicesNext]_devicesVars PROVE DevicesInv'
    OBVIOUS
  <2>1. /\ [MqNext]_mqVars /\ [RqNext]_rqVars /\ [S7Next]_s7Vars /\ [MbNext]_mbVars
        /\ [UaNext]_uaVars /\ [IoNext]_ioVars
    BY OnePartSteps
  <2> QED
    BY <2>1, MqInductive, RqInductive, S7Inductive, MbInductive, MbSeenKeeps, UaInductive, IoInductive DEF DevicesInv
<1>3. DevicesInv =>
        DevicesTypeOK /\ MqSound /\ RqSound /\ S7Sound /\ MbRightUnit /\ UaSound /\ IoSound
  <2> SUFFICES ASSUME DevicesInv
               PROVE  DevicesTypeOK /\ MqSound /\ RqSound /\ S7Sound /\ MbRightUnit /\ UaSound /\ IoSound
    OBVIOUS
  <2>1. MqTypeOK /\ MbTypeOK /\ UaTypeOK /\ IoTypeOK
    BY MqTyped, MbTyped, UaTyped, IoInvIsSound DEF DevicesInv
  <2>2. RqTypeOK /\ S7TypeOK
    BY DEF DevicesInv, RqInv, S7Inv
  <2>3. DevicesTypeOK
    BY <2>1, <2>2 DEF DevicesTypeOK
  <2> QED
    BY <2>3, MqInvIsSound, RqInvIsSound, S7InvIsSound, MbInvIsSound, UaInvIsSound, IoInvIsSound DEF DevicesInv
<1> QED
  BY <1>1, <1>2, <1>3, PTL DEF DevicesSpec
=============================================================================
