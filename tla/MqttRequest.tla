---------------------------- MODULE MqttRequest ----------------------------
(***************************************************************************)
(* The mqtt-request node (internal/nodes/mqtt/request.go) and the mqtt-out *)
(* node that answers it (out.go), over one shared connection.  Four kinds  *)
(* of goroutines meet in the pending map: the message loop, which sets a   *)
(* request up in three calls of the broker; the client's router, which     *)
(* delivers responses; the timers; and failAllInflight, called when the    *)
(* connection goes down and by Stop.                                       *)
(*                                                                         *)
(* The broker is reduced to what the node sees of it: whether the response *)
(* topic is in its tables, and calls that succeed or report an error.  A   *)
(* Publish that reports an error may have reached the server.              *)
(***************************************************************************)
EXTENDS Naturals, Sequences, FiniteSets

CONSTANTS RqReqs,   \* bound: the loop handles requests 1 .. RqReqs
          RqDrops,  \* bound: times the connection is lost
          RqFails   \* bound: errors the broker reports while connected

ASSUME RqAssumption == RqReqs \in Nat /\ RqDrops \in Nat /\ RqFails \in Nat

VARIABLES rqTimeout,  \* whether a timeout is configured (0 means none)
          rqConn,     \* "up", "down" (callbacks running), "lost" (reconnecting)
          rqLoop,     \* the message loop: [step, req]
          rqPending,  \* the map, by request
          rqSub,      \* requests whose response topic is subscribed
          rqSent,     \* requests that reached the server
          rqTimer,    \* "none", "armed", "took", "done"
          rqRouter,   \* the router: [step, req, ok]
          rqTaken,    \* what each failAllInflight took and has still to fail
          rqLife,     \* "running", "stopping", "stopped"
          rqOut,      \* what the flow was told of each request, in order
          rqFill,     \* the node's status
          rqLeft      \* what the bounds have left

rqVars == <<rqTimeout, rqConn, rqLoop, rqPending, rqSub, rqSent, rqTimer, rqRouter,
            rqTaken, rqLife, rqOut, rqFill, rqLeft>>

RqReq == 1 .. RqReqs
RqIdle == [step |-> "idle", req |-> 0]
RqOutcomes == {"response", "timeout", "lost", "error"}

RqTypeOK ==
  /\ rqTimeout \in BOOLEAN
  /\ rqConn \in {"up", "down", "lost"}
  /\ rqLoop \in [step : {"idle", "subscribe", "publish", "undo", "arm"}, req : 0 .. RqReqs]
  /\ rqPending \subseteq RqReq /\ rqSub \subseteq RqReq /\ rqSent \subseteq RqReq
  /\ rqTimer \in [RqReq -> {"none", "armed", "took", "done"}]
  /\ rqRouter \in [step : {"idle", "got", "took"}, req : 0 .. RqReqs, ok : BOOLEAN]
  /\ rqTaken \in [{"down", "stop"} -> SUBSET RqReq]
  /\ rqLife \in {"running", "stopping", "stopped"}
  /\ rqOut \in [RqReq -> Seq(RqOutcomes)]
  /\ rqFill \in {"green", "yellow"}
  /\ rqLeft \in [drops : 0 .. RqDrops, fails : 0 .. RqFails, next : 1 .. RqReqs + 1]

\* Start: the callbacks are registered with a connected broker.
RqInit ==
  /\ rqTimeout \in BOOLEAN
  /\ rqConn = "up"
  /\ rqLoop = RqIdle
  /\ rqPending = {} /\ rqSub = {} /\ rqSent = {}
  /\ rqTimer = [r \in RqReq |-> "none"]
  /\ rqRouter = [step |-> "idle", req |-> 0, ok |-> FALSE]
  /\ rqTaken = [w \in {"down", "stop"} |-> {}]
  /\ rqLife = "running"
  /\ rqOut = [r \in RqReq |-> <<>>]
  /\ rqFill = "green"
  /\ rqLeft = [drops |-> RqDrops, fails |-> RqFails, next |-> 1]

Tell(r, outcome) == rqOut' = [rqOut EXCEPT ![r] = Append(@, outcome)]

\* A call of the broker reports an error.
RqError ==
  /\ rqConn # "up" \/ rqLeft.fails > 0
  /\ rqLeft' = [rqLeft EXCEPT !.fails = IF rqConn = "up" THEN @ - 1 ELSE @]

-----------------------------------------------------------------------------
\* HandleMessage: the context is entered into the map ...
RqAccept(r) ==
  /\ rqLoop = RqIdle /\ rqLeft.next = r
  /\ rqLeft' = [rqLeft EXCEPT !.next = r + 1]
  /\ rqPending' = rqPending \cup {r}
  /\ rqLoop' = [step |-> "subscribe", req |-> r]
  /\ UNCHANGED <<rqTimeout, rqConn, rqSub, rqSent, rqTimer, rqRouter, rqTaken, rqLife, rqOut, rqFill>>

\* ... the response topic is subscribed (nothing is left of it on an error) ...
RqSubscribe ==
  LET r == rqLoop.req IN
  /\ rqLoop.step = "subscribe"
  /\ \/ /\ rqConn = "up"
        /\ rqSub' = rqSub \cup {r}
        /\ rqLoop' = [rqLoop EXCEPT !.step = "publish"]
        /\ UNCHANGED <<rqPending, rqOut, rqLeft>>
     \/ /\ RqError
        /\ rqPending' = rqPending \ {r}
        /\ Tell(r, "error")
        /\ rqLoop' = RqIdle
        /\ UNCHANGED rqSub
  /\ UNCHANGED <<rqTimeout, rqConn, rqSent, rqTimer, rqRouter, rqTaken, rqLife, rqFill>>

\* ... and the request published; on an error it may be out nevertheless.
RqPublish ==
  LET r == rqLoop.req IN
  /\ rqLoop.step = "publish"
  /\ \/ /\ rqConn = "up"
        /\ rqSent' = rqSent \cup {r}
        /\ rqLoop' = [rqLoop EXCEPT !.step = "arm"]
        /\ UNCHANGED rqLeft
     \/ /\ RqError
        /\ rqSent' \in {rqSent, rqSent \cup {r}}
        /\ rqLoop' = [rqLoop EXCEPT !.step = "undo"]
  /\ UNCHANGED <<rqTimeout, rqConn, rqPending, rqSub, rqTimer, rqRouter, rqTaken, rqLife, rqOut, rqFill>>

\* The error path: Unsubscribe, removePending, the error returned.  A payload
\* that cannot be converted takes it too, before anything is published.
RqUndo ==
  /\ rqLoop.step = "undo"
  /\ rqSub' = rqSub \ {rqLoop.req}
  /\ rqPending' = rqPending \ {rqLoop.req}
  /\ Tell(rqLoop.req, "error")
  /\ rqLoop' = RqIdle
  /\ UNCHANGED <<rqTimeout, rqConn, rqSent, rqTimer, rqRouter, rqTaken, rqLife, rqFill, rqLeft>>

\* The timer is set after the publish, even when the request is already over.
RqArm ==
  /\ rqLoop.step = "arm"
  /\ rqTimer' = [rqTimer EXCEPT ![rqLoop.req] = IF rqTimeout THEN "armed" ELSE @]
  /\ rqFill' = "green"
  /\ rqLoop' = RqIdle
  /\ UNCHANGED <<rqTimeout, rqConn, rqPending, rqSub, rqSent, rqRouter, rqTaken, rqLife, rqOut, rqLeft>>

-----------------------------------------------------------------------------
\* mqtt-out: the topic it publishes to ("" is an error) ...
EffectiveTopic(out, m) ==
  IF out.target = "responseTopic" THEN m.responseTopic
  ELSE IF out.topic # "" THEN out.topic ELSE m.topic

\* ... and what becomes of the correlation data on its way through a flow: as
\* bytes, as the base64 of a JSON round trip and as an array of numbers it
\* survives; text made of the bytes is something else.
DecodeCorrelationData(shape) ==
  CASE shape \in {"bytes", "base64", "numbers"} -> "same"
    [] shape = "text" -> "changed"
    [] OTHER -> "none"

\* A flow answers a request through mqtt-out.  The router collects the
\* handlers of the topic; duplicates and late answers are possible.
RqRespond(r) ==
  /\ r \in rqSent /\ rqConn = "up" /\ rqRouter.step = "idle"
  /\ \E out \in [target : {"topic", "responseTopic"}, topic : {"", "elsewhere"}],
        m \in [responseTopic : {"", "reply"}, topic : {"", "reply"},
               correlation : {"bytes", "base64", "numbers", "text", "missing"}] :
       /\ EffectiveTopic(out, m) = "reply" /\ r \in rqSub
       /\ rqRouter' = [step |-> "got", req |-> r, ok |-> DecodeCorrelationData(m.correlation) = "same"]
  /\ UNCHANGED <<rqTimeout, rqConn, rqLoop, rqPending, rqSub, rqSent, rqTimer, rqTaken, rqLife, rqOut, rqFill, rqLeft>>

\* onResponse: takePending decides who ends the request, and the timer, if it
\* is set by now, is stopped ...
RqTakeResponse ==
  LET r == rqRouter.req IN
  /\ rqRouter.step = "got"
  /\ IF rqRouter.ok /\ r \in rqPending
     THEN /\ rqPending' = rqPending \ {r}
          /\ rqTimer' = [rqTimer EXCEPT ![r] = IF @ = "armed" THEN "done" ELSE @]
          /\ rqRouter' = [rqRouter EXCEPT !.step = "took"]
     ELSE /\ rqRouter' = [step |-> "idle", req |-> 0, ok |-> FALSE]
          /\ UNCHANGED <<rqPending, rqTimer>>
  /\ UNCHANGED <<rqTimeout, rqConn, rqLoop, rqSub, rqSent, rqTaken, rqLife, rqOut, rqFill, rqLeft>>

\* ... the topic is unsubscribed and the response sent on.
RqResponse ==
  /\ rqRouter.step = "took"
  /\ rqSub' = rqSub \ {rqRouter.req}
  /\ Tell(rqRouter.req, "response")
  /\ rqFill' = "green"
  /\ rqRouter' = [step |-> "idle", req |-> 0, ok |-> FALSE]
  /\ UNCHANGED <<rqTimeout, rqConn, rqLoop, rqPending, rqSent, rqTimer, rqTaken, rqLife, rqLeft>>

\* Mutant: the timer does not ask whether the request is still pending.
RqExpireAnyway(r) ==
  /\ rqTimer[r] = "armed"
  /\ rqTimer' = [rqTimer EXCEPT ![r] = "took"]
  /\ rqPending' = rqPending \ {r}
  /\ UNCHANGED <<rqTimeout, rqConn, rqLoop, rqSub, rqSent, rqRouter, rqTaken, rqLife, rqOut, rqFill, rqLeft>>

\* onTimeout, likewise.
RqExpire(r) ==
  /\ rqTimer[r] = "armed"
  /\ rqTimer' = [rqTimer EXCEPT ![r] = IF r \in rqPending THEN "took" ELSE "done"]
  /\ rqPending' = rqPending \ {r}
  /\ UNCHANGED <<rqTimeout, rqConn, rqLoop, rqSub, rqSent, rqRouter, rqTaken, rqLife, rqOut, rqFill, rqLeft>>

RqTimedOut(r) ==
  /\ rqTimer[r] = "took"
  /\ rqTimer' = [rqTimer EXCEPT ![r] = "done"]
  /\ rqSub' = rqSub \ {r}
  /\ Tell(r, "timeout")
  /\ rqFill' = "green"
  /\ UNCHANGED <<rqTimeout, rqConn, rqLoop, rqPending, rqSent, rqRouter, rqTaken, rqLife, rqLeft>>

(***************************************************************************)
(* failAllInflight, by onConnectionDown ("down") or Stop ("stop"): the map *)
(* is replaced under the mutex, its contexts are failed one by one.        *)
(***************************************************************************)
TakeAll(who) ==
  /\ rqTaken' = [rqTaken EXCEPT ![who] = rqPending]
  /\ rqPending' = {}

RqFailOne(who) ==
  /\ \E r \in rqTaken[who] :
       /\ rqTaken' = [rqTaken EXCEPT ![who] = @ \ {r}]
       /\ rqTimer' = [rqTimer EXCEPT ![r] = IF @ = "armed" THEN "done" ELSE @]
       /\ rqSub' = rqSub \ {r}
       /\ Tell(r, "lost")
       /\ rqFill' = IF rqTaken'[who] = {} THEN "green" ELSE rqFill
  /\ UNCHANGED <<rqTimeout, rqConn, rqLoop, rqPending, rqSent, rqRouter, rqLife, rqLeft>>

\* onConnectionDown: the status is broadcast, then the callback called,
\* unless Stop has unregistered it; autopaho reconnects when it returns.
RqDown ==
  /\ rqConn = "up" /\ rqLeft.drops > 0
  /\ rqLeft' = [rqLeft EXCEPT !.drops = @ - 1]
  /\ rqConn' = "down"
  /\ rqFill' = "yellow"
  /\ UNCHANGED <<rqTimeout, rqLoop, rqPending, rqSub, rqSent, rqTimer, rqRouter, rqTaken, rqLife, rqOut>>

RqDownCallback ==
  /\ rqConn = "down"
  /\ rqConn' = "lost"
  /\ \/ TakeAll("down")
     \/ rqLife # "running" /\ UNCHANGED <<rqTaken, rqPending>>
  /\ UNCHANGED <<rqTimeout, rqLoop, rqSub, rqSent, rqTimer, rqRouter, rqLife, rqOut, rqFill, rqLeft>>

RqReconnect ==
  /\ rqConn = "lost" /\ rqTaken["down"] = {}
  /\ rqConn' = "up"
  /\ rqFill' = "green"
  /\ UNCHANGED <<rqTimeout, rqLoop, rqPending, rqSub, rqSent, rqTimer, rqRouter, rqTaken, rqLife, rqOut, rqLeft>>

\* Stop, by the engine; the loop may still be setting a request up.
RqStop ==
  /\ rqLife = "running"
  /\ rqLife' = "stopping"
  /\ TakeAll("stop")
  /\ UNCHANGED <<rqTimeout, rqConn, rqLoop, rqSub, rqSent, rqTimer, rqRouter, rqOut, rqFill, rqLeft>>

RqStopped ==
  /\ rqLife = "stopping" /\ rqTaken["stop"] = {}
  /\ rqLife' = "stopped"
  /\ UNCHANGED <<rqTimeout, rqConn, rqLoop, rqPending, rqSub, rqSent, rqTimer, rqRouter, rqTaken, rqOut, rqFill, rqLeft>>

\* The goroutines go on: calls of the broker are bounded by a timeout of 5 s,
\* and timers expire.
RqLoopStep == RqSubscribe \/ RqPublish \/ RqUndo \/ RqArm
RqRouterStep == RqTakeResponse \/ RqResponse
RqTimerStep(r) == RqExpire(r) \/ RqTimedOut(r)
RqFailStep(who) == RqFailOne(who) \/ (who = "down" /\ RqDownCallback) \/ (who = "stop" /\ RqStopped)

RqProgress ==
  \/ RqLoopStep
  \/ \E r \in RqReq : RqTimerStep(r)
  \/ \E who \in {"down", "stop"} : RqFailStep(who)

RqNext ==
  \/ \E r \in RqReq : RqAccept(r) \/ RqRespond(r)
  \/ RqDown \/ RqReconnect \/ RqStop
  \/ RqProgress \/ RqRouterStep

\* Goroutines run, calls of the broker end, timers expire.  The router has a
\* condition of its own: answers nobody waits for may keep coming.
RqSpec == RqInit /\ [][RqNext]_rqVars /\ WF_rqVars(RqProgress) /\ WF_rqVars(RqRouterStep)

-----------------------------------------------------------------------------
\* Nothing is between taking request r from the map and telling the flow.
RqSettled(r) ==
  /\ rqLoop.req # r
  /\ ~(rqRouter.step = "took" /\ rqRouter.req = r)
  /\ rqTimer[r] # "took"
  /\ \A w \in DOMAIN rqTaken : r \notin rqTaken[w]

(***************************************************************************)
(* A request ends once.  Response, timeout and lost connection exclude     *)
(* each other however they race, and a request that HandleMessage accepted *)
(* and that is no longer pending has been ended by one of them; a second   *)
(* outcome is possible only together with an error that HandleMessage      *)
(* itself returned.                                                        *)
(***************************************************************************)
RqOneOutcome ==
  \A r \in RqReq :
    /\ \A i, j \in DOMAIN rqOut[r] : rqOut[r][i] # "error" /\ rqOut[r][j] # "error" => i = j
    /\ (RqSettled(r) /\ r < rqLeft.next) =>
         IF r \in rqPending THEN rqOut[r] = <<>> ELSE rqOut[r] # <<>>

(***************************************************************************)
(* The one-shot subscription: a pending request is subscribed, so that its *)
(* response can be matched; and a subscription outlives its request only   *)
(* if the connection was lost, or Stop called, while HandleMessage was     *)
(* still setting the request up.                                           *)
(***************************************************************************)
RqOneShotSubscription ==
  \A r \in RqReq : RqSettled(r) =>
    /\ r \in rqPending => r \in rqSub
    /\ r \in rqSub => r \in rqPending \/ "lost" \in {rqOut[r][i] : i \in DOMAIN rqOut[r]}

\* With a timeout configured the flow must hear of every request accepted: by
\* a response, the timer, a lost connection, Stop or an error.
RqWaiting == rqTimeout /\ \E r \in RqReq : r < rqLeft.next /\ rqOut[r] = <<>>

(***************************************************************************)
(* handleBrokerStatus (its comment): "pass disconnected/connecting through *)
(* verbatim and override the green state": while the connection is down    *)
(* the node does not show green.                                           *)
(***************************************************************************)
RqStatusTruthful == rqConn # "up" => rqFill # "green"

(***************************************************************************)
(* The mqtt-request node: every request ends once, and its subscription    *)
(* lives as long as it does.                                               *)
(***************************************************************************)
RqSound == RqOneOutcome /\ RqOneShotSubscription
=============================================================================
