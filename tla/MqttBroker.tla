---------------------------- MODULE MqttBroker ----------------------------
(***************************************************************************)
(* The shared MQTT connection (internal/nodes/mqtt/broker.go) and the      *)
(* mqtt-in nodes that subscribe through it (in.go).  The tables change     *)
(* under the broker's mutex; the SUBSCRIBE or UNSUBSCRIBE packet that a    *)
(* change calls for is sent after the unlock, so packets of several nodes  *)
(* and of a reconnect may pass each other.                                 *)
(*                                                                         *)
(* The server (external) keeps one subscription per topic filter; a lost   *)
(* connection loses them all (clean start, no session expiry).             *)
(***************************************************************************)
EXTENDS Integers, FiniteSets

CONSTANTS MqNodes,   \* mqtt-in nodes
          MqStatic,  \* the ones in static mode
          MqTopics,  \* topic filters
          MqOpts,    \* sets of subscription options
          MqFails,   \* bound: packets that fail while connected
          MqDrops,   \* bound: lost connections
          MqCtl      \* bound: control messages of dynamic nodes

VARIABLES mqConn,    \* "off", "connecting", "up", "down" or "stopped"
          mqWire,    \* QoS the server subscribes each topic with; -1: not subscribed
          mqMux,     \* muxSubscriptions: per key QoS (-1: no entry) and handlers
          mqReg,     \* subscribers[node][topic]: the options, or NoOpt
          mqSub,     \* per node: the Subscribe call waiting for its SUBACK
          mqUnsub,   \* topics of UNSUBSCRIBE packets on their way, with their sender
          mqTodo,    \* per node: topics the loop has still to drop and to add
          mqActive,  \* activeTopics
          mqDrop,    \* per node: topics Stop has still to drop
          mqLife,    \* per node "new", "running", "failed", "stopping" or "stopped"
          mqResub,   \* onConnectionUp: "idle", "snapshot" due, or the packets to send
          mqRaced,   \* since the last snapshot a packet failed or could pass another
          mqMixed,   \* topics that had two option sets at once since the last snapshot
          mqLeft     \* what is left of the bounds

mqVars == <<mqConn, mqWire, mqMux, mqReg, mqSub, mqUnsub, mqTodo, mqActive,
            mqDrop, mqLife, mqResub, mqRaced, mqMixed, mqLeft>>

NoOpt == "no options"
MqQoS == 0 .. 1
MqKeys == MqTopics \X MqOpts
NoSub == [topic |-> "", opt |-> NoOpt, had |-> FALSE, prev |-> 0, qos |-> 0]
NoTodo == [drop |-> {}, add |-> {}, opt |-> NoOpt, qos |-> 0]

\* Options are options; the bounds are numbers.
ASSUME MqAssumption == NoOpt \notin MqOpts /\ MqFails \in Nat /\ MqDrops \in Nat /\ MqCtl \in Nat

MqTypeOK ==
  /\ mqConn \in {"off", "connecting", "up", "down", "stopped"}
  /\ mqWire \in [MqTopics -> {-1} \cup MqQoS]
  /\ mqMux \in [MqKeys -> [qos : {-1} \cup MqQoS, handlers : SUBSET MqNodes]]
  /\ mqReg \in [MqNodes -> [MqTopics -> MqOpts \cup {NoOpt}]]
  /\ mqSub \in [MqNodes -> {NoSub} \cup [topic : MqTopics, opt : MqOpts, had : BOOLEAN,
                                         prev : MqQoS, qos : MqQoS]]
  /\ mqUnsub \subseteq MqNodes \X {"loop", "stop"} \X MqTopics
  /\ mqTodo \in [MqNodes -> [drop : SUBSET MqTopics, add : SUBSET MqTopics,
                             opt : MqOpts \cup {NoOpt}, qos : MqQoS]]
  /\ mqActive \in [MqNodes -> SUBSET MqTopics]
  /\ mqLife \in [MqNodes -> {"new", "running", "failed", "stopping", "stopped"}]
  /\ mqDrop \in [MqNodes -> SUBSET MqTopics]
  /\ mqResub \in [step : {"idle", "snapshot", "sending"}, packets : SUBSET (MqKeys \X MqQoS)]
  /\ mqRaced \in BOOLEAN /\ mqMixed \subseteq MqTopics
  /\ mqLeft \in [fails : 0 .. MqFails, drops : 0 .. MqDrops, ctl : 0 .. MqCtl]

MqInit ==
  /\ mqConn = "off"
  /\ mqWire = [t \in MqTopics |-> -1]
  /\ mqMux = [k \in MqKeys |-> [qos |-> -1, handlers |-> {}]]
  /\ mqReg = [n \in MqNodes |-> [t \in MqTopics |-> NoOpt]]
  /\ mqSub = [n \in MqNodes |-> NoSub]
  /\ mqUnsub = {}
  /\ mqTodo = [n \in MqNodes |-> NoTodo]
  /\ mqActive = [n \in MqNodes |-> {}]
  /\ mqDrop = [n \in MqNodes |-> {}]
  /\ mqLife = [n \in MqNodes |-> "new"]
  /\ mqResub = [step |-> "idle", packets |-> {}]
  /\ mqRaced = FALSE /\ mqMixed = {}
  /\ mqLeft = [fails |-> MqFails, drops |-> MqDrops, ctl |-> MqCtl]

\* Packets of Subscribe, Unsubscribe or a reconnect are on their way.
MqBusy == mqUnsub # {} \/ mqResub.step # "idle" \/ \E n \in MqNodes : mqSub[n] # NoSub

\* No other option set of k's topic has an entry.
MqSole(mux, k) == \A o \in MqOpts \ {k[2]} : mux[<<k[1], o>>].qos = -1

-----------------------------------------------------------------------------
\* The connection.  Start connects in the background; autopaho reconnects.
MqStart ==
  /\ mqConn = "off" /\ mqConn' = "connecting"
  /\ UNCHANGED <<mqDrop, mqWire, mqMux, mqReg, mqSub, mqUnsub, mqTodo, mqActive, mqLife, mqResub, mqRaced, mqMixed, mqLeft>>

MqConnect ==
  /\ mqConn \in {"connecting", "down"} /\ mqResub.step = "idle"
  /\ mqConn' = "up"
  /\ mqResub' = [step |-> "snapshot", packets |-> {}]
  /\ UNCHANGED <<mqDrop, mqWire, mqMux, mqReg, mqSub, mqUnsub, mqTodo, mqActive, mqLife, mqRaced, mqMixed, mqLeft>>

\* onConnectionUp: the entries are collected under the mutex ...
MqSnapshot ==
  /\ mqResub.step = "snapshot"
  /\ mqResub' = [step |-> "sending",
                 packets |-> {<<k, mqMux[k].qos>> : k \in {j \in MqKeys : mqMux[j].qos >= 0}}]
  /\ mqRaced' = (mqUnsub # {} \/ \E n \in MqNodes : mqSub[n] # NoSub)
  /\ mqMixed' = {t \in MqTopics : \E o \in MqOpts : mqMux[<<t, o>>].qos >= 0 /\ ~MqSole(mqMux, <<t, o>>)}
  /\ UNCHANGED <<mqDrop, mqConn, mqWire, mqMux, mqReg, mqSub, mqUnsub, mqTodo, mqActive, mqLife, mqLeft>>

\* ... and subscribed one by one after it; an error is only logged.
MqResubscribe ==
  /\ mqResub.step = "sending"
  /\ \/ /\ mqResub.packets = {}
        /\ mqResub' = [mqResub EXCEPT !.step = "idle"]
        /\ UNCHANGED <<mqWire, mqRaced, mqLeft>>
     \/ \E p \in mqResub.packets :
          /\ mqResub' = [mqResub EXCEPT !.packets = @ \ {p}]
          /\ \/ /\ mqConn = "up"
                /\ mqWire' = [mqWire EXCEPT ![p[1][1]] = p[2]]
                /\ UNCHANGED <<mqRaced, mqLeft>>
             \/ /\ mqConn # "up" \/ mqLeft.fails > 0
                /\ mqLeft' = [mqLeft EXCEPT !.fails = IF mqConn = "up" THEN @ - 1 ELSE @]
                /\ mqRaced' = TRUE
                /\ UNCHANGED mqWire
  /\ UNCHANGED <<mqDrop, mqConn, mqMux, mqReg, mqSub, mqUnsub, mqTodo, mqActive, mqLife, mqMixed>>

MqConnectionDown ==
  /\ mqConn = "up" /\ mqLeft.drops > 0
  /\ mqConn' = "down"
  /\ mqLeft' = [mqLeft EXCEPT !.drops = @ - 1]
  /\ mqWire' = [t \in MqTopics |-> -1]
  /\ UNCHANGED <<mqDrop, mqMux, mqReg, mqSub, mqUnsub, mqTodo, mqActive, mqLife, mqResub, mqRaced, mqMixed>>

\* Stop: the connection manager is taken out under the mutex, then closed.  A
\* partial deploy stops it before the nodes that use it.
MqStop ==
  /\ mqConn \in {"connecting", "up", "down"}
  /\ mqConn' = "stopped"
  /\ mqWire' = [t \in MqTopics |-> -1]
  /\ UNCHANGED <<mqDrop, mqMux, mqReg, mqSub, mqUnsub, mqTodo, mqActive, mqLife, mqResub, mqRaced, mqMixed, mqLeft>>

-----------------------------------------------------------------------------
\* Mutant: the last handler leaves and the entry stays.
DetachHandlerKeepsEntry(mux, k, n) ==
  IF mux[k].qos = -1 THEN mux ELSE [mux EXCEPT ![k].handlers = @ \ {n}]

(***************************************************************************)
(* The tables.  DetachHandler is detachHandlerLocked.                      *)
(***************************************************************************)
DetachHandler(mux, k, n) ==
  IF mux[k].qos = -1 THEN mux
  ELSE [mux EXCEPT ![k] = IF @.handlers \subseteq {n} THEN [qos |-> -1, handlers |-> {}]
                                                     ELSE [qos |-> @.qos, handlers |-> @.handlers \ {n}]]

\* The entry (t, o) after node n asked for QoS q.
JoinEntry(mux, t, o, q, n) ==
  [mux EXCEPT ![<<t, o>>] = [qos |-> IF q > @.qos THEN q ELSE @.qos,
                             handlers |-> @.handlers \cup {n}]]

(***************************************************************************)
(* Subscribe(n, t, o, q) up to the unlock.  A packet is needed for a new   *)
(* entry or a raised QoS.  Before Start the call ends here.                *)
(***************************************************************************)
MqSubscribe(n, t, o, q) ==
  LET old == mqReg[n][t]
      mux == IF old = NoOpt THEN mqMux ELSE DetachHandler(mqMux, <<t, old>>, n)
      had == mux[<<t, o>>].qos >= 0
      need == ~had \/ q > mux[<<t, o>>].qos
  IN /\ mqMux' = JoinEntry(mux, t, o, q, n)
     /\ mqReg' = [mqReg EXCEPT ![n][t] = o]
     /\ mqMixed' = IF MqSole(mux, <<t, o>>) THEN mqMixed ELSE mqMixed \cup {t}
     /\ IF need /\ mqConn \in {"connecting", "up", "down"}
        THEN /\ mqSub' = [mqSub EXCEPT ![n] = [topic |-> t, opt |-> o, had |-> had, qos |-> q,
                                               prev |-> IF had THEN mux[<<t, o>>].qos ELSE 0]]
             /\ mqRaced' = (mqRaced \/ MqBusy)
        ELSE UNCHANGED <<mqSub, mqRaced>>

\* SUBACK: the topic is subscribed with the QoS the entry had at the unlock.
MqSubAck(n) ==
  /\ mqSub[n] # NoSub /\ mqConn = "up"
  /\ mqWire' = [mqWire EXCEPT ![mqSub[n].topic] = mqSub[n].qos]
  /\ mqSub' = [mqSub EXCEPT ![n] = NoSub]
  /\ IF mqLife[n] = "new"
     THEN /\ mqLife' = [mqLife EXCEPT ![n] = "running"]
          /\ mqActive' = [mqActive EXCEPT ![n] = {mqSub[n].topic}]
     ELSE UNCHANGED <<mqLife, mqActive>>
  /\ UNCHANGED <<mqDrop, mqConn, mqMux, mqReg, mqUnsub, mqTodo, mqResub, mqRaced, mqMixed, mqLeft>>

\* The packet fails: the handler is taken back, the QoS of an entry that was
\* there before is restored.  A static node's Start fails with it.
MqSubFail(n) ==
  LET s == mqSub[n]  k == <<s.topic, s.opt>>  mux == DetachHandler(mqMux, k, n)
  IN /\ s # NoSub
     /\ mqConn # "up" \/ mqLeft.fails > 0
     /\ mqMux' = IF mux[k].qos >= 0 /\ s.had THEN [mux EXCEPT ![k].qos = s.prev] ELSE mux
     /\ mqReg' = [mqReg EXCEPT ![n][s.topic] = NoOpt]
     /\ mqSub' = [mqSub EXCEPT ![n] = NoSub]
     /\ mqLife' = [mqLife EXCEPT ![n] = IF @ = "new" THEN "failed" ELSE @]
     /\ mqLeft' = [mqLeft EXCEPT !.fails = IF mqConn = "up" THEN @ - 1 ELSE @]
     /\ mqRaced' = TRUE
     /\ UNCHANGED <<mqDrop, mqConn, mqWire, mqUnsub, mqTodo, mqActive, mqResub, mqMixed>>

\* Unsubscribe(n, t) up to the unlock, called by the loop or by Stop.
MqUnsubscribe(n, t, who) ==
  LET o == mqReg[n][t]  mux == DetachHandler(mqMux, <<t, o>>, n)
  IN IF o = NoOpt
     THEN UNCHANGED <<mqMux, mqReg, mqUnsub, mqRaced>>
     ELSE /\ mqMux' = mux
          /\ mqReg' = [mqReg EXCEPT ![n][t] = NoOpt]
          /\ IF mux[<<t, o>>].qos = -1 /\ mqConn \in {"connecting", "up", "down"}
             THEN /\ mqUnsub' = mqUnsub \cup {<<n, who, t>>}
                  /\ mqRaced' = (mqRaced \/ MqBusy)
             ELSE UNCHANGED <<mqUnsub, mqRaced>>

\* UNSUBACK, or an error that is only logged.  The packet names the topic, so
\* it ends the subscription of every option set of it.
MqUnsubDone(u) ==
  /\ u \in mqUnsub
  /\ mqUnsub' = mqUnsub \ {u}
  /\ \/ /\ mqConn = "up"
        /\ mqWire' = [mqWire EXCEPT ![u[3]] = -1]
        /\ UNCHANGED mqLeft
     \/ /\ mqConn # "up" \/ mqLeft.fails > 0
        /\ mqLeft' = [mqLeft EXCEPT !.fails = IF mqConn = "up" THEN @ - 1 ELSE @]
        /\ UNCHANGED mqWire
  /\ UNCHANGED <<mqDrop, mqConn, mqMux, mqReg, mqSub, mqTodo, mqActive, mqLife, mqResub, mqRaced, mqMixed>>

-----------------------------------------------------------------------------
\* MqttInNode.Start: config nodes are started first.
MqNodeStart(n) ==
  /\ mqLife[n] = "new" /\ mqSub[n] = NoSub /\ mqConn # "off"
  /\ IF n \in MqStatic
     THEN \E t \in MqTopics, o \in MqOpts, q \in MqQoS :
            /\ MqSubscribe(n, t, o, q)
            /\ IF mqSub'[n] = NoSub
               THEN /\ mqLife' = [mqLife EXCEPT ![n] = "running"]
                    /\ mqActive' = [mqActive EXCEPT ![n] = {t}]
               ELSE UNCHANGED <<mqLife, mqActive>>
     ELSE /\ mqLife' = [mqLife EXCEPT ![n] = "running"]
          /\ UNCHANGED <<mqMux, mqReg, mqSub, mqRaced, mqMixed, mqActive>>
  /\ UNCHANGED <<mqDrop, mqConn, mqWire, mqUnsub, mqTodo, mqResub, mqLeft>>

MqLoopIdle(n) ==
  /\ mqSub[n] = NoSub /\ mqTodo[n] = NoTodo
  /\ \A t \in MqTopics : <<n, "loop", t>> \notin mqUnsub

\* HandleMessage of a dynamic node: activeTopics is replaced, then the old
\* topics are dropped and the new ones subscribed.  It may run after Stop.
MqControl(n) ==
  /\ n \notin MqStatic /\ mqLife[n] \in {"running", "stopping", "stopped"} /\ mqLeft.ctl > 0
  /\ MqLoopIdle(n)
  /\ \E next \in SUBSET MqTopics, o \in MqOpts, q \in MqQoS :
       /\ mqTodo' = [mqTodo EXCEPT ![n] = [drop |-> mqActive[n], add |-> next, opt |-> o, qos |-> q]]
       /\ mqActive' = [mqActive EXCEPT ![n] = next]
  /\ mqLeft' = [mqLeft EXCEPT !.ctl = @ - 1]
  /\ UNCHANGED <<mqDrop, mqConn, mqWire, mqMux, mqReg, mqSub, mqUnsub, mqLife, mqResub, mqRaced, mqMixed>>

MqLoopStep(n) ==
  /\ mqTodo[n] # NoTodo /\ mqSub[n] = NoSub
  /\ \A t \in MqTopics : <<n, "loop", t>> \notin mqUnsub
  /\ LET todo == mqTodo[n] IN
     \/ \E t \in todo.drop :
          /\ MqUnsubscribe(n, t, "loop")
          /\ mqTodo' = [mqTodo EXCEPT ![n].drop = @ \ {t}]
          /\ UNCHANGED <<mqSub, mqMixed>>
     \/ /\ todo.drop = {}
        /\ \E t \in todo.add :
             /\ MqSubscribe(n, t, todo.opt, todo.qos)
             /\ mqTodo' = [mqTodo EXCEPT ![n].add = @ \ {t}]
             /\ UNCHANGED mqUnsub
     \/ /\ todo.drop = {} /\ todo.add = {}
        /\ mqTodo' = [mqTodo EXCEPT ![n] = NoTodo]
        /\ UNCHANGED <<mqMux, mqReg, mqSub, mqUnsub, mqRaced, mqMixed>>
  /\ UNCHANGED <<mqDrop, mqConn, mqWire, mqActive, mqLife, mqResub, mqLeft>>

\* MqttInNode.Stop, by the engine while the loop may be at work: the topics
\* are taken out of activeTopics, then unsubscribed in turn.
MqNodeStop(n) ==
  /\ mqLife[n] = "running"
  /\ mqLife' = [mqLife EXCEPT ![n] = "stopping"]
  /\ mqDrop' = [mqDrop EXCEPT ![n] = mqActive[n]]
  /\ mqActive' = [mqActive EXCEPT ![n] = {}]
  /\ UNCHANGED <<mqConn, mqWire, mqMux, mqReg, mqSub, mqUnsub, mqTodo, mqResub, mqRaced, mqMixed, mqLeft>>

MqStopStep(n) ==
  /\ mqLife[n] = "stopping"
  /\ \A t \in MqTopics : <<n, "stop", t>> \notin mqUnsub
  /\ \/ \E t \in mqDrop[n] :
          /\ MqUnsubscribe(n, t, "stop")
          /\ mqDrop' = [mqDrop EXCEPT ![n] = @ \ {t}]
          /\ UNCHANGED mqLife
     \/ /\ mqDrop[n] = {}
        /\ mqLife' = [mqLife EXCEPT ![n] = "stopped"]
        /\ UNCHANGED <<mqMux, mqReg, mqUnsub, mqRaced, mqDrop>>
  /\ UNCHANGED <<mqConn, mqWire, mqSub, mqTodo, mqActive, mqResub, mqMixed, mqLeft>>

MqNext ==
  \/ MqStart \/ MqConnect \/ MqSnapshot \/ MqResubscribe \/ MqConnectionDown \/ MqStop
  \/ \E n \in MqNodes : \/ MqNodeStart(n) \/ MqControl(n) \/ MqLoopStep(n) \/ MqNodeStop(n) \/ MqStopStep(n)
                        \/ MqSubAck(n) \/ MqSubFail(n)
  \/ \E u \in mqUnsub : MqUnsubDone(u)

-----------------------------------------------------------------------------
MqSpec == MqInit /\ [][MqNext]_mqVars

(***************************************************************************)
(* The two tables never disagree, whatever calls of nodes, failed packets  *)
(* and stops interleave: a node is a handler of exactly the entries it is  *)
(* registered with, and an entry exists exactly while it has a handler, so *)
(* no publish goes to a node that has unsubscribed and none is dropped for *)
(* a node that has not.                                                    *)
(***************************************************************************)
MqTablesAgree ==
  /\ \A k \in MqKeys, n \in MqNodes : n \in mqMux[k].handlers <=> mqReg[n][k[1]] = k[2]
  /\ \A k \in MqKeys : mqMux[k].handlers = {} <=> mqMux[k].qos = -1

(***************************************************************************)
(* onConnectionUp: a reconnect with no other packet on its way restores    *)
(* every subscription, and from then on, as long as no two packets are on  *)
(* their way at once and no SUBSCRIBE fails, every entry is subscribed at  *)
(* the server with at least its QoS, but for those of a topic that had two *)
(* option sets at once (MqEachOptionSet).                                  *)
(***************************************************************************)
MqServed ==
  (mqConn = "up" /\ ~MqBusy /\ ~mqRaced) =>
    \A k \in MqKeys : mqMux[k].qos >= 0 /\ k[1] \notin mqMixed => mqWire[k[1]] >= mqMux[k].qos

(***************************************************************************)
(* Subscribe (its comment): "if any option differs, a separate SUBSCRIBE   *)
(* packet is sent so the broker honours each option set".  Refuted, by     *)
(* calls that come one after the other: the server replaces the            *)
(* subscription of the topic, and the UNSUBSCRIBE for one option set ends  *)
(* the other's.                                                            *)
(***************************************************************************)
MqEachOptionSet ==
  (mqConn = "up" /\ ~MqBusy /\ ~mqRaced) =>
    \A k \in MqKeys : mqMux[k].qos >= 0 => mqWire[k[1]] >= mqMux[k].qos

(***************************************************************************)
(* Subscribe (its comment): "all sharing subscribers get at least their    *)
(* requested level": once nothing is on its way and nothing failed, every  *)
(* entry of a topic with one option set is subscribed.  Refuted: the       *)
(* UNSUBSCRIBE of a node passes the SUBSCRIBE of another.                  *)
(***************************************************************************)
MqAllServed ==
  (mqConn = "up" /\ ~MqBusy /\ mqLeft.fails = MqFails) =>
    \A k \in MqKeys : mqMux[k].qos >= 0 /\ k[1] \notin mqMixed => mqWire[k[1]] >= 0

(***************************************************************************)
(* The shared MQTT connection: its tables agree, and what they hold is     *)
(* subscribed at the server, as far as MqServed says.                      *)
(***************************************************************************)
MqSound == MqTablesAgree /\ MqServed
=============================================================================
