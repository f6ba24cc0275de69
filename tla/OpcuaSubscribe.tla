--------------------------- MODULE OpcuaSubscribe ---------------------------
(***************************************************************************)
(* An OPC UA connection (internal/nodes/opcua/server.go) and an            *)
(* opcua-subscribe node on it (subscribe.go).  The client library          *)
(* (external) connects and reconnects by itself and reports its state on a *)
(* channel; watchState turns the reports into statuses and, on Connected,  *)
(* starts the reconnect callbacks, each in a goroutine of its own.  The    *)
(* node's rebuild, its control messages and its Stop run in different      *)
(* goroutines and hold n.mu only between their calls to the server.  As    *)
(* the comments of the code say of the library, a session that is lost     *)
(* takes its subscriptions along, and notify channels are never closed.    *)
(***************************************************************************)
EXTENDS Naturals, Sequences, FiniteSets

CONSTANTS UaNodeIds,   \* NodeIDs of variables
          UaConfigItems, \* monitoredItems of a static configuration
          UaModes,     \* "static", "dynamic"
          UaBudgets    \* bounds, of which a behaviour has one: [controls, faults, notes],
                       \* control messages, sessions lost and requests refused,
                       \* notifications

VARIABLES uaMode,     \* mode of the node
          uaClient,   \* "none", "open" (client # nil), "closed"
          uaSession,  \* whether the library has a session
          uaStateC,   \* states reported and not yet read by watchState
          uaFill,     \* currentFill of the server
          uaHooked,   \* whether the reconnect callback is registered
          uaCallers,  \* goroutines about to call rebuildSubscription
          uaNode,     \* "new", "registered", "opened" (stopCh made), "run", "stopped"
          uaSub,      \* n.subscription, 0 for nil
          uaItems,    \* the handles in n.items
          uaHeap,     \* every itemState made, by handle: its NodeID and monitorID
          uaOp,       \* what the rebuild, the control message and Stop are doing
          uaServer,   \* the server's subscriptions: sub -> its monitored items
          uaIds,      \* subscription ids and monitored item ids handed out
          uaReaders,  \* subscriptions whose consumeNotifications runs
          uaNote,     \* the notification in flight
          uaWrong,    \* messages sent under a NodeID that is not that of their value
          uaLost,     \* an update fell between two goroutines, or was refused
          uaLeft      \* what the bounds have left

uaVars == <<uaMode, uaClient, uaSession, uaStateC, uaFill, uaHooked, uaCallers, uaNode,
            uaSub, uaItems, uaHeap, uaOp, uaServer, uaIds, uaReaders, uaNote, uaWrong,
            uaLost, uaLeft>>

uaNodeVars == <<uaSub, uaItems, uaHeap>>
uaLinkVars == <<uaMode, uaClient, uaSession, uaStateC, uaFill, uaHooked, uaCallers>>
uaNoteVars == <<uaReaders, uaNote, uaWrong>>

\* The configured items name variables; the bounds are numbers.
ASSUME UaAssumption ==
  /\ UaConfigItems \in Seq(UaNodeIds)
  /\ UaBudgets \subseteq [controls : Nat, faults : Nat, notes : Nat]

UaIdle == [step |-> "idle", sub |-> 0, old |-> {}, states |-> {}, stop |-> FALSE]
UaOps == {"rebuild", "control", "stop"}
UaNoNote == [sub |-> 0, handle |-> 0, of |-> "none"]

UaSubs == DOMAIN uaServer
UaHandles == DOMAIN uaHeap

UaTypeOK ==
  /\ uaMode \in UaModes
  /\ uaClient \in {"none", "open", "closed"} /\ uaSession \in BOOLEAN
  /\ uaStateC \in Seq({"Connected", "Reconnecting"})
  /\ uaFill \in {"grey", "yellow", "green", "red"}
  /\ uaHooked \in BOOLEAN /\ uaCallers \in Nat
  /\ uaNode \in {"new", "registered", "opened", "run", "stopped"}
  /\ uaSub \in Nat /\ uaItems \subseteq UaHandles
  /\ \A h \in UaHandles : uaHeap[h].node \in UaNodeIds /\ uaHeap[h].mon \in 0 .. uaIds
  /\ \A a \in UaOps : uaOp[a].states \subseteq UaHandles /\ uaOp[a].stop \in BOOLEAN
  /\ \A s \in UaSubs : \A m \in uaServer[s] : m.id \in 1 .. uaIds /\ m.handle \in UaHandles
  /\ uaReaders \subseteq 1 .. uaIds

UaInit ==
  /\ uaMode \in UaModes
  /\ uaClient = "none" /\ uaSession = FALSE /\ uaStateC = <<>> /\ uaFill = "grey"
  /\ uaHooked = FALSE /\ uaCallers = 0 /\ uaNode = "new"
  /\ uaSub = 0 /\ uaItems = {} /\ uaHeap = <<>>
  /\ uaOp = [a \in UaOps |-> UaIdle]
  /\ uaServer = <<>> /\ uaIds = 0 /\ uaReaders = {} /\ uaNote = UaNoNote
  /\ uaWrong = {}
  /\ uaLost = FALSE
  /\ uaLeft \in UaBudgets

UaAt(a, step) == uaOp[a].step = step
UaGoto(a, step) == uaOp' = [uaOp EXCEPT ![a].step = step]
UaDone(a) == uaOp' = [uaOp EXCEPT ![a] = UaIdle]

-----------------------------------------------------------------------------
(* The connection.                                                          *)

\* OpcuaServer.Start, which makes the client and leaves connecting to it; the
\* certificate options or NewClient may fail.
UaServerStart ==
  /\ uaClient = "none"
  /\ \/ uaClient' = "open" /\ uaFill' = "yellow" /\ UNCHANGED uaLeft
     \/ /\ uaLeft.faults > 0 /\ uaClient' = "closed" /\ uaFill' = "red"
        /\ uaLeft' = [uaLeft EXCEPT !.faults = @ - 1]
  /\ UNCHANGED <<uaMode, uaSession, uaStateC, uaHooked, uaCallers, uaNode, uaNodeVars, uaOp,
                 uaServer, uaIds, uaNoteVars, uaLost>>

\* connect, and later the library's own reconnects.
UaConnect ==
  /\ uaClient = "open" /\ ~uaSession
  /\ uaSession' = TRUE /\ uaStateC' = Append(uaStateC, "Connected")
  /\ UNCHANGED <<uaMode, uaClient, uaFill, uaHooked, uaCallers, uaNode, uaNodeVars, uaOp,
                 uaServer, uaIds, uaNoteVars, uaLost, uaLeft>>

\* The session is lost (external).
UaDrop ==
  /\ uaSession /\ uaLeft.faults > 0
  /\ uaSession' = FALSE /\ uaStateC' = Append(uaStateC, "Reconnecting") /\ uaServer' = <<>>
  /\ uaLeft' = [uaLeft EXCEPT !.faults = @ - 1]
  /\ UNCHANGED <<uaMode, uaClient, uaFill, uaHooked, uaCallers, uaNode, uaNodeVars, uaOp,
                 uaIds, uaNoteVars, uaLost>>

mapConnState(state) == IF state = "Connected" THEN "green" ELSE "yellow"

\* Mutant: the callbacks run on the first Connected only.
UaWatchStateOnce ==
  /\ uaClient = "open" /\ uaStateC # <<>>
  /\ uaStateC' = Tail(uaStateC) /\ uaFill' = mapConnState(Head(uaStateC))
  /\ uaCallers' = IF Head(uaStateC) = "Connected" /\ uaHooked /\ uaIds = 0
                  THEN uaCallers + 1 ELSE uaCallers
  /\ UNCHANGED <<uaMode, uaClient, uaSession, uaHooked, uaNode, uaNodeVars, uaOp, uaServer,
                 uaIds, uaNoteVars, uaLost, uaLeft>>

\* watchState: a status, and on every Connected each callback in a goroutine.
UaWatchState ==
  /\ uaClient = "open" /\ uaStateC # <<>>
  /\ uaStateC' = Tail(uaStateC) /\ uaFill' = mapConnState(Head(uaStateC))
  /\ uaCallers' = IF Head(uaStateC) = "Connected" /\ uaHooked THEN uaCallers + 1 ELSE uaCallers
  /\ UNCHANGED <<uaMode, uaClient, uaSession, uaHooked, uaNode, uaNodeVars, uaOp, uaServer,
                 uaIds, uaNoteVars, uaLost, uaLeft>>

\* OpcuaServer.Stop, before or after the nodes: Client() is nil from here on,
\* Close ends the session with its subscriptions, and the context ends
\* watchState.
UaServerStop ==
  /\ uaClient = "open"
  /\ uaClient' = "closed" /\ uaSession' = FALSE /\ uaFill' = "grey"
  /\ uaStateC' = <<>> /\ uaServer' = <<>>
  /\ UNCHANGED <<uaMode, uaHooked, uaCallers, uaNode, uaNodeVars, uaOp, uaIds, uaNoteVars,
                 uaLost, uaLeft>>

-----------------------------------------------------------------------------
(* Start, rebuildSubscription and Stop of the node.                         *)

\* Start registers the callback: from here on a Connected calls the node ...
UaRegister ==
  /\ uaNode = "new" /\ uaClient = "open"
  /\ uaNode' = "registered" /\ uaHooked' = TRUE
  /\ UNCHANGED <<uaMode, uaClient, uaSession, uaStateC, uaFill, uaCallers, uaNodeVars, uaOp,
                 uaServer, uaIds, uaNoteVars, uaLost, uaLeft>>

\* ... makes stopCh: a rebuild that begins from here on goes all the way ...
UaOpen ==
  /\ uaNode = "registered" /\ uaNode' = "opened"
  /\ UNCHANGED <<uaLinkVars, uaNodeVars, uaOp, uaServer, uaIds, uaNoteVars, uaLost, uaLeft>>

\* allocHandleLocked, once for each new item.
UaAlloc(specs) ==
  LET n == Len(uaHeap)
  IN  [h \in 1 .. n + Len(specs) |->
         IF h <= n THEN uaHeap[h] ELSE [node |-> specs[h - n], mon |-> 0]]

\* ... seeds the items of the configuration, and calls for the first rebuild if
\* the server is connected already.
UaStart ==
  /\ uaNode = "opened" /\ uaNode' = "run"
  /\ uaHeap' = IF uaMode = "static" THEN UaAlloc(UaConfigItems) ELSE uaHeap
  /\ uaItems' = DOMAIN uaHeap'
  /\ uaCallers' = IF uaFill = "green" THEN uaCallers + 1 ELSE uaCallers
  /\ UNCHANGED <<uaMode, uaClient, uaSession, uaStateC, uaFill, uaHooked, uaSub, uaOp,
                 uaServer, uaIds, uaNoteVars, uaLost, uaLeft>>

\* Mutant: the old subscription is forgotten and not cancelled, and a second
\* caller does not drop out.
UaRebuildTwice ==
  /\ uaCallers > 0 /\ uaCallers' = uaCallers - 1
  /\ IF uaClient # "open" THEN UNCHANGED <<uaSub, uaHeap, uaOp, uaLost>>
     ELSE /\ uaSub' = 0 /\ uaLost' = uaLost
          /\ uaHeap' = [h \in UaHandles |-> IF h \in uaItems THEN [uaHeap[h] EXCEPT !.mon = 0]
                                            ELSE uaHeap[h]]
          /\ uaOp' = [uaOp EXCEPT !["rebuild"] =
               [step |-> "cancel", sub |-> 0, old |-> {}, states |-> uaItems,
                stop |-> uaNode \in {"opened", "run"}]]
  /\ UNCHANGED <<uaMode, uaClient, uaSession, uaStateC, uaFill, uaHooked, uaNode, uaItems,
                 uaServer, uaIds, uaNoteVars, uaLeft>>

\* The rebuild under way is as good as a new one: it found stopCh and the items
\* the node has now, and it has not subscribed yet, or the server still has its
\* subscription.
UaCurrent ==
  /\ uaOp["rebuild"].stop /\ uaOp["rebuild"].states = uaItems
  /\ uaOp["rebuild"].step \in {"cancel", "subscribe"} \/ uaOp["rebuild"].sub \in UaSubs

\* rebuildSubscription up to the first call: a second caller drops out, and its
\* rebuild is lost if the one under way is not UaCurrent; without a client
\* there is nothing to do; the specs are those of now.
UaRebuild ==
  /\ uaCallers > 0 /\ uaCallers' = uaCallers - 1
  /\ IF ~UaAt("rebuild", "idle") THEN uaLost' = (uaLost \/ ~UaCurrent) /\ UNCHANGED <<uaSub, uaHeap, uaOp>>
     ELSE IF uaClient # "open" THEN UNCHANGED <<uaSub, uaHeap, uaOp, uaLost>>
     ELSE /\ uaSub' = 0
          /\ uaLost' = (uaLost \/ ~UaAt("control", "idle"))
          /\ uaHeap' = [h \in UaHandles |-> IF h \in uaItems THEN [uaHeap[h] EXCEPT !.mon = 0]
                                            ELSE uaHeap[h]]
          /\ uaOp' = [uaOp EXCEPT !["rebuild"] =
               [step |-> "cancel", sub |-> uaSub, old |-> {}, states |-> uaItems,
                stop |-> uaNode \in {"opened", "run"}]]
  /\ UNCHANGED <<uaMode, uaClient, uaSession, uaStateC, uaFill, uaHooked, uaNode, uaItems,
                 uaServer, uaIds, uaNoteVars, uaLeft>>

\* A request about a subscription the server still has is answered, or fails;
\* the errors of Cancel and Unmonitor are ignored.
UaServed(a, server) ==
  \/ uaServer' = server /\ UNCHANGED <<uaLost, uaLeft>>
  \/ /\ uaOp[a].sub \in UaSubs /\ uaLeft.faults > 0
     /\ uaLeft' = [uaLeft EXCEPT !.faults = @ - 1] /\ uaLost' = TRUE
     /\ UNCHANGED uaServer

\* Cancel of a subscription the server may have lost already.
UaForget(s) == [t \in UaSubs \ {s} |-> uaServer[t]]

\* oldSub.Cancel, and the return of a rebuild that began when stopCh was nil.
UaCancelOld ==
  /\ UaAt("rebuild", "cancel")
  /\ UaServed("rebuild", UaForget(uaOp["rebuild"].sub))
  /\ IF uaOp["rebuild"].stop THEN UaGoto("rebuild", "subscribe") ELSE UaDone("rebuild")
  /\ UNCHANGED <<uaLinkVars, uaNode, uaNodeVars, uaIds, uaNoteVars>>

\* client.Subscribe, which fails without a session or when the server refuses.
UaSubscribe ==
  /\ UaAt("rebuild", "subscribe")
  /\ \/ /\ uaSession /\ uaIds' = uaIds + 1
        /\ uaServer' = [s \in UaSubs \cup {uaIds'} |-> IF s \in UaSubs THEN uaServer[s] ELSE {}]
        /\ uaOp' = [uaOp EXCEPT !["rebuild"].step = "store", !["rebuild"].sub = uaIds']
        /\ UNCHANGED <<uaLost, uaLeft>>
     \/ /\ ~uaSession \/ uaLeft.faults > 0
        /\ uaLeft' = IF uaSession THEN [uaLeft EXCEPT !.faults = @ - 1] ELSE uaLeft
        /\ uaLost' = (uaLost \/ uaSession)
        /\ UaDone("rebuild") /\ UNCHANGED <<uaServer, uaIds>>
  /\ UNCHANGED <<uaLinkVars, uaNode, uaNodeVars, uaNoteVars>>

\* n.subscription = sub under the mutex, whatever happened meanwhile; then the
\* consumer, and createItemsOn with the specs taken at the beginning.
UaStore ==
  /\ UaAt("rebuild", "store")
  /\ uaSub' = uaOp["rebuild"].sub
  /\ uaReaders' = uaReaders \cup {uaSub'}
  /\ uaLost' = (uaLost \/ uaNode = "stopped")
  /\ UaGoto("rebuild", "monitor")
  /\ UNCHANGED <<uaLinkVars, uaNode, uaItems, uaHeap, uaServer, uaIds, uaNote, uaWrong, uaLeft>>

\* createItemsOn, the request: the server makes the items, or refuses them, or
\* has no such subscription any more.
UaMonitor(a) ==
  /\ UaAt(a, "monitor")
  /\ IF uaOp[a].sub \in UaSubs
     THEN LET st == uaOp[a].states
              new == {[id |-> uaIds + Cardinality({g \in st : g <= h}), handle |-> h] : h \in st}
          IN  \/ /\ uaServer' = [uaServer EXCEPT ![uaOp[a].sub] = @ \cup new]
                 /\ uaIds' = uaIds + Cardinality(st)
                 /\ uaOp' = [uaOp EXCEPT ![a].step = "stitch", ![a].old = new]
                 /\ UNCHANGED <<uaLost, uaLeft>>
              \/ /\ uaLeft.faults > 0 /\ st # {}
                 /\ uaLeft' = [uaLeft EXCEPT !.faults = @ - 1] /\ uaLost' = TRUE
                 /\ UaDone(a) /\ UNCHANGED <<uaServer, uaIds>>
     ELSE UaDone(a) /\ UNCHANGED <<uaServer, uaIds, uaLost, uaLeft>>
  /\ UNCHANGED <<uaLinkVars, uaNode, uaNodeVars, uaNoteVars>>

\* createItemsOn, the answer: the ids are written to the itemStates, which may
\* have left n.items since.
UaStitch(a) ==
  /\ UaAt(a, "stitch")
  /\ uaHeap' = [h \in UaHandles |->
       IF \E m \in uaOp[a].old : m.handle = h
       THEN [uaHeap[h] EXCEPT !.mon = (CHOOSE m \in uaOp[a].old : m.handle = h).id]
       ELSE uaHeap[h]]
  /\ UaDone(a)
  /\ UNCHANGED <<uaLinkVars, uaNode, uaSub, uaItems, uaServer, uaIds, uaNoteVars, uaLost, uaLeft>>

\* Stop takes the subscription and closes stopCh under the mutex ...
UaStop ==
  /\ uaNode = "run" /\ uaNode' = "stopped"
  /\ uaSub' = 0
  /\ uaOp' = [uaOp EXCEPT !["stop"].step = "cancel", !["stop"].sub = uaSub]
  /\ UNCHANGED <<uaLinkVars, uaItems, uaHeap, uaServer, uaIds, uaNoteVars, uaLost, uaLeft>>

\* ... and cancels it at the server; it then waits two seconds for a channel
\* that nobody closes.
UaStopCancel ==
  /\ UaAt("stop", "cancel") /\ UaDone("stop")
  /\ UaServed("stop", UaForget(uaOp["stop"].sub))
  /\ UNCHANGED <<uaLinkVars, uaNode, uaNodeVars, uaIds, uaNoteVars>>

-----------------------------------------------------------------------------
(* Control messages of a dynamic node, on its message loop.                 *)

UaMonIds(hs) == {uaHeap[h].mon : h \in hs} \ {0}

\* Mutant: the handles of the items that go are used again.
UaReplaceReusesHandles(specs) ==
  /\ uaHeap' = [h \in 1 .. IF Len(specs) > Len(uaHeap) THEN Len(specs) ELSE Len(uaHeap) |->
                  IF h <= Len(specs) THEN [node |-> specs[h], mon |-> 0] ELSE uaHeap[h]]
  /\ uaItems' = 1 .. Len(specs)
  /\ uaOp' = [uaOp EXCEPT !["control"] = [step |-> IF uaSub = 0 THEN "idle" ELSE "unmonitor",
       sub |-> uaSub, old |-> UaMonIds(uaItems), states |-> uaItems', stop |-> FALSE]]

\* replaceItems under the mutex: every item goes, the new ones get handles.
replaceItems(specs) ==
  /\ uaHeap' = UaAlloc(specs)
  /\ uaItems' = Len(uaHeap) + 1 .. Len(uaHeap) + Len(specs)
  /\ uaOp' = [uaOp EXCEPT !["control"] = IF uaSub = 0 THEN UaIdle ELSE
       [step |-> "unmonitor", sub |-> uaSub, old |-> UaMonIds(uaItems),
        states |-> uaItems', stop |-> FALSE]]

\* removeItems under the mutex.
removeItems(ids) ==
  LET gone == {h \in uaItems : uaHeap[h].node \in ids}
  IN  /\ uaItems' = uaItems \ gone
      /\ uaOp' = [uaOp EXCEPT !["control"] = IF uaSub = 0 THEN UaIdle ELSE
           [step |-> "unmonitor", sub |-> uaSub, old |-> UaMonIds(gone),
            states |-> {}, stop |-> FALSE]]
      /\ UNCHANGED uaHeap

\* HandleMessage: "subscribe", "clear" and "unsubscribe".
UaHandleMessage ==
  /\ uaMode = "dynamic" /\ uaNode = "run" /\ UaAt("control", "idle") /\ uaLeft.controls > 0
  /\ uaLeft' = [uaLeft EXCEPT !.controls = @ - 1]
  /\ \/ \E v \in UaNodeIds : replaceItems(<<v>>)
     \/ replaceItems(<<>>)
     \/ \E v \in UaNodeIds : removeItems({v})
  /\ uaLost' = (uaLost \/ ~UaAt("rebuild", "idle"))
  /\ UNCHANGED <<uaLinkVars, uaNode, uaSub, uaServer, uaIds, uaNoteVars>>

\* Mutant: the items that go are left to the server.
UaUnmonitorSkipped ==
  /\ UaAt("control", "unmonitor")
  /\ IF uaOp["control"].states = {} THEN UaDone("control")
     ELSE uaOp' = [uaOp EXCEPT !["control"].step = "monitor"]
  /\ UNCHANGED <<uaLinkVars, uaNode, uaNodeVars, uaServer, uaIds, uaNoteVars, uaLost, uaLeft>>

\* Unmonitor, then createItemsOn for what is new.
UaUnmonitor ==
  /\ UaAt("control", "unmonitor")
  /\ UaServed("control", [s \in UaSubs |->
       IF s = uaOp["control"].sub
       THEN {m \in uaServer[s] : m.id \notin uaOp["control"].old} ELSE uaServer[s]])
  /\ IF uaOp["control"].states = {} THEN UaDone("control")
     ELSE uaOp' = [uaOp EXCEPT !["control"].step = "monitor"]
  /\ UNCHANGED <<uaLinkVars, uaNode, uaNodeVars, uaIds, uaNoteVars>>

-----------------------------------------------------------------------------
(* Notifications.                                                           *)

\* The server reports a change of the variable behind a monitored item
\* (external): one notification in flight.
UaPublish ==
  /\ uaNote = UaNoNote /\ uaLeft.notes > 0 /\ uaLeft' = [uaLeft EXCEPT !.notes = @ - 1]
  /\ \E s \in UaSubs : \E m \in uaServer[s] :
       uaNote' = [sub |-> s, handle |-> m.handle, of |-> uaHeap[m.handle].node]
  /\ UNCHANGED <<uaLinkVars, uaNode, uaNodeVars, uaOp, uaServer, uaIds, uaReaders, uaWrong,
                 uaLost>>

\* consumeNotifications takes it and dispatchDataChange looks the handle up.
UaConsume ==
  /\ uaNote.sub \in uaReaders /\ uaNote' = UaNoNote
  /\ uaWrong' = uaWrong \cup {<<uaHeap[h].node, uaNote.of>> : h \in
       {i \in uaItems : i = uaNote.handle /\ uaHeap[i].node # uaNote.of}}
  /\ UNCHANGED <<uaLinkVars, uaNode, uaNodeVars, uaOp, uaServer, uaIds, uaReaders, uaLost, uaLeft>>

\* consumeNotifications returns when stopCh is closed, and only then.
UaConsumerReturns ==
  /\ uaNode = "stopped" /\ \E s \in uaReaders : uaReaders' = uaReaders \ {s}
  /\ UNCHANGED <<uaLinkVars, uaNode, uaNodeVars, uaOp, uaServer, uaIds, uaNote, uaWrong, uaLost, uaLeft>>

-----------------------------------------------------------------------------
UaProgress ==
  \/ UaWatchState \/ UaRebuild \/ UaCancelOld \/ UaSubscribe \/ UaStore \/ UaStopCancel
  \/ UaUnmonitor \/ \E a \in {"rebuild", "control"} : UaMonitor(a) \/ UaStitch(a)

UaNext ==
  \/ UaServerStart \/ UaConnect \/ UaDrop \/ UaServerStop \/ UaRegister \/ UaOpen \/ UaStart
  \/ UaStop \/ UaHandleMessage \/ UaPublish \/ UaConsume \/ UaConsumerReturns
  \/ UaProgress

\* Goroutines run, and every request is answered or times out.
UaSpec == UaInit /\ [][UaNext]_uaVars /\ WF_uaVars(UaProgress)

UaQuiet ==
  /\ uaStateC = <<>> /\ uaCallers = 0
  /\ \A a \in UaOps : UaAt(a, "idle")

(***************************************************************************)
(* When nothing is under way on a live session, the server monitors        *)
(* exactly the items the node holds, each under the id the node would      *)
(* remove it with, in the one subscription the node knows; and a stopped   *)
(* node left no subscription behind.  It holds however sessions were lost, *)
(* rebuilds were coalesced and control messages came, unless (uaLost)      *)
(*   - a caller of rebuildSubscription dropped out because of a rebuild    *)
(*     that was not UaCurrent,                                             *)
(*   - a rebuild and a control message overlapped,                         *)
(*   - Stop came between a rebuild's Subscribe and its store, or before    *)
(*     that Subscribe: the subscription is stored and left at the server,  *)
(*   - a request failed on a live session.                                 *)
(***************************************************************************)
UaItemsMonitored ==
  (UaQuiet /\ ~uaLost /\ uaSession) =>
    /\ uaNode = "run" => /\ UaSubs = {uaSub}
                         /\ uaServer[uaSub] = {[id |-> uaHeap[h].mon, handle |-> h] : h \in uaItems}
    /\ uaNode = "stopped" => UaSubs = {}

(***************************************************************************)
(* Refuted: "coalescing concurrent calls is safe" (subscribe.go:457-460):  *)
(* a running static node has a subscription on a live session.  A callback *)
(* that began before Start made stopCh, or before it seeded the items,     *)
(* holds rebuildMu; the caller of Start drops out, and the first returns   *)
(* without a subscription, or with one that has no items.                  *)
(***************************************************************************)
UaCoalescingSafe ==
  (UaQuiet /\ uaSession /\ uaNode = "run" /\ uaMode = "static") => \E s \in UaSubs : uaServer[s] # {}

(***************************************************************************)
(* Refuted: a stopped node leaves no subscription at the server.           *)
(***************************************************************************)
UaStopLeavesNone == (UaQuiet /\ uaSession /\ uaNode = "stopped") => UaSubs = {}

(***************************************************************************)
(* A value goes out under the NodeID of the variable it is of, however     *)
(* late its notification is handled: handles are not used again.           *)
(***************************************************************************)
UaRightItem == uaWrong = {}

(***************************************************************************)
(* One consumer reads the notifications of the node ("earlier consumers    *)
(* exit naturally when their notifyCh is closed by the cancelled           *)
(* subscription path below", subscribe.go).                                *)
(***************************************************************************)
UaOneConsumer == (UaQuiet /\ uaNode = "run") => Cardinality(uaReaders) <= 1

\* Something the node or the connection began is under way and must end.
UaPending == ~UaQuiet

(***************************************************************************)
(* The opcua-subscribe node: what it holds is monitored, and what it sends *)
(* is named for what it is.                                                *)
(***************************************************************************)
UaSound == UaItemsMonitored /\ UaRightItem
=============================================================================
