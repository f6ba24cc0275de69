----------------------------- MODULE FlowEngine -----------------------------
(***************************************************************************)
(* The flow engine: internal/flow/engine.go.  The engine instantiates the  *)
(* nodes of a workspace, runs each in a goroutine of its own (nodeLoop),   *)
(* wires them together with buffered channels, and replaces some or all of *)
(* them on every deploy.                                                   *)
(*                                                                         *)
(* A *runningNode is a pointer <<id, g>>: the g-th of the objects that a   *)
(* small heap keeps for node id.  An object nothing refers to any more may *)
(* be allocated again.  The fields of an object are the functions over Ptr *)
(* below.  Engine.mu is held from the first to the last step of Start,     *)
(* Stop and Deploy: pc # "idle" says that it is taken.  nodeLoop, the      *)
(* goroutines of source nodes and HTTP handlers never take it, so they     *)
(* interleave with every step of a deploy.                                 *)
(***************************************************************************)
EXTENDS Workspace

CONSTANTS Gen,         \* how many *runningNode objects a node ID has: 1..n
          MaxLoops,    \* bound on the nodeLoop goroutines of one object
          Cap,         \* capacity of inputCh (64 in the code)
          Modes,       \* the deploy modes in use
          Workspaces,  \* the workspaces that are deployed
          NoWs,        \* e.flows = nil
          Sources,     \* nodes with a goroutine of their own that Stop joins
          HttpIn,      \* http-in nodes: their handlers are not joined
          Timers,      \* nodes with timer goroutines that Stop does not join
          Flaky        \* nodes and config nodes whose creation or Start may fail

ASSUME EngineAssumption ==
    /\ Gen \subseteq Nat
    /\ MaxLoops \in Nat \ {0}
    /\ Cap \in Nat \ {0}
    /\ Modes \subseteq {"full", "flows", "nodes"}
    /\ \A w \in Workspaces : IsWorkspace(w)
    /\ NoWs \notin Workspaces
    /\ FlowID # {}
    /\ NoConfig \notin ConfigID
    /\ Sources \subseteq NodeID
    /\ HttpIn \subseteq NodeID
    /\ Timers \subseteq NodeID
    /\ Sources \cap HttpIn = {}
    /\ Timers \cap (Sources \cup HttpIn) = {}

VARIABLES
    running,  \* Engine.running
    cur,      \* Engine.flows and Engine.configs, as one workspace
    nodes,    \* Engine.nodes: the pointers in the map
    cfgs,     \* Engine.configInstances: the IDs with a running instance
    mux,      \* the http-in nodes the live route table leads to
    pc,       \* where the operation that holds Engine.mu stands
    mode,     \* what that operation is: a deploy mode or "stop"
    ws,       \* the workspace being deployed
    batch,    \* the objects being stopped (rns in stopAndRemoveNodes)
    todo,     \* the objects the current loop has not treated yet
    flows,    \* affectedFlows
    flowsLeft,\* the affected flows whose nodes are not stopped yet
    def,      \* runningNode.config and flowID: the Node it was made from
    lw,       \* runningNode.localWires
    lt,       \* runningNode.localTargets, also captured by the SendFunc
    len,      \* number of messages in runningNode.inputCh
    closed,   \* inputCh is closed
    stop,     \* stopCh is closed
    done,     \* done is closed
    held,     \* the config instance the node resolved when it started
    go,       \* the goroutines of the object
    panics    \* the run-time panics that occurred

jobVars == <<pc, mode, ws, batch, todo, flows, flowsLeft>>
objVars == <<def, lw, lt, len, closed, stop, done, held>>
vars == <<running, cur, nodes, cfgs, mux, jobVars, objVars, go, panics>>

Ptr  == NodeID \X Gen
Slot == 0..MaxLoops   \* 0: source, handler or timer goroutine; others: nodeLoops
Loop == 1..MaxLoops

(* A goroutine: the wired node IDs it has still to look up, and the objects *)
(* it has looked up and is about to send to.                                *)
Goroutine == [on : BOOLEAN, left : SUBSET NodeID, pend : SUBSET Ptr]
Off == [on |-> FALSE, left |-> {}, pend |-> {}]
Idle == [on |-> TRUE, left |-> {}, pend |-> {}]

Sending(ps) == [on |-> TRUE, left |-> {}, pend |-> ps]
Routing(ns) == [on |-> TRUE, left |-> ns, pend |-> {}]

NoNode == [flow |-> CHOOSE f \in FlowID : TRUE, disabled |-> FALSE,
           ver |-> 0, ref |-> NoConfig, wires |-> {}]

(* Goroutine k of object p becomes x.                                       *)
become(p, k, x) == go' = [go EXCEPT ![p][k] = x]

(* A panic outside an HTTP handler ends the process; the server's Recoverer *)
(* middleware catches one inside a handler.                                 *)
Fatal == panics \ {"handler send"}
-----------------------------------------------------------------------------
Init ==
    /\ running = FALSE
    /\ cur = NoWs
    /\ nodes = {}
    /\ cfgs = {}
    /\ mux = {}
    /\ pc = "idle"
    /\ mode = "stop"
    /\ ws = NoWs
    /\ batch = {}
    /\ todo = {}
    /\ flows = {}
    /\ flowsLeft = {}
    /\ def = [p \in Ptr |-> NoNode]
    /\ lw = [p \in Ptr |-> {}]
    /\ lt = [p \in Ptr |-> {}]
    /\ len = [p \in Ptr |-> 0]
    /\ closed = [p \in Ptr |-> FALSE]
    /\ stop = [p \in Ptr |-> FALSE]
    /\ done = [p \in Ptr |-> FALSE]
    /\ held = [p \in Ptr |-> "none"]
    /\ go = [p \in Ptr |-> [k \in Slot |-> Off]]
    /\ panics = {}

(* Engine.Start: starts no node, only admits deploys.                       *)
Start ==
    /\ pc = "idle"
    /\ ~running
    /\ running' = TRUE
    /\ UNCHANGED <<cur, nodes, cfgs, mux, jobVars, objVars, go, panics>>
-----------------------------------------------------------------------------
(* The entry of Stop and of the three deploy modes, up to the first step    *)
(* that other goroutines can observe.                                       *)

(* stopAllNodes returns at once when there are no nodes; otherwise it stops *)
(* them all.  Where it returns to depends on its caller.                    *)
BeginStopAll(next) ==
    /\ batch' = nodes
    /\ todo' = nodes
    /\ pc' = IF nodes = {} THEN next ELSE "halt"

Stop ==
    /\ pc = "idle"
    /\ running
    /\ mode' = "stop"
    /\ BeginStopAll("down")
    /\ UNCHANGED <<running, cur, nodes, cfgs, mux, ws, flows, flowsLeft,
                   objVars, go, panics>>

deployFull(w) ==
    /\ mode' = "full"
    /\ ws' = w
    /\ BeginStopAll("configs")
    /\ UNCHANGED <<cur, flows, flowsLeft>>

(* nodeID -> flowID of the running nodes.                                   *)
RunningFlow == [n \in {p[1] : p \in nodes} |->
                   def[CHOOSE p \in nodes : p[1] = n].flow]

(* deployModifiedFlows and deployModifiedNodes: fall back to a full deploy  *)
(* when nothing is deployed, and only record the workspace when nothing     *)
(* changed.                                                                 *)
deployModified(w, m) ==
    LET diff == DiffWorkspaces(cur, w)
    IN  /\ ~IsEmpty(diff)
        /\ mode' = m
        /\ ws' = w
        /\ pc' = "configs"
        /\ flows' = IF m = "flows" THEN AffectedFlows(diff, w, RunningFlow) ELSE {}
        /\ flowsLeft' = flows'
        /\ UNCHANGED <<cur, batch, todo>>

nothingToDeploy(w) ==
    /\ IsEmpty(DiffWorkspaces(cur, w))
    /\ cur' = w
    /\ UNCHANGED jobVars

(* The last conjunct bounds the model: startAllNodeLoops starts one more    *)
(* loop for every node that stays, and an object has MaxLoops of them.      *)
Deploy(w, m) ==
    /\ pc = "idle"
    /\ running
    /\ \/ /\ m = "full" \/ cur = NoWs
          /\ deployFull(w)
       \/ /\ m # "full" /\ cur # NoWs
          /\ \/ deployModified(w, m)
             \/ nothingToDeploy(w)
    /\ m = "flows" => \A p \in nodes : \E k \in Loop : ~go[p][k].on
    /\ UNCHANGED <<running, nodes, cfgs, mux, objVars, go, panics>>
-----------------------------------------------------------------------------
(* Config instances.                                                        *)

(* Stopping the instances of ids pulls them from the nodes that hold them.  *)
Pull(ids) ==
    held' = [p \in Ptr |-> IF held[p] = "live" /\ def[p].ref \in ids
                           THEN "stopped" ELSE held[p]]

(* startConfigNode, for each of ids: one that fails is skipped.             *)
Started(ids) == {on \in SUBSET ids : ids \ on \subseteq Flaky}

(* deployConfigs (full deploy) and applyConfigDiff (partial deploy).        *)
DeployConfigs ==
    /\ pc = "configs"
    /\ LET diff    == DiffWorkspaces(cur, ws)
           stopped == IF mode = "full" THEN cfgs
                      ELSE diff.removedConfigs \cup diff.modifiedConfigs
           starts  == IF mode = "full" THEN DOMAIN ws.configs
                      ELSE diff.addedConfigs \cup diff.modifiedConfigs
       IN  /\ Pull(stopped \cap cfgs)
           /\ \E on \in Started(starts) : cfgs' = (cfgs \ stopped) \cup on
    /\ pc' = CASE mode = "full"  -> "build"
               [] mode = "flows" -> "pick"
               [] mode = "nodes" -> "detach"
    /\ UNCHANGED <<running, cur, nodes, mux, mode, ws, batch, todo, flows,
                   flowsLeft, def, lw, lt, len, closed, stop, done, go, panics>>
-----------------------------------------------------------------------------
(* Stopping nodes.                                                          *)

(* wireAllNodes: the local snapshots of every node in the map N, given the  *)
(* wires W of each.                                                         *)
wireOnce(N, W) ==
    /\ lw' = W
    /\ lt' = [p \in Ptr |-> IF p \in N /\ lt[p] = {} THEN {t \in N : t[1] \in W[p]}
                            ELSE lt[p]]
wireAllNodes(N, W) ==
    /\ lw' = W
    /\ lt' = [p \in Ptr |-> IF p \in N THEN {t \in N : t[1] \in W[p]} ELSE lt[p]]

(* rebuildHTTPMux                                                           *)
rebuildHTTPMux(N) == mux' = {p \in N : p[1] \in HttpIn}

(* Steps 1 and 2 of stopAndRemoveNodes: forget the objects B and rewire the *)
(* others, so that nothing resolves to B any more.                          *)
detach(B) ==
    /\ B # {}
    /\ batch' = B
    /\ todo' = B
    /\ nodes' = nodes \ B
    /\ wireAllNodes(nodes \ B, lw)
    /\ rebuildHTTPMux(nodes \ B)
    /\ pc' = "halt"

(* stopNodesInFlow, called for one affected flow after the other.           *)
stopNodesInFlow(f) ==
    /\ pc = "pick"
    /\ f \in flowsLeft
    /\ flowsLeft' = flowsLeft \ {f}
    /\ LET B == {p \in nodes : def[p].flow = f}
       IN  \/ detach(B)
           \/ /\ B = {}
              /\ UNCHANGED <<pc, batch, todo, nodes, lw, lt, mux>>
    /\ UNCHANGED <<running, cur, cfgs, mode, ws, flows, def, len, closed, stop,
                   done, held, go, panics>>

AllFlowsStopped ==
    /\ pc = "pick"
    /\ flowsLeft = {}
    /\ pc' = "build"
    /\ UNCHANGED <<running, cur, nodes, cfgs, mux, mode, ws, batch, todo, flows,
                   flowsLeft, objVars, go, panics>>

(* The diff of a "nodes" deploy, with the dependents of modified configs.   *)
NodesDiff == ExpandConfigDependents(DiffWorkspaces(cur, ws), ws)

(* deployModifiedNodes stops the removed and the modified nodes.            *)
ToStopForgetsModified == NodesDiff.removedNodes
ToStopEverything == DOMAIN cur.nodes
toStop == NodesDiff.removedNodes \cup NodesDiff.modifiedNodes

DetachModified ==
    /\ pc = "detach"
    /\ LET B == {p \in nodes : p[1] \in toStop}
       IN  \/ detach(B)
           \/ /\ B = {}
              /\ pc' = "build"
              /\ UNCHANGED <<batch, todo, nodes, lw, lt, mux>>
    /\ UNCHANGED <<running, cur, cfgs, mode, ws, flows, flowsLeft, def, len,
                   closed, stop, done, held, go, panics>>

(* instance.Stop: a source node waits for its goroutine, which finishes the *)
(* send it is in.  An http-in node does not wait for its handlers, nor a    *)
(* statemachine or delay node for a timer goroutine that is past its check  *)
(* of n.done or was spawned after the wait.                                 *)
StopInstanceKeepsConfig(p) ==
    /\ pc = "halt"
    /\ p \in todo
    /\ p[1] \in Sources => go[p][0].pend = {}
    /\ todo' = todo \ {p}
    /\ IF p[1] \in Sources THEN become(p, 0, Off) ELSE UNCHANGED go
    /\ UNCHANGED <<running, cur, nodes, cfgs, mux, pc, mode, ws, batch, flows,
                   flowsLeft, def, lw, lt, len, closed, stop, done, held, panics>>
StopInstance(p) ==
    /\ pc = "halt"
    /\ p \in todo
    /\ p[1] \in Sources => go[p][0].pend = {}
    /\ todo' = todo \ {p}
    /\ IF p[1] \in Sources THEN become(p, 0, Off) ELSE UNCHANGED go
    /\ held' = [held EXCEPT ![p] = "none"]
    /\ UNCHANGED <<running, cur, nodes, cfgs, mux, pc, mode, ws, batch, flows,
                   flowsLeft, def, lw, lt, len, closed, stop, done, panics>>

(* close(rn.stopCh) for every node of the batch.                            *)
SignalStopAndClose ==
    /\ pc = "halt"
    /\ todo = {}
    /\ stop' = [p \in Ptr |-> p \in batch \/ stop[p]]
    /\ closed' = [p \in Ptr |-> p \in batch \/ closed[p]]
    /\ pc' = "await"
    /\ UNCHANGED <<running, cur, nodes, cfgs, mux, mode, ws, batch, todo, flows,
                   flowsLeft, def, lw, lt, len, done, held, go, panics>>
SignalStop ==
    /\ pc = "halt"
    /\ todo = {}
    /\ stop' = [p \in Ptr |-> p \in batch \/ stop[p]]
    /\ pc' = "await"
    /\ UNCHANGED <<running, cur, nodes, cfgs, mux, mode, ws, batch, todo, flows,
                   flowsLeft, def, lw, lt, len, closed, done, held, go, panics>>

(* <-rn.done for every node of the batch.                                   *)
NotAwaited == TRUE
AllDone == \A p \in batch : done[p]

(* close(rn.inputCh) for every node of the batch once all are done.  The    *)
(* tail of stopAllNodes then clears the maps and stops the config           *)
(* instances; stopAndRemoveNodes returns to its caller.                     *)
CloseInputs ==
    /\ pc = "await"
    /\ AllDone
    /\ closed' = [p \in Ptr |-> p \in batch \/ closed[p]]
    /\ batch' = {}
    /\ \/ /\ mode \in {"full", "stop"}
          /\ nodes' = {}
          /\ cfgs' = {}
          /\ Pull(cfgs)
          /\ pc' = IF mode = "full" THEN "configs" ELSE "down"
       \/ /\ mode \in {"flows", "nodes"}
          /\ pc' = IF mode = "flows" THEN "pick" ELSE "build"
          /\ UNCHANGED <<nodes, cfgs, held>>
    /\ UNCHANGED <<running, cur, mux, mode, ws, todo, flows, flowsLeft, def, lw,
                   lt, len, stop, done, go, panics>>

(* The tail of Engine.Stop.                                                 *)
StopEngineKeepsRoutes ==
    /\ pc = "down"
    /\ running' = FALSE
    /\ cur' = NoWs
    /\ pc' = "idle"
    /\ UNCHANGED <<nodes, cfgs, mux, mode, ws, batch, todo, flows, flowsLeft,
                   objVars, go, panics>>
StopEngine ==
    /\ pc = "down"
    /\ mux' = {}
    /\ running' = FALSE
    /\ cur' = NoWs
    /\ pc' = "idle"
    /\ UNCHANGED <<nodes, cfgs, mode, ws, batch, todo, flows, flowsLeft,
                   objVars, go, panics>>
-----------------------------------------------------------------------------
(* Building the new nodes.                                                  *)

Restart == NodesDiff.modifiedNodes \cup NodesDiff.addedNodes

(* The nodes instantiateNode is called for, less the disabled ones.  Only a *)
(* "nodes" deploy does not look at the flow's Disabled flag.                *)
Wanted ==
    CASE mode = "full"  -> Enabled(ws)
      [] mode = "flows" -> {n \in Enabled(ws) : ws.nodes[n].flow \in flows}
      [] mode = "nodes" -> {n \in Restart \cap DOMAIN ws.nodes : ~ws.nodes[n].disabled}

(* The objects the garbage collector must keep.                             *)
Live == nodes \cup batch \cup mux \cup {p \in Ptr : \E k \in Slot : go[p][k].on}
Reachable == Live \cup UNION {lt[p] : p \in Live}
                  \cup UNION {go[p][k].pend : p \in Ptr, k \in Slot}

(* The lowest object of its node that may be allocated.                     *)
Fresh(p) == /\ p \notin Reachable
            /\ \A g \in Gen : g < p[2] => <<p[1], g>> \in Reachable

(* instantiateNode and wireAllNodes: the new objects enter the map, in the  *)
(* place of an object of the same node, and every node is rewired.  A       *)
(* "nodes" deploy first takes over the new wires of every node.             *)
Entered(new) == {p \in nodes : \A q \in new : q[1] # p[1]} \cup new
NewWires(new) ==
    [p \in Ptr |-> IF p \in new \/ /\ mode = "nodes" /\ p \in Entered(new)
                                   /\ p[1] \in DOMAIN ws.nodes
                   THEN ws.nodes[p[1]].wires ELSE lw[p]]
instantiate(new) ==
    /\ nodes' = Entered(new)
    /\ wireAllNodes(Entered(new), NewWires(new))
    /\ def' = [p \in Ptr |-> IF p \in new THEN ws.nodes[p[1]] ELSE def[p]]
    /\ len' = [p \in Ptr |-> IF p \in new THEN 0 ELSE len[p]]
    /\ closed' = [p \in Ptr |-> p \notin new /\ closed[p]]
    /\ stop' = [p \in Ptr |-> p \notin new /\ stop[p]]
    /\ done' = [p \in Ptr |-> p \notin new /\ done[p]]
    /\ held' = [p \in Ptr |-> IF p \in new THEN "none" ELSE held[p]]

(* startAllNodeLoops goes through every node whose stopCh is open,          *)
(* deployModifiedNodes through the restarted ones.                          *)
ToStartAll(N, stopped) == {p \in N : ~stopped[p]}
ToStart(N, stopped) ==
    IF mode = "nodes" THEN {p \in N : p[1] \in Restart} ELSE {p \in N : ~stopped[p]}

(* An object for every wanted node but those whose factory or Init fails.   *)
Build ==
    /\ pc = "build"
    /\ \E made \in SUBSET Wanted : \E at \in [made -> Gen] :
         /\ Wanted \ made \subseteq Flaky
         /\ \A n \in made : Fresh(<<n, at[n]>>)
         /\ instantiate({<<n, at[n]>> : n \in made})
    /\ todo' = ToStart(nodes', stop')
    /\ pc' = "start"
    /\ UNCHANGED <<running, cur, cfgs, mux, mode, ws, batch, flows, flowsLeft,
                   go, panics>>

(* rn.instance.Start and `go e.nodeLoop', in startAllNodeLoops and at the   *)
(* end of deployModifiedNodes.  A node whose config instance is missing     *)
(* fails to start; a node that fails gets its done channel closed.  The     *)
(* second ticker that the second Start of a "flows" deploy makes is one     *)
(* with the first: slot 0 stands for all of them.                           *)
StartOK(p) ==
    /\ def[p].ref \in cfgs \cup {NoConfig}
    /\ \E k \in Loop :
         /\ ~go[p][k].on
         /\ \A j \in Loop : j < k => go[p][j].on
         /\ go' = [go EXCEPT ![p] = [j \in Slot |->
                      IF j = k \/ (j = 0 /\ p[1] \in Sources /\ ~@[0].on)
                      THEN Idle ELSE @[j]]]
    /\ held' = [held EXCEPT ![p] = IF def[p].ref = NoConfig THEN "none" ELSE "live"]
    /\ UNCHANGED <<done, panics>>

StartFailsGoesOn(p) ==
    /\ p[1] \in Flaky
    /\ done' = [done EXCEPT ![p] = TRUE]
    /\ go' = [go EXCEPT ![p][1] = Idle]
    /\ UNCHANGED <<held, panics>>
StartFails(p) ==
    /\ p[1] \in Flaky \/ def[p].ref \notin cfgs \cup {NoConfig}
    /\ done' = [done EXCEPT ![p] = TRUE]
    /\ panics' = IF done[p] THEN panics \cup {"close of done"} ELSE panics
    /\ UNCHANGED <<go, held>>

StartNode(p) ==
    /\ pc = "start"
    /\ p \in todo
    /\ StartOK(p) \/ StartFails(p)
    /\ todo' = todo \ {p}
    /\ UNCHANGED <<running, cur, nodes, cfgs, mux, pc, mode, ws, batch, flows,
                   flowsLeft, def, lw, lt, len, closed, stop>>

(* rebuildHTTPMux, and e.flows and e.configs record what is deployed.       *)
FinishDeployKeepsRoutes ==
    /\ pc = "start"
    /\ todo = {}
    /\ cur' = ws
    /\ pc' = "idle"
    /\ UNCHANGED <<running, nodes, cfgs, mux, mode, ws, batch, todo, flows, flowsLeft,
                   objVars, go, panics>>
FinishDeploy ==
    /\ pc = "start"
    /\ todo = {}
    /\ rebuildHTTPMux(nodes)
    /\ cur' = ws
    /\ pc' = "idle"
    /\ UNCHANGED <<running, nodes, cfgs, mode, ws, batch, todo, flows, flowsLeft,
                   objVars, go, panics>>
-----------------------------------------------------------------------------
(* Message routing.                                                         *)

(* A non-blocking send to t: dropped when the buffer is full, a panic when  *)
(* the channel is closed.                                                   *)
sendUnbounded(t, who) ==
    len' = [len EXCEPT ![t] = @ + 1] /\ UNCHANGED panics
send(t, who) ==
    IF closed[t]
    THEN panics' = panics \cup {who} /\ UNCHANGED len
    ELSE /\ len' = [len EXCEPT ![t] = IF @ < Cap THEN @ + 1 ELSE @]
         /\ UNCHANGED panics

(* TriggerNode holds Engine.mu for reading.                                 *)
TriggerNode(p) ==
    /\ pc = "idle"
    /\ p \in nodes
    /\ send(p, "trigger send")
    /\ UNCHANGED <<running, cur, nodes, cfgs, mux, jobVars, def, lw, lt, closed,
                   stop, done, held, go>>

AtSelect(p, k) == go[p][k] = Idle

(* nodeLoop leaves on stopCh, or when inputCh is closed and drained.        *)
LoopExit(p, k) ==
    /\ AtSelect(p, k)
    /\ stop[p] \/ (closed[p] /\ len[p] = 0)
    /\ become(p, k, Off)
    /\ done' = [done EXCEPT ![p] = TRUE]
    /\ panics' = IF done[p] THEN panics \cup {"close of done"} ELSE panics
    /\ UNCHANGED <<running, cur, nodes, cfgs, mux, jobVars, def, lw, lt, len,
                   closed, stop, held>>

(* nodeLoop receives a message and HandleMessage returns outputs for some   *)
(* of the wires (none when it fails).  A source node sends through its      *)
(* SendFunc instead, whose closure has captured the target map.             *)
LoopReceive(p, k) ==
    /\ AtSelect(p, k)
    /\ len[p] > 0
    /\ len' = [len EXCEPT ![p] = @ - 1]
    /\ \/ /\ p[1] \in Sources
          /\ become(p, k, Sending(lt[p]))
       \/ /\ p[1] \notin Sources
          /\ \E out \in SUBSET lw[p] : become(p, k, Routing(out))
    /\ UNCHANGED <<running, cur, nodes, cfgs, mux, jobVars, def, lw, lt, closed,
                   stop, done, held, panics>>

(* nodeLoop looks a wired target up in the current rn.localTargets.         *)
LoopRouteAgain(p, k) ==
    /\ go[p][k].pend = {}
    /\ \E n \in go[p][k].left :
         become(p, k, [go[p][k] EXCEPT !.pend = {t \in lt[p] : t[1] = n}])
    /\ UNCHANGED <<running, cur, nodes, cfgs, mux, jobVars, objVars, panics>>
LoopRoute(p, k) ==
    /\ go[p][k].pend = {}
    /\ \E n \in go[p][k].left :
         become(p, k, [go[p][k] EXCEPT !.left = @ \ {n},
                                       !.pend = {t \in lt[p] : t[1] = n}])
    /\ UNCHANGED <<running, cur, nodes, cfgs, mux, jobVars, objVars, panics>>

LoopSend(p, k) ==
    /\ \E t \in go[p][k].pend :
         /\ send(t, "loop send")
         /\ become(p, k, [go[p][k] EXCEPT !.pend = @ \ {t}])
    /\ UNCHANGED <<running, cur, nodes, cfgs, mux, jobVars, def, lw, lt, closed,
                   stop, done, held>>

(* The ticker of a source node fires: the SendFunc's target map is read.    *)
SourceEmit(p) ==
    /\ p[1] \in Sources
    /\ AtSelect(p, 0)
    /\ lt[p] # {}
    /\ become(p, 0, Sending(lt[p]))
    /\ UNCHANGED <<running, cur, nodes, cfgs, mux, jobVars, objVars, panics>>

SourceSend(p) ==
    /\ p[1] \in Sources
    /\ \E t \in go[p][0].pend :
         /\ send(t, "source send")
         /\ become(p, 0, [go[p][0] EXCEPT !.pend = @ \ {t}])
    /\ UNCHANGED <<running, cur, nodes, cfgs, mux, jobVars, def, lw, lt, closed,
                   stop, done, held>>

(* A request reaches an http-in node and its handler calls the SendFunc.    *)
HandlerEnter(p) ==
    /\ p \in mux
    /\ ~go[p][0].on
    /\ lt[p] # {}
    /\ become(p, 0, Sending(lt[p]))
    /\ UNCHANGED <<running, cur, nodes, cfgs, mux, jobVars, objVars, panics>>

HandlerSend(p) ==
    /\ p[1] \in HttpIn
    /\ \E t \in go[p][0].pend :
         /\ send(t, "handler send")
         /\ become(p, 0, IF closed[t] \/ go[p][0].pend = {t} THEN Off
                         ELSE [go[p][0] EXCEPT !.pend = @ \ {t}])
    /\ UNCHANGED <<running, cur, nodes, cfgs, mux, jobVars, def, lw, lt, closed,
                   stop, done, held>>

(* A goroutine of a statemachine or delay node that Stop does not join gets *)
(* past its check of n.done (time.AfterFunc), or is spawned by              *)
(* HandleMessage (scheduleAfter), and calls the SendFunc.  That takes a     *)
(* node whose loop still runs; the targets of an object do not change once  *)
(* it is being stopped, so it is here that they are read.                   *)
TimerEnter(p) ==
    /\ p[1] \in Timers
    /\ ~go[p][0].on
    /\ \E k \in Loop : go[p][k].on
    /\ lt[p] # {}
    /\ become(p, 0, Sending(lt[p]))
    /\ UNCHANGED <<running, cur, nodes, cfgs, mux, jobVars, objVars, panics>>

TimerSend(p) ==
    /\ p[1] \in Timers
    /\ \E t \in go[p][0].pend :
         /\ send(t, "timer send")
         /\ become(p, 0, IF go[p][0].pend = {t} THEN Off
                         ELSE [go[p][0] EXCEPT !.pend = @ \ {t}])
    /\ UNCHANGED <<running, cur, nodes, cfgs, mux, jobVars, def, lw, lt, closed,
                   stop, done, held>>
-----------------------------------------------------------------------------
Operation ==
    \/ Start
    \/ Stop
    \/ \E w \in Workspaces, m \in Modes : Deploy(w, m)
    \/ \E p \in Ptr : TriggerNode(p)

EngineStep ==
    \/ DeployConfigs
    \/ \E f \in FlowID : stopNodesInFlow(f)
    \/ AllFlowsStopped
    \/ DetachModified
    \/ SignalStop
    \/ CloseInputs
    \/ StopEngine
    \/ Build
    \/ \E p \in Ptr : StartNode(p)
    \/ FinishDeploy

LoopStep(p, k) ==
    \/ LoopReceive(p, k)
    \/ LoopRoute(p, k)
    \/ LoopSend(p, k)

OwnStep(p) ==
    \/ SourceEmit(p)
    \/ SourceSend(p)
    \/ HandlerEnter(p)
    \/ HandlerSend(p)
    \/ TimerEnter(p)
    \/ TimerSend(p)

Next ==
    /\ Fatal = {}
    /\ \/ Operation
       \/ EngineStep
       \/ \E p \in Ptr : StopInstance(p)
       \/ \E p \in Ptr, k \in Loop : LoopExit(p, k)
       \/ \E p \in Ptr, k \in Loop : LoopStep(p, k)
       \/ \E p \in Ptr : OwnStep(p)

Safety == Init /\ [][Next]_vars

(* The engine's own steps are one goroutine's.  The Go scheduler runs every *)
(* goroutine that can run (weak fairness); a select picks at random among   *)
(* its ready cases, so a stop signal that stays ready is taken eventually,  *)
(* however often another case is ready too (strong fairness).               *)
Fairness ==
    /\ WF_vars(Fatal = {} /\ EngineStep)
    /\ SF_vars(Fatal = {} /\ \E p \in Ptr : StopInstance(p))
    /\ \A p \in Ptr :
         /\ WF_vars(Fatal = {} /\ (SourceSend(p) \/ TimerSend(p)))
         /\ \A k \in Loop :
              /\ SF_vars(Fatal = {} /\ LoopExit(p, k))
              /\ WF_vars(Fatal = {} /\ (LoopRoute(p, k) \/ LoopSend(p, k)))

Spec == Safety /\ Fairness
-----------------------------------------------------------------------------
(* Every variable has its type, and Engine.nodes is a map: it holds one     *)
(* object of a node at most.                                                *)
TypeOK ==
    /\ running \in BOOLEAN
    /\ cur \in Workspaces \cup {NoWs}
    /\ nodes \subseteq Ptr
    /\ \A p, q \in nodes : p[1] = q[1] => p = q
    /\ cfgs \subseteq ConfigID
    /\ mux \subseteq {p \in Ptr : p[1] \in HttpIn}
    /\ pc \in {"idle", "configs", "pick", "detach", "halt", "await", "build",
              "start", "down"}
    /\ mode \in {"full", "flows", "nodes", "stop"}
    /\ ws \in Workspaces \cup {NoWs}
    /\ batch \subseteq Ptr
    /\ todo \subseteq Ptr
    /\ flows \subseteq FlowID
    /\ flowsLeft \subseteq FlowID
    /\ def \in [Ptr -> Node]
    /\ lw \in [Ptr -> SUBSET NodeID]
    /\ lt \in [Ptr -> SUBSET Ptr]
    /\ len \in [Ptr -> 0..Cap]
    /\ closed \in [Ptr -> BOOLEAN]
    /\ stop \in [Ptr -> BOOLEAN]
    /\ done \in [Ptr -> BOOLEAN]
    /\ held \in [Ptr -> {"none", "live", "stopped"}]
    /\ go \in [Ptr -> [Slot -> Goroutine]]
    /\ panics \subseteq {"loop send", "source send", "handler send",
                         "timer send", "trigger send", "close of done"}

(* stopAllNodes and stopAndRemoveNodes close an input channel when nobody   *)
(* can still send to it ("safe now, no sender remains"): no loop, no source *)
(* or timer goroutine, no HTTP handler, no TriggerNode.                     *)
NoSendOnClosed == panics \subseteq {"close of done"}

(* The same for the senders that the engine or a node's Stop waits for:     *)
(* loops, source goroutines and TriggerNode.  A timer goroutine or an HTTP  *)
(* handler that nobody waits for is left out.                               *)
JoinedSendersSafe == panics \cap {"loop send", "source send", "trigger send"} = {}

(* No node's done channel is closed twice, by two loops or by a failed      *)
(* Start and a loop.                                                        *)
NoDoubleClose == "close of done" \notin panics

(* A deploy starts a goroutine only for a node that has none yet            *)
(* (startAllNodeLoops).                                                     *)
OneLoopPerNode ==
    \A p \in Ptr : \A j, k \in Loop : go[p][j].on /\ go[p][k].on => j = k

(* No loop and no source goroutine outlives its node: what is not in        *)
(* Engine.nodes and not being stopped has none left, which nobody could     *)
(* ever stop.                                                               *)
NoOrphanGoroutine ==
    \A p \in Ptr \ (nodes \cup batch) :
        /\ \A k \in Loop : ~go[p][k].on
        /\ p[1] \in Sources => ~go[p][0].on

(* After Stop has returned every object is shut: no loop and no source      *)
(* goroutine of a node runs, and the route table is empty.                  *)
StoppedIsQuiet ==
    ~running => /\ nodes = {} /\ mux = {}
                /\ \A p \in Ptr : \A k \in Loop : ~go[p][k].on
                /\ \A p \in Ptr : p[1] \in Sources => ~go[p][0].on

(* Whoever deploys, fails to start or stops: a node has one loop, which      *)
(* closes done once, and every loop and source goroutine belongs to a node   *)
(* that the next deploy or Stop finds, and there is none when the engine is  *)
(* stopped (nodeLoop, startAllNodeLoops, stopAndRemoveNodes, Stop).          *)
GoroutinesAccounted ==
    OneLoopPerNode /\ NoDoubleClose /\ NoOrphanGoroutine /\ StoppedIsQuiet

(* A full deploy or Stop, at any moment of any node's routing and with late  *)
(* timers: no loop, source goroutine or trigger sends on a closed channel,   *)
(* no done channel is closed twice, and no loop or source goroutine is left  *)
(* behind (stopAllNodes).                                                    *)
FullDeploySafe == JoinedSendersSafe /\ NoDoubleClose /\ NoOrphanGoroutine

(* Between two operations the nodes that run are the enabled nodes of the   *)
(* deployed workspace (but for those that failed to be created), each built *)
(* from its definition in that workspace, on its flow.                      *)
Same(d, e) == d.flow = e.flow /\ d.ver = e.ver /\ d.ref = e.ref
RunningMatchesWorkspace ==
    pc = "idle" /\ cur # NoWs =>
        /\ {p[1] : p \in nodes} \subseteq Enabled(cur)
        /\ Enabled(cur) \ {p[1] : p \in nodes} \subseteq Flaky
        /\ \A p \in nodes : Same(def[p], cur.nodes[p[1]])

(* Between two operations every running node routes to exactly the running  *)
(* objects its wires name in the deployed workspace: a node that was not    *)
(* restarted never keeps an object that was replaced.                       *)
RoutingIsCurrent ==
    pc = "idle" /\ cur # NoWs =>
        \A p \in nodes \cap {q \in Ptr : q[1] \in DOMAIN cur.nodes} :
            lt[p] = {t \in nodes : t[1] \in cur.nodes[p[1]].wires}

(* Between two operations the route table leads to the running http-in      *)
(* nodes, and to no object that was replaced or stopped.                    *)
RoutesAreCurrent == pc = "idle" => mux = {p \in nodes : p[1] \in HttpIn}

(* Between two operations the engine is what a fresh start of the deployed   *)
(* workspace would be, whatever sequence of deploys led to it: its nodes,    *)
(* their wires and the HTTP routes (Engine.Deploy).                          *)
RunsWhatWasDeployed == RunningMatchesWorkspace /\ RoutingIsCurrent /\ RoutesAreCurrent

(* Between two operations no running node holds a config instance that has  *)
(* been stopped: the dependents of a modified config node were restarted.   *)
NoStaleConfig == pc = "idle" => \A p \in nodes : held[p] # "stopped"

(* A config instance is stopped only after the nodes that use it            *)
(* (config_instance.go: "Config instances Stop() AFTER regular nodes        *)
(* Stop()").                                                                *)
ConfigOutlivesUsers == \A p \in Ptr : held[p] # "stopped"

(* A "nodes" deploy leaves a node alone that is the same in both workspaces *)
(* and references no modified config node: its object stays in place and    *)
(* is never told to stop.                                                   *)
UnchangedNodesKeepRunning ==
    [][mode = "nodes" /\ pc # "idle" =>
         \A p \in nodes :
            p[1] \notin NodesDiff.removedNodes \cup NodesDiff.modifiedNodes
              => p \in nodes' /\ ~stop'[p]]_vars

(* Every deploy and every Stop returns, unless a panic of a late timer ends *)
(* the process: nobody waits for a goroutine that never exits.              *)
OperationReturns == pc # "idle" ~> (pc = "idle" \/ Fatal # {})
=============================================================================
