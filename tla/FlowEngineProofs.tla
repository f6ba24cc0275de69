-------------------------- MODULE FlowEngineProofs --------------------------
(***************************************************************************)
(* Theorems about FlowEngine, for every set of nodes, flows, config nodes  *)
(* and workspaces, every channel capacity and every bound.                 *)
(***************************************************************************)
EXTENDS FlowEngine, TLAPS

(* The operation that holds Engine.mu has the workspaces its steps read.    *)
JobOK ==
    /\ pc \in {"configs", "pick", "detach", "build", "start"}
         => ws \in Workspaces /\ mode \in {"full", "flows", "nodes"}
    /\ pc \in {"halt", "await"} /\ mode # "stop" => ws \in Workspaces
    /\ pc # "idle" /\ mode \in {"flows", "nodes"} => cur \in Workspaces
    /\ pc = "down" => mode = "stop"

TypeInv == TypeOK /\ JobOK
-----------------------------------------------------------------------------
LEMMA WorkspaceParts ==
    ASSUME NEW w \in Workspaces
    PROVE  /\ DOMAIN w.configs \subseteq ConfigID
           /\ DOMAIN w.flows \subseteq FlowID
           /\ DOMAIN w.nodes \subseteq NodeID
           /\ \A n \in DOMAIN w.nodes : w.nodes[n] \in Node
           /\ Enabled(w) \subseteq DOMAIN w.nodes
  BY EngineAssumption DEF IsWorkspace, Enabled

LEMMA NodeParts ==
    ASSUME NEW d \in Node
    PROVE  d.flow \in FlowID /\ d.wires \subseteq NodeID /\ d.ref \in ConfigID \cup {NoConfig}
  BY DEF Node

LEMMA PtrParts ==
    ASSUME NEW p \in Ptr
    PROVE  p[1] \in NodeID /\ p[2] \in Gen /\ p = <<p[1], p[2]>>
  BY DEF Ptr

LEMMA NoNodeType == NoNode \in Node
  <1>1. (CHOOSE x \in FlowID : TRUE) \in FlowID
    BY EngineAssumption
  <1> QED
    BY <1>1 DEF NoNode, Node, Ver

LEMMA OffType == Off \in Goroutine /\ Idle \in Goroutine
  BY DEF Goroutine, Off, Idle

LEMMA InitType == Init => TypeInv
  <1> SUFFICES ASSUME Init PROVE TypeInv
    OBVIOUS
  <1>1. go \in [Ptr -> [Slot -> Goroutine]]
    BY OffType DEF Init
  <1>2. len \in [Ptr -> 0..Cap]
    BY EngineAssumption DEF Init
  <1> QED
    BY <1>1, <1>2, NoNodeType DEF Init, TypeInv, TypeOK, JobOK

LEMMA TypeStart == TypeInv /\ Start => TypeInv'
  BY DEF TypeInv, TypeOK, JobOK, Start, jobVars, objVars

LEMMA TypeStop == TypeInv /\ Stop => TypeInv'
  BY DEF TypeInv, TypeOK, JobOK, Stop, BeginStopAll, objVars

LEMMA DiffParts ==
    ASSUME NEW v \in Workspaces, NEW w \in Workspaces
    PROVE  LET d == DiffWorkspaces(v, w)
           IN  /\ d.addedConfigs \subseteq ConfigID
               /\ d.removedConfigs \subseteq ConfigID
               /\ d.modifiedConfigs \subseteq ConfigID
               /\ d.addedFlows \subseteq FlowID
               /\ d.removedFlows \subseteq FlowID
               /\ d.modifiedFlows \subseteq FlowID
               /\ d.addedNodes = DOMAIN w.nodes \ DOMAIN v.nodes
               /\ d.removedNodes = DOMAIN v.nodes \ DOMAIN w.nodes
               /\ d.modifiedNodes \subseteq DOMAIN w.nodes
  BY WorkspaceParts DEF DiffWorkspaces, AddedNodes, RemovedNodes, ModifiedNodes

LEMMA ExpandedParts ==
    ASSUME NEW v \in Workspaces, NEW w \in Workspaces
    PROVE  LET d == ExpandConfigDependents(DiffWorkspaces(v, w), w)
           IN  /\ d.addedNodes = DOMAIN w.nodes \ DOMAIN v.nodes
               /\ d.removedNodes = DOMAIN v.nodes \ DOMAIN w.nodes
               /\ d.modifiedNodes \subseteq DOMAIN w.nodes
  <1>1. DEFINE d == DiffWorkspaces(v, w)
  <1>2. /\ d.addedNodes = DOMAIN w.nodes \ DOMAIN v.nodes
        /\ d.removedNodes = DOMAIN v.nodes \ DOMAIN w.nodes
        /\ d.modifiedNodes \subseteq DOMAIN w.nodes
    BY DiffParts
  <1>3. ConfigDependents(d, w) \subseteq DOMAIN w.nodes
    BY DEF ConfigDependents
  <1>4. ExpandConfigDependents(d, w)
          = [d EXCEPT !.modifiedNodes = @ \cup (ConfigDependents(d, w) \ d.addedNodes)]
    BY DEF ExpandConfigDependents
  <1>5. DOMAIN d = {"addedFlows", "removedFlows", "modifiedFlows", "addedNodes",
                    "removedNodes", "modifiedNodes", "addedConfigs",
                    "removedConfigs", "modifiedConfigs"}
    BY DEF DiffWorkspaces
  <1> QED
    BY <1>2, <1>3, <1>4, <1>5

LEMMA TypeDeploy ==
    ASSUME TypeInv, NEW w \in Workspaces, NEW m \in Modes, Deploy(w, m)
    PROVE  TypeInv'
  <1>1. CASE deployFull(w)
    BY <1>1 DEF TypeInv, TypeOK, JobOK, Deploy, deployFull, BeginStopAll, objVars
  <1>2. CASE nothingToDeploy(w)
    BY <1>2 DEF TypeInv, TypeOK, JobOK, Deploy, nothingToDeploy, jobVars, objVars
  <1>3. CASE cur # NoWs /\ m # "full" /\ deployModified(w, m)
    <2>1. cur \in Workspaces /\ m \in {"flows", "nodes"}
      BY <1>3, EngineAssumption DEF TypeInv, TypeOK
    <2>2. flows' \subseteq FlowID /\ flowsLeft' \subseteq FlowID
      <3>1. ASSUME NEW n \in DOMAIN RunningFlow
            PROVE  RunningFlow[n] \in FlowID
        <4>1. PICK p \in nodes : p[1] = n
          BY DEF RunningFlow
        <4>2. (CHOOSE q \in nodes : q[1] = n) \in Ptr
          BY <4>1 DEF TypeInv, TypeOK
        <4> QED
          BY <4>2, NodeParts DEF RunningFlow, TypeInv, TypeOK
      <3>2. AffectedFlows(DiffWorkspaces(cur, w), w, RunningFlow) \subseteq FlowID
        BY <2>1, <3>1, DiffParts, WorkspaceParts, NodeParts DEF AffectedFlows
      <3> QED
        BY <3>2, <1>3 DEF deployModified
    <2> QED
      BY <2>1, <2>2, <1>3 DEF TypeInv, TypeOK, JobOK, Deploy, deployModified, objVars
  <1> QED
    BY <1>1, <1>2, <1>3 DEF Deploy

LEMMA TypeDeployConfigs == TypeInv /\ DeployConfigs => TypeInv'
  <1> SUFFICES ASSUME TypeInv, DeployConfigs PROVE TypeInv'
    OBVIOUS
  <1>1. ws \in Workspaces /\ mode \in {"full", "flows", "nodes"}
    BY DEF TypeInv, JobOK, DeployConfigs
  <1>2. cfgs' \subseteq ConfigID
    <2>1. CASE mode = "full"
      BY <2>1, <1>1, WorkspaceParts DEF TypeInv, TypeOK, DeployConfigs, Started
    <2>2. CASE mode \in {"flows", "nodes"}
      <3>1. cur \in Workspaces
        BY <2>2 DEF TypeInv, JobOK, DeployConfigs
      <3> QED
        BY <2>2, <3>1, <1>1, DiffParts, ZenonT(60) DEF TypeInv, TypeOK, DeployConfigs, Started
    <2> QED
      BY <2>1, <2>2, <1>1
  <1>3. held' \in [Ptr -> {"none", "live", "stopped"}]
    BY DEF TypeInv, TypeOK, DeployConfigs, Pull
  <1>4. pc' \in {"build", "pick", "detach"}
    BY <1>1 DEF DeployConfigs
  <1> QED
    BY <1>1, <1>2, <1>3, <1>4 DEF TypeInv, TypeOK, JobOK, DeployConfigs

LEMMA TypeDetach ==
    ASSUME TypeOK, NEW B \in SUBSET nodes, detach(B)
    PROVE  /\ nodes' \subseteq Ptr
           /\ \A p, q \in nodes' : p[1] = q[1] => p = q
           /\ mux' \subseteq {p \in Ptr : p[1] \in HttpIn}
           /\ batch' \subseteq Ptr
           /\ todo' \subseteq Ptr
           /\ pc' = "halt"
           /\ lw' \in [Ptr -> SUBSET NodeID]
           /\ lt' \in [Ptr -> SUBSET Ptr]
  BY DEF TypeOK, detach, wireAllNodes, rebuildHTTPMux

LEMMA TypeStopFlow ==
    ASSUME TypeInv, NEW f \in FlowID, stopNodesInFlow(f)
    PROVE  TypeInv'
  <1> DEFINE B == {p \in nodes : def[p].flow = f}
  <1>1. CASE detach(B)
    <2>1. B \in SUBSET nodes
      OBVIOUS
    <2> HIDE DEF B
    <2> QED
      BY <1>1, <2>1, TypeDetach DEF TypeInv, TypeOK, JobOK, stopNodesInFlow
  <1>2. CASE UNCHANGED <<pc, batch, todo, nodes, lw, lt, mux>>
    BY <1>2 DEF TypeInv, TypeOK, JobOK, stopNodesInFlow
  <1> QED
    BY <1>1, <1>2 DEF stopNodesInFlow

LEMMA TypeDetachModified == TypeInv /\ DetachModified => TypeInv'
  <1> SUFFICES ASSUME TypeInv, DetachModified PROVE TypeInv'
    OBVIOUS
  <1> DEFINE B == {p \in nodes : p[1] \in toStop}
  <1>1. CASE detach(B)
    <2>1. B \in SUBSET nodes
      OBVIOUS
    <2> HIDE DEF B
    <2> QED
      BY <1>1, <2>1, TypeDetach DEF TypeInv, TypeOK, JobOK, DetachModified
  <1>2. CASE pc' = "build" /\ UNCHANGED <<batch, todo, nodes, lw, lt, mux>>
    BY <1>2 DEF TypeInv, TypeOK, JobOK, DetachModified
  <1> QED
    BY <1>1, <1>2 DEF DetachModified

LEMMA TypeAllFlowsStopped == TypeInv /\ AllFlowsStopped => TypeInv'
  BY DEF TypeInv, TypeOK, JobOK, AllFlowsStopped, objVars

LEMMA TypeSignalStop == TypeInv /\ SignalStop => TypeInv'
  <1> SUFFICES ASSUME TypeInv, SignalStop PROVE TypeInv'
    OBVIOUS
  <1>1. stop' \in [Ptr -> BOOLEAN]
    BY DEF TypeInv, TypeOK, SignalStop
  <1> QED
    BY <1>1 DEF TypeInv, TypeOK, JobOK, SignalStop

LEMMA TypeCloseInputs == TypeInv /\ CloseInputs => TypeInv'
  <1> SUFFICES ASSUME TypeInv, CloseInputs PROVE TypeInv'
    OBVIOUS
  <1>1. closed' \in [Ptr -> BOOLEAN]
    BY DEF TypeInv, TypeOK, CloseInputs
  <1>2. held' \in [Ptr -> {"none", "live", "stopped"}]
    BY DEF TypeInv, TypeOK, CloseInputs, Pull
  <1> QED
    BY <1>1, <1>2 DEF TypeInv, TypeOK, JobOK, CloseInputs

LEMMA TypeStopEngine == TypeInv /\ StopEngine => TypeInv'
  BY DEF TypeInv, TypeOK, JobOK, StopEngine, objVars

LEMMA SlotFacts == 0 \in Slot /\ 0 \notin Loop /\ Loop \subseteq Slot
  BY EngineAssumption DEF Slot, Loop

LEMMA CapFact == Cap \in Nat \ {0}
  BY EngineAssumption

LEMMA CountUp ==
    ASSUME NEW S, NEW t \in S, NEW x \in [S -> 0..Cap]
    PROVE  [x EXCEPT ![t] = IF @ < Cap THEN @ + 1 ELSE @] \in [S -> 0..Cap]
  BY CapFact

LEMMA CountDown ==
    ASSUME NEW S, NEW t \in S, NEW x \in [S -> 0..Cap], x[t] > 0
    PROVE  [x EXCEPT ![t] = @ - 1] \in [S -> 0..Cap]
  BY CapFact

LEMMA GoroutineParts ==
    ASSUME NEW x \in Goroutine
    PROVE  x.on \in BOOLEAN /\ x.left \subseteq NodeID /\ x.pend \subseteq Ptr
  BY DEF Goroutine

LEMMA GoroutineMade ==
    ASSUME NEW x \in Goroutine, NEW L \in SUBSET NodeID, NEW P \in SUBSET Ptr
    PROVE  /\ Sending(P) \in Goroutine
           /\ Routing(L) \in Goroutine
           /\ [x EXCEPT !.pend = P] \in Goroutine
           /\ [x EXCEPT !.left = L, !.pend = P] \in Goroutine
  BY DEF Goroutine, Sending, Routing

LEMMA GoParts ==
    ASSUME TypeOK, NEW p \in Ptr, NEW k \in Slot
    PROVE  go[p][k] \in Goroutine
  <1>1. go \in [Ptr -> [Slot -> Goroutine]]
    BY DEF TypeOK
  <1> QED
    BY <1>1

(* What a step that changes one goroutine does to all of them.              *)
LEMMA Become ==
    ASSUME TypeOK, NEW p \in Ptr, NEW k \in Slot, NEW x \in Goroutine, become(p, k, x)
    PROVE  /\ go' \in [Ptr -> [Slot -> Goroutine]]
           /\ go'[p][k] = x
           /\ \A q \in Ptr, j \in Slot : q # p \/ j # k => go'[q][j] = go[q][j]
  <1>1. go \in [Ptr -> [Slot -> Goroutine]] /\ go' = [go EXCEPT ![p][k] = x]
    BY DEF TypeOK, become
  <1> QED
    BY <1>1

LEMMA TypeStopInstance ==
    ASSUME TypeInv, NEW p \in Ptr, StopInstance(p)
    PROVE  TypeInv'
  <1>1. go' \in [Ptr -> [Slot -> Goroutine]]
    BY Become, OffType, SlotFacts DEF TypeInv, TypeOK, StopInstance
  <1> QED
    BY <1>1 DEF TypeInv, TypeOK, JobOK, StopInstance

LEMMA WantedParts ==
    ASSUME TypeInv, pc = "build"
    PROVE  /\ ws \in Workspaces
           /\ Wanted \subseteq DOMAIN ws.nodes
           /\ DOMAIN ws.nodes \subseteq NodeID
  <1>1. ws \in Workspaces /\ mode \in {"full", "flows", "nodes"}
    BY DEF TypeInv, JobOK
  <1>2. Wanted \subseteq DOMAIN ws.nodes
    BY <1>1, WorkspaceParts DEF Wanted
  <1> QED
    BY <1>1, <1>2, WorkspaceParts

(* The new objects a Build step enters.                                     *)
IsNew(new) ==
    /\ new \subseteq Ptr
    /\ \A p \in new : p[1] \in Wanted /\ Fresh(p)
    /\ \A p, q \in new : p[1] = q[1] => p = q
    /\ Wanted \ {p[1] : p \in new} \subseteq Flaky
    /\ instantiate(new)

LEMMA BuildParts ==
    ASSUME TypeInv, Build
    PROVE  \E new : IsNew(new)
  <1>1. PICK made \in SUBSET Wanted : \E at \in [made -> Gen] :
           /\ Wanted \ made \subseteq Flaky
           /\ \A n \in made : Fresh(<<n, at[n]>>)
           /\ instantiate({<<n, at[n]>> : n \in made})
    BY DEF Build
  <1>2. PICK at \in [made -> Gen] :
           /\ Wanted \ made \subseteq Flaky
           /\ \A n \in made : Fresh(<<n, at[n]>>)
           /\ instantiate({<<n, at[n]>> : n \in made})
    BY <1>1
  <1>3. made \subseteq NodeID
    BY WantedParts DEF Build
  <1> DEFINE new == {<<n, at[n]>> : n \in made}
  <1>4. /\ new \subseteq Ptr
        /\ \A p \in new : p[1] \in Wanted /\ Fresh(p)
        /\ \A p, q \in new : p[1] = q[1] => p = q
    BY <1>2, <1>3 DEF Ptr
  <1>5. instantiate(new)
    BY <1>2
  <1>6. Wanted \ {p[1] : p \in new} \subseteq Flaky
    <2>1. ASSUME NEW n \in made
          PROVE  n \in {p[1] : p \in new}
      <3>1. <<n, at[n]>> \in new /\ <<n, at[n]>>[1] = n
        OBVIOUS
      <3> HIDE DEF new
      <3> QED
        BY <3>1
    <2> HIDE DEF new
    <2> QED
      BY <1>2, <2>1
  <1> HIDE DEF new
  <1> QED
    BY <1>4, <1>5, <1>6 DEF IsNew

LEMMA TypeBuild == TypeInv /\ Build => TypeInv'
  <1> SUFFICES ASSUME TypeInv, Build PROVE TypeInv'
    OBVIOUS
  <1>1. /\ ws \in Workspaces
        /\ Wanted \subseteq DOMAIN ws.nodes
        /\ DOMAIN ws.nodes \subseteq NodeID
    BY WantedParts DEF Build
  <1>2. PICK new : IsNew(new)
    BY BuildParts
  <1>3. /\ new \subseteq Ptr
        /\ \A p \in new : ws.nodes[p[1]] \in Node
        /\ instantiate(new)
    BY <1>1, <1>2, WorkspaceParts DEF IsNew
  <1>4. Entered(new) \subseteq Ptr /\ \A p, q \in Entered(new) : p[1] = q[1] => p = q
    BY <1>2 DEF IsNew, Entered, TypeInv, TypeOK
  <1>5. NewWires(new) \in [Ptr -> SUBSET NodeID]
    <2>1. ASSUME NEW p \in Ptr, p \in new \/ p[1] \in DOMAIN ws.nodes
          PROVE  ws.nodes[p[1]].wires \in SUBSET NodeID
      BY <2>1, <1>1, <1>3, WorkspaceParts, NodeParts
    <2> QED
      BY <2>1 DEF NewWires, TypeInv, TypeOK
  <1>6. lw' \in [Ptr -> SUBSET NodeID] /\ lt' \in [Ptr -> SUBSET Ptr]
    BY <1>3, <1>4, <1>5 DEF instantiate, wireAllNodes, TypeInv, TypeOK
  <1>7. def' \in [Ptr -> Node]
    BY <1>3 DEF instantiate, TypeInv, TypeOK
  <1>8. len' \in [Ptr -> 0..Cap]
    <2>1. len \in [Ptr -> 0..Cap]
      BY DEF TypeInv, TypeOK
    <2>2. 0 \in 0..Cap
      BY CapFact
    <2> QED
      BY <1>3, <2>1, <2>2 DEF instantiate
  <1>9. held' \in [Ptr -> {"none", "live", "stopped"}]
    BY <1>3 DEF instantiate, TypeInv, TypeOK
  <1>10. /\ closed' \in [Ptr -> BOOLEAN]
         /\ stop' \in [Ptr -> BOOLEAN]
         /\ done' \in [Ptr -> BOOLEAN]
    BY <1>3 DEF instantiate, TypeInv, TypeOK
  <1>11. todo' \subseteq nodes' /\ nodes' = Entered(new)
    BY <1>3 DEF instantiate, Build, ToStart
  <1> QED
    BY <1>4, <1>6, <1>7, <1>8, <1>9, <1>10, <1>11 DEF TypeInv, TypeOK, JobOK, Build

LEMMA TypeStartNode ==
    ASSUME TypeInv, NEW p \in Ptr, StartNode(p)
    PROVE  TypeInv'
  <1>1. CASE StartOK(p)
    <2>1. go \in [Ptr -> [Slot -> Goroutine]]
      BY DEF TypeInv, TypeOK
    <2>2. go' \in [Ptr -> [Slot -> Goroutine]]
      BY <1>1, <2>1, OffType DEF StartOK
    <2> QED
      BY <1>1, <2>2 DEF TypeInv, TypeOK, JobOK, StartNode, StartOK
  <1>2. CASE StartFails(p)
    BY <1>2 DEF TypeInv, TypeOK, JobOK, StartNode, StartFails
  <1> QED
    BY <1>1, <1>2 DEF StartNode

LEMMA TypeFinishDeploy == TypeInv /\ FinishDeploy => TypeInv'
  BY DEF TypeInv, TypeOK, JobOK, FinishDeploy, rebuildHTTPMux, objVars

LEMMA TypeSend ==
    ASSUME TypeOK, NEW t \in Ptr,
           NEW who \in {"loop send", "source send", "handler send", "timer send",
                        "trigger send"},
           send(t, who)
    PROVE  /\ len' \in [Ptr -> 0..Cap]
           /\ panics' \subseteq {"loop send", "source send", "handler send",
                                 "timer send", "trigger send", "close of done"}
  <1>1. len \in [Ptr -> 0..Cap]
    BY DEF TypeOK
  <1>2. CASE closed[t]
    BY <1>1, <1>2 DEF TypeOK, send
  <1>3. CASE ~closed[t]
    <2>1. len' = [len EXCEPT ![t] = IF @ < Cap THEN @ + 1 ELSE @] /\ panics' = panics
      BY <1>3 DEF send
    <2>2. len' \in [Ptr -> 0..Cap]
      BY <1>1, <2>1, CountUp
    <2> QED
      BY <2>1, <2>2 DEF TypeOK
  <1> QED
    BY <1>2, <1>3

LEMMA TypeTriggerNode ==
    ASSUME TypeInv, NEW p \in Ptr, TriggerNode(p)
    PROVE  TypeInv'
  BY TypeSend DEF TypeInv, TypeOK, JobOK, TriggerNode, jobVars

LEMMA TypeLoopExit ==
    ASSUME TypeInv, NEW p \in Ptr, NEW k \in Loop, LoopExit(p, k)
    PROVE  TypeInv'
  <1>1. go' \in [Ptr -> [Slot -> Goroutine]]
    BY Become, OffType, SlotFacts DEF LoopExit, TypeInv
  <1> QED
    BY <1>1 DEF TypeInv, TypeOK, JobOK, LoopExit, jobVars

LEMMA TypeLoopReceive ==
    ASSUME TypeInv, NEW p \in Ptr, NEW k \in Loop, LoopReceive(p, k)
    PROVE  TypeInv'
  <1>1. k \in Slot /\ go[p][k] \in Goroutine
    BY SlotFacts, GoParts DEF TypeInv
  <1>2. PICK x \in Goroutine : become(p, k, x)
    <2>1. CASE p[1] \in Sources
      BY <2>1, <1>1, GoroutineMade DEF LoopReceive, TypeInv, TypeOK
    <2>2. CASE p[1] \notin Sources
      <3>1. PICK out \in SUBSET lw[p] : become(p, k, Routing(out))
        BY <2>2 DEF LoopReceive
      <3>2. out \in SUBSET NodeID
        BY DEF TypeInv, TypeOK
      <3> QED
        BY <1>1, <3>1, <3>2, GoroutineMade
    <2> QED
      BY <2>1, <2>2
  <1>3. go' \in [Ptr -> [Slot -> Goroutine]]
    BY <1>1, <1>2, Become DEF TypeInv
  <1>4. len' \in [Ptr -> 0..Cap]
    <2>1. len \in [Ptr -> 0..Cap]
      BY DEF TypeInv, TypeOK
    <2> QED
      BY <2>1, CountDown DEF LoopReceive
  <1> QED
    BY <1>3, <1>4 DEF TypeInv, TypeOK, JobOK, LoopReceive, jobVars

LEMMA TypeLoopRoute ==
    ASSUME TypeInv, NEW p \in Ptr, NEW k \in Loop, LoopRoute(p, k)
    PROVE  TypeInv'
  <1>1. k \in Slot /\ go[p][k] \in Goroutine
    BY SlotFacts, GoParts DEF TypeInv
  <1>2. PICK n \in go[p][k].left :
           become(p, k, [go[p][k] EXCEPT !.left = @ \ {n},
                                         !.pend = {t \in lt[p] : t[1] = n}])
    BY DEF LoopRoute
  <1>3. go[p][k].left \ {n} \in SUBSET NodeID /\ {t \in lt[p] : t[1] = n} \in SUBSET Ptr
    BY <1>1, GoroutineParts DEF TypeInv, TypeOK
  <1>4. [go[p][k] EXCEPT !.left = @ \ {n}, !.pend = {t \in lt[p] : t[1] = n}] \in Goroutine
    BY <1>1, <1>3, GoroutineMade
  <1>5. go' \in [Ptr -> [Slot -> Goroutine]]
    BY <1>1, <1>2, <1>4, Become DEF TypeInv
  <1> QED
    BY <1>5 DEF TypeInv, TypeOK, JobOK, LoopRoute, jobVars, objVars

(* The part that the sends of loops, sources and handlers share.            *)
LEMMA SendParts ==
    ASSUME TypeInv, NEW p \in Ptr, NEW k \in Slot, NEW t \in go[p][k].pend
    PROVE  t \in Ptr /\ [go[p][k] EXCEPT !.pend = @ \ {t}] \in Goroutine
  <1>1. go[p][k] \in Goroutine
    BY GoParts DEF TypeInv
  <1>2. go[p][k].pend \ {t} \in SUBSET Ptr /\ t \in Ptr
    BY <1>1, GoroutineParts
  <1> QED
    BY <1>1, <1>2, GoroutineMade

LEMMA TypeLoopSend ==
    ASSUME TypeInv, NEW p \in Ptr, NEW k \in Loop, LoopSend(p, k)
    PROVE  TypeInv'
  <1>1. k \in Slot
    BY SlotFacts
  <1>2. PICK t \in go[p][k].pend :
           send(t, "loop send") /\ become(p, k, [go[p][k] EXCEPT !.pend = @ \ {t}])
    BY DEF LoopSend
  <1>3. t \in Ptr /\ go' \in [Ptr -> [Slot -> Goroutine]]
    BY <1>1, <1>2, SendParts, Become DEF TypeInv
  <1> QED
    BY <1>2, <1>3, TypeSend, ZenonT(60) DEF TypeInv, TypeOK, JobOK, LoopSend, jobVars

LEMMA TypeOwnStep ==
    ASSUME TypeInv, NEW p \in Ptr, OwnStep(p)
    PROVE  TypeInv'
  <1>0. 0 \in Slot /\ go[p][0] \in Goroutine /\ Sending(lt[p]) \in Goroutine
    BY SlotFacts, GoParts, GoroutineMade DEF TypeInv, TypeOK
  <1>1. CASE SourceEmit(p) \/ HandlerEnter(p) \/ TimerEnter(p)
    <2>1. go' \in [Ptr -> [Slot -> Goroutine]]
      BY <1>0, <1>1, Become DEF SourceEmit, HandlerEnter, TimerEnter, TypeInv
    <2>2. UNCHANGED <<running, cur, nodes, cfgs, mux, jobVars, objVars, panics>>
      BY <1>1 DEF SourceEmit, HandlerEnter, TimerEnter
    <2> QED
      BY <2>1, <2>2, ZenonT(60) DEF TypeInv, TypeOK, JobOK, jobVars, objVars
  <1>2. CASE SourceSend(p)
    <2>1. PICK t \in go[p][0].pend :
              send(t, "source send") /\ become(p, 0, [go[p][0] EXCEPT !.pend = @ \ {t}])
      BY <1>2 DEF SourceSend
    <2>2. t \in Ptr /\ go' \in [Ptr -> [Slot -> Goroutine]]
      BY <1>0, <2>1, SendParts, Become DEF TypeInv
    <2> QED
      BY <1>2, <2>1, <2>2, TypeSend DEF TypeInv, TypeOK, JobOK, SourceSend, jobVars
  <1>3. CASE HandlerSend(p)
    <2>1. PICK t \in go[p][0].pend :
              /\ send(t, "handler send")
              /\ become(p, 0, IF closed[t] \/ go[p][0].pend = {t} THEN Off
                              ELSE [go[p][0] EXCEPT !.pend = @ \ {t}])
      BY <1>3 DEF HandlerSend
    <2>2. t \in Ptr /\ go' \in [Ptr -> [Slot -> Goroutine]]
      BY <1>0, <2>1, SendParts, OffType, Become DEF TypeInv
    <2> QED
      BY <1>3, <2>1, <2>2, TypeSend DEF TypeInv, TypeOK, JobOK, HandlerSend, jobVars
  <1>4. CASE TimerSend(p)
    <2>1. PICK t \in go[p][0].pend :
              /\ send(t, "timer send")
              /\ become(p, 0, IF go[p][0].pend = {t} THEN Off
                              ELSE [go[p][0] EXCEPT !.pend = @ \ {t}])
      BY <1>4 DEF TimerSend
    <2>2. t \in Ptr /\ go' \in [Ptr -> [Slot -> Goroutine]]
      BY <1>0, <2>1, SendParts, OffType, Become DEF TypeInv
    <2> QED
      BY <1>4, <2>1, <2>2, TypeSend DEF TypeInv, TypeOK, JobOK, TimerSend, jobVars
  <1> QED
    BY <1>1, <1>2, <1>3, <1>4 DEF OwnStep

LEMMA TypeNext == TypeInv /\ [Next]_vars => TypeInv'
  <1> SUFFICES ASSUME TypeInv, [Next]_vars PROVE TypeInv'
    OBVIOUS
  <1>1. CASE Operation
    BY <1>1, TypeStart, TypeStop, TypeDeploy, TypeTriggerNode DEF Operation
  <1>2. CASE EngineStep
    BY <1>2, TypeDeployConfigs, TypeStopFlow, TypeAllFlowsStopped, TypeDetachModified,
       TypeSignalStop, TypeCloseInputs, TypeStopEngine, TypeBuild, TypeStartNode,
       TypeFinishDeploy DEF EngineStep
  <1>3. CASE \E p \in Ptr : StopInstance(p)
    BY <1>3, TypeStopInstance
  <1>4. CASE \E p \in Ptr, k \in Loop : LoopExit(p, k)
    BY <1>4, TypeLoopExit
  <1>5. CASE \E p \in Ptr, k \in Loop : LoopStep(p, k)
    BY <1>5, TypeLoopReceive, TypeLoopRoute, TypeLoopSend DEF LoopStep
  <1>6. CASE \E p \in Ptr : OwnStep(p)
    BY <1>6, TypeOwnStep
  <1>7. CASE UNCHANGED vars
    BY <1>7 DEF vars, jobVars, objVars, TypeInv, TypeOK, JobOK
  <1> QED
    BY <1>1, <1>2, <1>3, <1>4, <1>5, <1>6, <1>7 DEF Next

(* Type correctness of the engine in every deploy mode: Engine.nodes stays  *)
(* a map, the counters stay within the channel capacity, and a deploy never *)
(* reads a workspace that is not there.                                     *)
THEOREM TypeCorrect == Safety => []TypeOK
  <1>1. Safety => []TypeInv
    BY InitType, TypeNext, PTL DEF Safety
  <1>2. TypeInv => TypeOK
    BY DEF TypeInv
  <1> QED
    BY <1>1, <1>2, PTL
-----------------------------------------------------------------------------
(* What a deploy leaves behind: the running nodes, their wires and the      *)
(* routes are those of the deployed workspace.                              *)

(* A "nodes" deploy compares nodes and not the tabs they lie on: it leaves  *)
(* alone a node that only moved, and starts one that lies on a disabled     *)
(* tab.  The workspaces of an editor that does neither.                     *)
TabsStay ==
    /\ \A v, w \in Workspaces : \A n \in DOMAIN v.nodes \cap DOMAIN w.nodes :
          v.nodes[n].flow = w.nodes[n].flow
    /\ \A w \in Workspaces : \A n \in DOMAIN w.nodes :
          ~w.flows[w.nodes[n].flow].disabled
Faithful == "nodes" \in Modes => TabsStay

(* Every reference to a config node resolves in its own workspace.          *)
RefsResolve ==
    \A w \in Workspaces : \A n \in DOMAIN w.nodes :
        w.nodes[n].ref \in DOMAIN w.configs \cup {NoConfig}

NodeIds == {p[1] : p \in nodes}
Partial == mode \in {"flows", "nodes"}
Busy == pc \in {"configs", "pick", "detach", "halt", "await", "build"}

(* Object p runs its node as workspace w defines it.                        *)
RunsAs(p, w) ==
    /\ p[1] \in DOMAIN w.nodes
    /\ ~w.nodes[p[1]].disabled
    /\ def[p].ver = w.nodes[p[1]].ver
    /\ def[p].ref = w.nodes[p[1]].ref
    /\ lw[p] = w.nodes[p[1]].wires
    /\ Faithful => def[p].flow = w.nodes[p[1]].flow /\ p[1] \in Enabled(w)
Shows(w) == \A p \in nodes : RunsAs(p, w)

(* The nodes of S run, but for those that could not be created.             *)
Complete(S) == Faithful => S \ NodeIds \subseteq Flaky

Wired == \A p \in nodes : lt[p] = {t \in nodes : t[1] \in lw[p]}

(* The order of a deploy's steps.                                           *)
Steps ==
    /\ Partial => mode \in Modes
    /\ pc = "pick" => mode = "flows"
    /\ pc = "detach" => mode = "nodes"
    /\ pc \in {"configs", "build", "down"} /\ ~Partial => nodes = {}

(* Between two operations, and once the new objects are built.              *)
Settled ==
    /\ pc = "idle" /\ cur # NoWs => Shows(cur) /\ Complete(Enabled(cur))
    /\ pc = "start" => Shows(ws) /\ Complete(Enabled(ws))
    /\ pc \in {"idle", "start"} => Wired
    /\ pc = "idle" => mux = {p \in nodes : p[1] \in HttpIn}

(* A "flows" deploy restarts every flow that differs and every flow with a  *)
(* dependent of a modified config node.                                     *)
Diff == DiffWorkspaces(cur, ws)
Covers ==
    /\ Diff.removedFlows \cup Diff.modifiedFlows \cup Diff.addedFlows \subseteq flows
    /\ \A n \in ConfigDependents(Diff, ws) \ Diff.addedNodes : ws.nodes[n].flow \in flows
Spared == {n \in Enabled(cur) : cur.nodes[n].flow \notin flows}
FlowsJob ==
    Busy /\ mode = "flows" =>
        /\ Covers
        /\ Complete(Spared)
        /\ pc = "configs" => flowsLeft = flows
        /\ flowsLeft \subseteq flows
        /\ pc # "build" => \A p \in nodes : def[p].flow \in flows => def[p].flow \in flowsLeft
        /\ pc = "build" => \A p \in nodes : def[p].flow \notin flows

(* A "nodes" deploy stops the removed and modified nodes and no other.      *)
NodesJob ==
    Busy /\ mode = "nodes" =>
        /\ Complete(Enabled(cur) \ toStop)
        /\ pc \in {"halt", "await", "build"} => NodeIds \cap toStop = {}

DeployInv ==
    /\ Steps
    /\ Settled
    /\ Busy /\ Partial => Shows(cur)
    /\ FlowsJob
    /\ NodesJob
-----------------------------------------------------------------------------
(* The facts about differences of workspaces the proofs need.               *)
LEMMA DiffFields ==
    ASSUME NEW v, NEW w
    PROVE  LET d == DiffWorkspaces(v, w)
               x == ExpandConfigDependents(d, w)
           IN  /\ d.addedFlows = DOMAIN w.flows \ DOMAIN v.flows
               /\ d.removedFlows = DOMAIN v.flows \ DOMAIN w.flows
               /\ d.modifiedFlows = {f \in DOMAIN v.flows \cap DOMAIN w.flows :
                                        flowChanged(v, w, f)}
               /\ d.addedNodes = DOMAIN w.nodes \ DOMAIN v.nodes
               /\ d.removedNodes = DOMAIN v.nodes \ DOMAIN w.nodes
               /\ d.modifiedNodes = ModifiedNodes(v, w)
               /\ d.removedConfigs = DOMAIN v.configs \ DOMAIN w.configs
               /\ x.addedNodes = d.addedNodes
               /\ x.removedNodes = d.removedNodes
               /\ x.modifiedNodes = d.modifiedNodes
                                      \cup (ConfigDependents(d, w) \ d.addedNodes)
  <1> DEFINE d == DiffWorkspaces(v, w)
  <1>1. /\ d.addedFlows = DOMAIN w.flows \ DOMAIN v.flows
        /\ d.removedFlows = DOMAIN v.flows \ DOMAIN w.flows
        /\ d.modifiedFlows = {f \in DOMAIN v.flows \cap DOMAIN w.flows :
                                 flowChanged(v, w, f)}
        /\ d.addedNodes = DOMAIN w.nodes \ DOMAIN v.nodes
        /\ d.removedNodes = DOMAIN v.nodes \ DOMAIN w.nodes
        /\ d.modifiedNodes = ModifiedNodes(v, w)
        /\ d.removedConfigs = DOMAIN v.configs \ DOMAIN w.configs
    BY DEF DiffWorkspaces, AddedNodes, RemovedNodes
  <1>2. DOMAIN d = {"addedFlows", "removedFlows", "modifiedFlows", "addedNodes",
                    "removedNodes", "modifiedNodes", "addedConfigs",
                    "removedConfigs", "modifiedConfigs"}
    BY DEF DiffWorkspaces
  <1>3. ExpandConfigDependents(d, w)
          = [d EXCEPT !.modifiedNodes = @ \cup (ConfigDependents(d, w) \ d.addedNodes)]
    BY DEF ExpandConfigDependents
  <1> HIDE DEF d
  <1>4. LET x == ExpandConfigDependents(d, w)
        IN  /\ x.addedNodes = d.addedNodes
            /\ x.removedNodes = d.removedNodes
            /\ x.modifiedNodes = d.modifiedNodes
                                   \cup (ConfigDependents(d, w) \ d.addedNodes)
    BY <1>2, <1>3
  <1> QED
    BY <1>1, <1>4 DEF d

(* A flow that neither left nor changed keeps its nodes, unchanged.         *)
LEMMA KeptFlow ==
    ASSUME NEW v \in Workspaces, NEW w \in Workspaces, NEW f \in DOMAIN v.flows,
           f \in DOMAIN w.flows, ~flowChanged(v, w, f)
    PROVE  /\ v.flows[f].disabled = w.flows[f].disabled
           /\ NodesOf(v, f) = NodesOf(w, f)
           /\ \A n \in NodesOf(v, f) :
                /\ n \in DOMAIN v.nodes /\ n \in DOMAIN w.nodes
                /\ v.nodes[n].flow = f /\ w.nodes[n].flow = f
                /\ ~nodeChanged(v.nodes[n], w.nodes[n])
                /\ n \in Enabled(v) <=> n \in Enabled(w)
  <1>1. /\ v.flows[f].disabled = w.flows[f].disabled
        /\ NodesOf(v, f) = NodesOf(w, f)
        /\ NodesOf(w, f) \cap ModifiedNodes(v, w) = {}
    BY DEF flowChanged
  <1>2. ASSUME NEW n \in NodesOf(v, f)
        PROVE  /\ n \in DOMAIN v.nodes /\ n \in DOMAIN w.nodes
               /\ v.nodes[n].flow = f /\ w.nodes[n].flow = f
               /\ ~nodeChanged(v.nodes[n], w.nodes[n])
               /\ n \in Enabled(v) <=> n \in Enabled(w)
    <2>1. /\ n \in DOMAIN v.nodes /\ n \in DOMAIN w.nodes
          /\ v.nodes[n].flow = f /\ w.nodes[n].flow = f
      BY <1>1 DEF NodesOf
    <2>2. ~nodeChanged(v.nodes[n], w.nodes[n])
      BY <1>1, <2>1 DEF ModifiedNodes
    <2>3. v.nodes[n].disabled = w.nodes[n].disabled
      BY <2>2 DEF nodeChanged
    <2> QED
      BY <1>1, <2>1, <2>2, <2>3 DEF Enabled
  <1> QED
    BY <1>1, <1>2

(* A node that a "nodes" deploy leaves alone is the same in both workspaces *)
(* and references no modified config node.                                  *)
LEMMA KeptNode ==
    ASSUME NEW v \in Workspaces, NEW w \in Workspaces, NEW n \in DOMAIN v.nodes,
           n \notin ExpandConfigDependents(DiffWorkspaces(v, w), w).removedNodes,
           n \notin ExpandConfigDependents(DiffWorkspaces(v, w), w).modifiedNodes
    PROVE  /\ n \in DOMAIN w.nodes
           /\ ~nodeChanged(v.nodes[n], w.nodes[n])
           /\ w.nodes[n].ref \notin DiffWorkspaces(v, w).modifiedConfigs
  <1> DEFINE d == DiffWorkspaces(v, w)
  <1>1. /\ d.removedNodes = DOMAIN v.nodes \ DOMAIN w.nodes
        /\ d.addedNodes = DOMAIN w.nodes \ DOMAIN v.nodes
        /\ n \notin d.removedNodes /\ n \notin ModifiedNodes(v, w)
        /\ n \notin ConfigDependents(d, w) \ d.addedNodes
    BY DiffFields
  <1> HIDE DEF d
  <1>2. n \in DOMAIN w.nodes /\ ~nodeChanged(v.nodes[n], w.nodes[n])
    BY <1>1 DEF ModifiedNodes
  <1>3. w.nodes[n].ref \notin d.modifiedConfigs
    BY <1>1, <1>2 DEF ConfigDependents
  <1> QED
    BY <1>2, <1>3 DEF d

(* An unchanged node's payload.                                             *)
LEMMA Unchanged ==
    ASSUME NEW d, NEW e, ~nodeChanged(d, e)
    PROVE  d.disabled = e.disabled /\ d.ver = e.ver /\ d.ref = e.ref /\ d.wires = e.wires
  BY DEF nodeChanged

(* Two workspaces without a difference run the same nodes the same way.     *)
LEMMA EmptySame ==
    ASSUME NEW v \in Workspaces, NEW w \in Workspaces, IsEmpty(DiffWorkspaces(v, w))
    PROVE  /\ DOMAIN v.nodes = DOMAIN w.nodes
           /\ Enabled(v) = Enabled(w)
           /\ \A n \in DOMAIN v.nodes : /\ v.nodes[n].flow = w.nodes[n].flow
                                        /\ ~nodeChanged(v.nodes[n], w.nodes[n])
  <1> DEFINE d == DiffWorkspaces(v, w)
  <1>1. /\ d.addedFlows = {} /\ d.removedFlows = {} /\ d.modifiedFlows = {}
        /\ d.addedNodes = {} /\ d.removedNodes = {} /\ d.modifiedNodes = {}
    <2>1. DOMAIN d = {"addedFlows", "removedFlows", "modifiedFlows", "addedNodes",
                      "removedNodes", "modifiedNodes", "addedConfigs",
                      "removedConfigs", "modifiedConfigs"}
      BY DEF DiffWorkspaces
    <2>2. \A x \in DOMAIN d : d[x] = {}
      BY DEF IsEmpty
    <2> HIDE DEF d
    <2> QED
      BY <2>1, <2>2
  <1>2. /\ DOMAIN v.flows = DOMAIN w.flows
        /\ \A f \in DOMAIN v.flows : ~flowChanged(v, w, f)
        /\ DOMAIN v.nodes = DOMAIN w.nodes
    <2>1. /\ d.addedFlows = DOMAIN w.flows \ DOMAIN v.flows
          /\ d.removedFlows = DOMAIN v.flows \ DOMAIN w.flows
          /\ d.modifiedFlows = {f \in DOMAIN v.flows \cap DOMAIN w.flows :
                                   flowChanged(v, w, f)}
          /\ d.addedNodes = DOMAIN w.nodes \ DOMAIN v.nodes
          /\ d.removedNodes = DOMAIN v.nodes \ DOMAIN w.nodes
      BY DiffFields
    <2> HIDE DEF d
    <2> QED
      BY <1>1, <2>1
  <1>3. ASSUME NEW n \in DOMAIN v.nodes
        PROVE  /\ v.nodes[n].flow = w.nodes[n].flow
               /\ ~nodeChanged(v.nodes[n], w.nodes[n])
               /\ n \in Enabled(v) <=> n \in Enabled(w)
    <2>1. PICK f \in DOMAIN v.flows : v.nodes[n].flow = f
      BY EngineAssumption DEF IsWorkspace
    <2>2. n \in NodesOf(v, f)
      BY <2>1 DEF NodesOf
    <2> QED
      BY <1>2, <2>1, <2>2, KeptFlow
  <1>4. Enabled(v) = Enabled(w)
    BY <1>2, <1>3 DEF Enabled
  <1> QED
    BY <1>2, <1>3, <1>4
-----------------------------------------------------------------------------
LEMMA InitDeploy == Init => DeployInv
  BY DEF Init, DeployInv, Steps, Settled, Wired, Shows, FlowsJob, NodesJob, Busy, Partial

(* What the deploy invariant reads.                                         *)
LEMMA DeployFrame ==
    ASSUME DeployInv, UNCHANGED <<cur, nodes, mux, pc, mode, ws, flows, flowsLeft, def, lw, lt>>
    PROVE  DeployInv'
  <1>1. Steps' /\ Settled'
    BY DEF DeployInv, Steps, Settled, Wired, Shows, RunsAs, Complete, NodeIds, Partial
  <1>2. (Busy /\ Partial => Shows(cur))'
    BY DEF DeployInv, Shows, RunsAs, Busy, Partial
  <1>3. FlowsJob'
    BY DEF DeployInv, FlowsJob, Covers, Diff, Spared, Complete, NodeIds, Busy
  <1>4. NodesJob'
    BY DEF DeployInv, NodesJob, Complete, NodeIds, Busy, toStop, NodesDiff
  <1> QED
    BY <1>1, <1>2, <1>3, <1>4 DEF DeployInv

(* The steps that neither enter nor remove an object.                       *)
LEMMA QuietSteps ==
    ASSUME DeployInv,
           \/ \E p \in Ptr : TriggerNode(p) \/ OwnStep(p) \/ StopInstance(p) \/ StartNode(p)
           \/ \E p \in Ptr, k \in Loop : LoopStep(p, k) \/ LoopExit(p, k)
           \/ Start
    PROVE  UNCHANGED <<cur, nodes, mux, pc, mode, ws, flows, flowsLeft, def, lw, lt>>
  <1>1. ASSUME NEW p \in Ptr, TriggerNode(p) \/ StopInstance(p) \/ StartNode(p)
        PROVE  UNCHANGED <<cur, nodes, mux, pc, mode, ws, flows, flowsLeft, def, lw, lt>>
    BY <1>1 DEF TriggerNode, StopInstance, StartNode, jobVars
  <1>2. ASSUME NEW p \in Ptr, OwnStep(p)
        PROVE  UNCHANGED <<cur, nodes, mux, pc, mode, ws, flows, flowsLeft, def, lw, lt>>
    BY <1>2 DEF OwnStep, SourceEmit, SourceSend, HandlerEnter, HandlerSend,
       TimerEnter, TimerSend, jobVars, objVars
  <1>3. ASSUME NEW p \in Ptr, NEW k \in Loop, LoopStep(p, k) \/ LoopExit(p, k)
        PROVE  UNCHANGED <<cur, nodes, mux, pc, mode, ws, flows, flowsLeft, def, lw, lt>>
    BY <1>3 DEF LoopStep, LoopReceive, LoopRoute, LoopSend, LoopExit, jobVars, objVars
  <1>4. CASE Start
    BY <1>4 DEF Start, jobVars, objVars
  <1> QED
    BY <1>1, <1>2, <1>3, <1>4

LEMMA DeployStop == ASSUME TypeInv, DeployInv, Stop PROVE DeployInv'
  <1>1. /\ pc = "idle" /\ mode' = "stop"
        /\ UNCHANGED <<nodes, mux, cur, ws, flows, flowsLeft, def, lw, lt>>
        /\ pc' \in {"halt", "down"} /\ (pc' = "down" => nodes = {})
    BY DEF Stop, BeginStopAll, objVars
  <1> QED
    BY <1>1 DEF DeployInv, Steps, Settled, FlowsJob, NodesJob, Busy, Partial

LEMMA DeployFull ==
    ASSUME TypeInv, DeployInv, NEW w \in Workspaces, NEW m \in Modes, Deploy(w, m),
           deployFull(w)
    PROVE  DeployInv'
  <1>1. /\ pc = "idle" /\ mode' = "full"
        /\ UNCHANGED <<nodes, mux, cur, flows, flowsLeft, def, lw, lt>>
        /\ pc' \in {"halt", "configs"} /\ (pc' = "configs" => nodes = {})
    BY DEF Deploy, deployFull, BeginStopAll, objVars
  <1> QED
    BY <1>1 DEF DeployInv, Steps, Settled, FlowsJob, NodesJob, Busy, Partial

LEMMA DeployNothing ==
    ASSUME TypeInv, DeployInv, NEW w \in Workspaces, NEW m \in Modes, Deploy(w, m),
           cur # NoWs, nothingToDeploy(w)
    PROVE  DeployInv'
  <1>1. /\ pc = "idle" /\ cur \in Workspaces /\ cur' = w
        /\ UNCHANGED <<nodes, mux, pc, mode, ws, flows, flowsLeft, def, lw, lt>>
        /\ IsEmpty(DiffWorkspaces(cur, w))
    BY DEF Deploy, nothingToDeploy, jobVars, objVars, TypeInv, TypeOK
  <1>2. /\ DOMAIN cur.nodes = DOMAIN w.nodes
        /\ Enabled(cur) = Enabled(w)
        /\ \A n \in DOMAIN cur.nodes : /\ cur.nodes[n].flow = w.nodes[n].flow
                                       /\ ~nodeChanged(cur.nodes[n], w.nodes[n])
    BY <1>1, EmptySame
  <1>3. Shows(cur) /\ Complete(Enabled(cur))
    BY <1>1 DEF DeployInv, Settled
  <1>4. Complete(Enabled(cur))'
    BY <1>1, <1>2, <1>3 DEF Complete, NodeIds
  <1>5. Shows(cur)'
    <2> SUFFICES ASSUME NEW p \in nodes PROVE RunsAs(p, w)'
      BY <1>1 DEF Shows
    <2>1. RunsAs(p, cur)
      BY <1>3 DEF Shows
    <2>2. /\ p[1] \in DOMAIN w.nodes
          /\ cur.nodes[p[1]].flow = w.nodes[p[1]].flow
          /\ cur.nodes[p[1]].disabled = w.nodes[p[1]].disabled
          /\ cur.nodes[p[1]].ver = w.nodes[p[1]].ver
          /\ cur.nodes[p[1]].ref = w.nodes[p[1]].ref
          /\ cur.nodes[p[1]].wires = w.nodes[p[1]].wires
      BY <1>2, <2>1, Unchanged DEF RunsAs
    <2> QED
      BY <1>1, <1>2, <2>1, <2>2 DEF RunsAs
  <1> QED
    BY <1>1, <1>4, <1>5 DEF DeployInv, Steps, Settled, Wired, FlowsJob, NodesJob, Busy, Partial

(* A partial deploy begins with the nodes of the workspace it replaces.     *)
LEMMA DeployPartial ==
    ASSUME TypeInv, DeployInv, NEW w \in Workspaces, NEW m \in Modes, Deploy(w, m),
           cur # NoWs, m # "full", deployModified(w, m)
    PROVE  DeployInv'
  <1>1. /\ pc = "idle" /\ pc' = "configs" /\ mode' = m /\ m \in {"flows", "nodes"}
        /\ cur \in Workspaces /\ ws' = w
        /\ UNCHANGED <<nodes, mux, cur, def, lw, lt>>
        /\ flowsLeft' = flows'
    BY EngineAssumption DEF Deploy, deployModified, objVars, TypeInv, TypeOK
  <1>2. Shows(cur) /\ Complete(Enabled(cur))
    BY <1>1 DEF DeployInv, Settled
  <1>3. Shows(cur)'
    BY <1>1, <1>2 DEF Shows, RunsAs
  <1>4. Complete(Spared)' /\ Complete(Enabled(cur) \ toStop)'
    <2>1. \A S \in SUBSET Enabled(cur) : Faithful => S \ NodeIds \subseteq Flaky
      BY <1>2 DEF Complete
    <2>2. Spared' \subseteq Enabled(cur) /\ (Enabled(cur) \ toStop)' \subseteq Enabled(cur)
      BY <1>1 DEF Spared, Enabled
    <2>3. NodeIds' = NodeIds
      BY <1>1 DEF NodeIds
    <2> QED
      BY <2>1, <2>2, <2>3 DEF Complete
  <1>5. mode' = "flows" => Covers'
    <2> SUFFICES ASSUME m = "flows" PROVE Covers'
      BY <1>1
    <2> DEFINE d == DiffWorkspaces(cur, w)
    <2>1. flows' = AffectedFlows(d, w, RunningFlow)
      BY DEF deployModified
    <2>2. ExpandConfigDependents(d, w).modifiedNodes
             = d.modifiedNodes \cup (ConfigDependents(d, w) \ d.addedNodes)
      BY DiffFields
    <2>3. Diff' = d
      BY <1>1 DEF Diff
    <2> HIDE DEF d
    <2>4. d.removedFlows \cup d.modifiedFlows \cup d.addedFlows \subseteq flows'
      BY <2>1 DEF AffectedFlows
    <2>5. ASSUME NEW n \in ConfigDependents(d, w) \ d.addedNodes
          PROVE  w.nodes[n].flow \in flows'
      <3>1. /\ n \in DOMAIN w.nodes /\ d.modifiedConfigs # {}
            /\ n \in ExpandConfigDependents(d, w).modifiedNodes
        BY <2>2 DEF ConfigDependents
      <3> QED
        BY <2>1, <3>1 DEF AffectedFlows
    <2> QED
      BY <1>1, <2>3, <2>4, <2>5 DEF Covers
  <1>6. Steps'
    BY <1>1 DEF Steps, Partial
  <1>7. Settled'
    BY <1>1 DEF Settled
  <1> QED
    BY <1>1, <1>2, <1>3, <1>4, <1>5, <1>6, <1>7 DEF DeployInv, FlowsJob, NodesJob

LEMMA DeployDeploy ==
    ASSUME TypeInv, DeployInv, NEW w \in Workspaces, NEW m \in Modes, Deploy(w, m)
    PROVE  DeployInv'
  BY DeployFull, DeployNothing, DeployPartial DEF Deploy

LEMMA DeployConfigsStep == ASSUME TypeInv, DeployInv, DeployConfigs PROVE DeployInv'
  <1>1. /\ pc = "configs"
        /\ UNCHANGED <<nodes, mux, cur, ws, mode, flows, flowsLeft, def, lw, lt>>
        /\ mode \in {"full", "flows", "nodes"}
        /\ mode = "full" => pc' = "build"
        /\ mode = "flows" => pc' = "pick"
        /\ mode = "nodes" => pc' = "detach"
    BY DEF DeployConfigs, TypeInv, JobOK
  <1>2. Steps' /\ Settled'
    BY <1>1 DEF DeployInv, Steps, Settled, Partial
  <1>3. (Busy /\ Partial => Shows(cur))'
    BY <1>1 DEF DeployInv, Shows, RunsAs, Busy, Partial
  <1>4. FlowsJob'
    BY <1>1 DEF DeployInv, FlowsJob, Covers, Diff, Spared, Complete, NodeIds, Busy
  <1>5. NodesJob'
    BY <1>1 DEF DeployInv, NodesJob, Complete, NodeIds, Busy, toStop, NodesDiff
  <1> QED
    BY <1>2, <1>3, <1>4, <1>5 DEF DeployInv

LEMMA DeployStopFlow ==
    ASSUME "flows" \in Modes => Faithful,
           TypeInv, DeployInv, NEW f \in FlowID, stopNodesInFlow(f)
    PROVE  DeployInv'
  <1>1. /\ pc = "pick" /\ mode = "flows" /\ f \in flowsLeft /\ flowsLeft' = flowsLeft \ {f}
        /\ UNCHANGED <<cur, ws, mode, flows, def>>
        /\ pc' \in {"halt", "pick"} /\ lw' = lw
        /\ nodes' = {p \in nodes : def[p].flow # f}
    BY DEF stopNodesInFlow, detach, wireAllNodes, DeployInv, Steps
  <1>2. /\ Faithful /\ Shows(cur) /\ Covers /\ Complete(Spared) /\ flowsLeft \subseteq flows
        /\ \A p \in nodes : def[p].flow \in flows => def[p].flow \in flowsLeft
    BY <1>1 DEF DeployInv, Steps, Partial, Busy, FlowsJob
  <1>3. Steps' /\ Settled'
    BY <1>1 DEF DeployInv, Steps, Settled, Partial
  <1>4. Shows(cur)'
    BY <1>1, <1>2 DEF Shows, RunsAs
  <1>5. Covers' /\ Spared' = Spared
    BY <1>1, <1>2 DEF Covers, Diff, Spared
  <1>6. Complete(Spared)'
    <2>2. ASSUME NEW n \in Spared, n \in NodeIds
          PROVE  n \in NodeIds'
      <3>1. PICK p \in nodes : p[1] = n
        BY <2>2 DEF NodeIds
      <3>2. def[p].flow = cur.nodes[n].flow /\ cur.nodes[n].flow \notin flows
        BY <1>2, <3>1 DEF Shows, RunsAs, Spared
      <3>3. f \in flows
        BY <1>1, <1>2
      <3> QED
        BY <1>1, <3>1, <3>2, <3>3 DEF NodeIds
    <2> QED
      BY <1>2, <1>5, <2>2 DEF Complete
  <1>7. \A p \in nodes' : def'[p].flow \in flows' => def'[p].flow \in flowsLeft'
    BY <1>1, <1>2
  <1> QED
    BY <1>1, <1>2, <1>3, <1>4, <1>5, <1>6, <1>7 DEF DeployInv, FlowsJob, NodesJob

LEMMA DeployAllFlowsStopped ==
    ASSUME TypeInv, DeployInv, AllFlowsStopped PROVE DeployInv'
  <1>1. /\ pc = "pick" /\ mode = "flows" /\ flowsLeft = {} /\ pc' = "build"
        /\ UNCHANGED <<cur, nodes, mux, mode, ws, flows, flowsLeft, def, lw, lt>>
    BY DEF AllFlowsStopped, objVars, DeployInv, Steps
  <1>2. /\ Shows(cur) /\ Covers /\ Complete(Spared)
        /\ \A p \in nodes : def[p].flow \notin flows
    BY <1>1 DEF DeployInv, Partial, Busy, FlowsJob
  <1>3. Steps' /\ Settled'
    BY <1>1 DEF DeployInv, Steps, Settled, Partial
  <1>4. Shows(cur)'
    BY <1>1, <1>2 DEF Shows, RunsAs
  <1>5. Covers' /\ Complete(Spared)'
    BY <1>1, <1>2 DEF Covers, Diff, Spared, Complete, NodeIds
  <1> QED
    BY <1>1, <1>2, <1>3, <1>4, <1>5 DEF DeployInv, FlowsJob, NodesJob

LEMMA DeployDetachModified ==
    ASSUME TypeInv, DeployInv, DetachModified PROVE DeployInv'
  <1>1. /\ pc = "detach" /\ mode = "nodes" /\ UNCHANGED <<cur, mode, ws, flows, def>>
        /\ pc' \in {"halt", "build"} /\ lw' = lw
        /\ nodes' = {p \in nodes : p[1] \notin toStop}
    BY DEF DetachModified, detach, wireAllNodes, DeployInv, Steps
  <1>2. Shows(cur) /\ Complete(Enabled(cur) \ toStop)
    BY <1>1 DEF DeployInv, Partial, Busy, NodesJob
  <1>3. Steps' /\ Settled'
    BY <1>1 DEF DeployInv, Steps, Settled, Partial
  <1>4. Shows(cur)'
    BY <1>1, <1>2 DEF Shows, RunsAs
  <1>5. toStop' = toStop
    BY <1>1 DEF toStop, NodesDiff
  <1>6. Complete(Enabled(cur) \ toStop)'
    <2>1. ASSUME NEW n \in Enabled(cur) \ toStop, n \in NodeIds
          PROVE  n \in NodeIds'
      BY <1>1, <2>1 DEF NodeIds
    <2> QED
      BY <1>1, <1>2, <1>5, <2>1 DEF Complete
  <1>7. NodeIds' \cap toStop' = {}
    BY <1>1, <1>5 DEF NodeIds
  <1> QED
    BY <1>1, <1>3, <1>4, <1>6, <1>7 DEF DeployInv, FlowsJob, NodesJob

LEMMA DeploySignalStop ==
    ASSUME TypeInv, DeployInv, SignalStop PROVE DeployInv'
  <1>1. /\ pc = "halt" /\ pc' = "await"
        /\ UNCHANGED <<cur, nodes, mux, mode, ws, flows, flowsLeft, def, lw, lt>>
    BY DEF SignalStop
  <1>2. Steps' /\ Settled'
    BY <1>1 DEF DeployInv, Steps, Settled, Partial
  <1>3. (Busy /\ Partial => Shows(cur))'
    BY <1>1 DEF DeployInv, Shows, RunsAs, Busy, Partial
  <1>4. FlowsJob'
    BY <1>1 DEF DeployInv, FlowsJob, Covers, Diff, Spared, Complete, NodeIds, Busy
  <1>5. NodesJob'
    BY <1>1 DEF DeployInv, NodesJob, Complete, NodeIds, Busy, toStop, NodesDiff
  <1> QED
    BY <1>2, <1>3, <1>4, <1>5 DEF DeployInv

LEMMA DeployCloseInputs ==
    ASSUME TypeInv, DeployInv, CloseInputs PROVE DeployInv'
  <1>0. /\ pc = "await"
        /\ UNCHANGED <<cur, mux, mode, ws, flows, flowsLeft, def, lw, lt>>
    BY DEF CloseInputs
  <1>1. CASE mode \in {"full", "stop"}
    <2>1. nodes' = {} /\ pc' \in {"configs", "down"}
      BY <1>1 DEF CloseInputs
    <2> QED
      BY <1>0, <1>1, <2>1 DEF DeployInv, Steps, Settled, FlowsJob, NodesJob, Partial
  <1>2. CASE mode \in {"flows", "nodes"}
    <2>1. /\ nodes' = nodes
          /\ mode = "flows" => pc' = "pick"
          /\ mode = "nodes" => pc' = "build"
      BY <1>2 DEF CloseInputs
    <2>2. Steps' /\ Settled'
      BY <1>0, <1>2, <2>1 DEF DeployInv, Steps, Settled, Partial
    <2>3. (Busy /\ Partial => Shows(cur))'
      BY <1>0, <1>2, <2>1 DEF DeployInv, Shows, RunsAs, Busy, Partial
    <2>4. FlowsJob'
      BY <1>0, <1>2, <2>1 DEF DeployInv, FlowsJob, Covers, Diff, Spared, Complete, NodeIds, Busy
    <2>5. NodesJob'
      BY <1>0, <1>2, <2>1 DEF DeployInv, NodesJob, Complete, NodeIds, Busy, toStop, NodesDiff
    <2> QED
      BY <2>2, <2>3, <2>4, <2>5 DEF DeployInv
  <1> QED
    BY <1>1, <1>2 DEF TypeInv, TypeOK

LEMMA DeployStopEngine ==
    ASSUME TypeInv, DeployInv, StopEngine PROVE DeployInv'
  <1>1. pc = "down" /\ nodes = {}
    BY DEF StopEngine, DeployInv, Steps, Partial, TypeInv, JobOK
  <1>2. /\ pc' = "idle" /\ cur' = NoWs /\ mux' = {} /\ nodes' = {} /\ mode' = mode
    BY <1>1 DEF StopEngine
  <1> QED
    BY <1>2 DEF DeployInv, Steps, Settled, Wired, FlowsJob, NodesJob, Partial, Busy

LEMMA DeployFinish ==
    ASSUME TypeInv, DeployInv, FinishDeploy PROVE DeployInv'
  <1>1. /\ pc = "start" /\ pc' = "idle" /\ cur' = ws
        /\ UNCHANGED <<nodes, mode, ws, flows, flowsLeft, def, lw, lt>>
        /\ mux' = {p \in nodes : p[1] \in HttpIn}
    BY DEF FinishDeploy, objVars, rebuildHTTPMux
  <1>2. Shows(ws) /\ Complete(Enabled(ws)) /\ Wired
    BY <1>1 DEF DeployInv, Settled
  <1>3. Shows(cur)'
    BY <1>1, <1>2 DEF Shows, RunsAs
  <1>4. Complete(Enabled(cur))'
    BY <1>1, <1>2 DEF Complete, NodeIds
  <1>5. Wired'
    BY <1>1, <1>2 DEF Wired
  <1>6. Steps'
    BY <1>1 DEF DeployInv, Steps, Partial
  <1> QED
    BY <1>1, <1>3, <1>4, <1>5, <1>6 DEF DeployInv, Settled, FlowsJob, NodesJob, Busy

(* An object that is still there when the new ones are built runs its node  *)
(* as the new workspace defines it, and its config node stays as it is.     *)
LEMMA KeptRuns ==
    ASSUME "flows" \in Modes => Faithful,
           TypeInv, DeployInv, pc = "build", NEW p \in nodes
    PROVE  /\ RunsAs(p, ws)
           /\ def[p].ref \notin Diff.modifiedConfigs
           /\ p[1] \in DOMAIN cur.nodes
           /\ mode = "nodes" => p[1] \notin toStop
  <1>1. /\ Partial /\ mode \in Modes /\ cur \in Workspaces /\ ws \in Workspaces
        /\ RunsAs(p, cur)
    BY DEF DeployInv, Steps, Partial, Busy, Shows, TypeInv, JobOK
  <1> DEFINE n == p[1]
  <1>2. CASE mode = "flows"
    <2>1. Faithful /\ Covers /\ def[p].flow \notin flows
      BY <1>1, <1>2 DEF DeployInv, FlowsJob, Busy
    <2>2. PICK f \in DOMAIN cur.flows : cur.nodes[n].flow = f
      BY <1>1, EngineAssumption DEF IsWorkspace, RunsAs
    <2>3. f \notin flows /\ n \in NodesOf(cur, f)
      BY <1>1, <2>1, <2>2 DEF RunsAs, NodesOf
    <2>4. f \in DOMAIN ws.flows /\ ~flowChanged(cur, ws, f)
      <3>1. /\ Diff.removedFlows = DOMAIN cur.flows \ DOMAIN ws.flows
            /\ Diff.modifiedFlows = {x \in DOMAIN cur.flows \cap DOMAIN ws.flows :
                                        flowChanged(cur, ws, x)}
        BY DiffFields DEF Diff
      <3> QED
        BY <2>1, <2>3, <3>1 DEF Covers
    <2>5. /\ n \in DOMAIN cur.nodes /\ n \in DOMAIN ws.nodes
          /\ cur.nodes[n].flow = f /\ ws.nodes[n].flow = f
          /\ ~nodeChanged(cur.nodes[n], ws.nodes[n])
          /\ n \in Enabled(cur) <=> n \in Enabled(ws)
      BY <1>1, <2>3, <2>4, KeptFlow
    <2>6. /\ cur.nodes[n].disabled = ws.nodes[n].disabled
          /\ cur.nodes[n].ver = ws.nodes[n].ver
          /\ cur.nodes[n].ref = ws.nodes[n].ref
          /\ cur.nodes[n].wires = ws.nodes[n].wires
      BY <2>5, Unchanged
    <2>7. RunsAs(p, ws)
      BY <1>1, <2>5, <2>6 DEF RunsAs
    <2>8. def[p].ref \notin Diff.modifiedConfigs
      <3>1. Diff.addedNodes = DOMAIN ws.nodes \ DOMAIN cur.nodes
        BY DiffFields DEF Diff
      <3>2. n \notin ConfigDependents(Diff, ws)
        BY <2>1, <2>3, <2>5, <3>1 DEF Covers
      <3> QED
        BY <2>5, <2>7, <3>2 DEF ConfigDependents, RunsAs
    <2> QED
      BY <1>2, <2>5, <2>7, <2>8
  <1>3. CASE mode = "nodes"
    <2>1. n \notin toStop
      BY <1>3 DEF DeployInv, NodesJob, Busy, NodeIds
    <2>2. n \in DOMAIN cur.nodes
      BY <1>1 DEF RunsAs
    <2>3. /\ n \in DOMAIN ws.nodes
          /\ ~nodeChanged(cur.nodes[n], ws.nodes[n])
          /\ ws.nodes[n].ref \notin Diff.modifiedConfigs
      BY <1>1, <2>1, <2>2, KeptNode DEF toStop, NodesDiff, Diff
    <2>4. /\ cur.nodes[n].disabled = ws.nodes[n].disabled
          /\ cur.nodes[n].ver = ws.nodes[n].ver
          /\ cur.nodes[n].ref = ws.nodes[n].ref
          /\ cur.nodes[n].wires = ws.nodes[n].wires
      BY <2>3, Unchanged
    <2>5. Faithful => cur.nodes[n].flow = ws.nodes[n].flow
                      /\ ~ws.flows[ws.nodes[n].flow].disabled
      BY <1>1, <1>3, <2>2, <2>3 DEF Faithful, TabsStay
    <2>6. RunsAs(p, ws)
      BY <1>1, <2>3, <2>4, <2>5 DEF RunsAs, Enabled
    <2> QED
      BY <2>1, <2>2, <2>3, <2>6 DEF RunsAs
  <1> QED
    BY <1>1, <1>2, <1>3 DEF Partial

(* An enabled node that is neither there nor to be built could not be       *)
(* created before.                                                          *)
LEMMA MissingFlaky ==
    ASSUME "flows" \in Modes => Faithful, Faithful,
           TypeInv, DeployInv, pc = "build",
           NEW n \in Enabled(ws), n \notin NodeIds, n \notin Wanted
    PROVE  n \in Flaky
  <1>1. /\ ws \in Workspaces /\ mode \in {"full", "flows", "nodes"}
        /\ mode # "full" => cur \in Workspaces /\ mode \in Modes
    BY DEF TypeInv, JobOK, DeployInv, Steps, Partial
  <1>2. n \in DOMAIN ws.nodes /\ ~ws.nodes[n].disabled
    BY DEF Enabled
  <1>3. CASE mode = "full"
    BY <1>3 DEF Wanted
  <1>4. CASE mode = "flows"
    <2>1. Covers /\ Complete(Spared)
      BY <1>4 DEF DeployInv, FlowsJob, Busy
    <2>2. ws.nodes[n].flow \notin flows
      BY <1>4 DEF Wanted
    <2>3. PICK f \in DOMAIN ws.flows : ws.nodes[n].flow = f
      BY <1>1, <1>2, EngineAssumption DEF IsWorkspace
    <2>4. f \in DOMAIN cur.flows /\ ~flowChanged(cur, ws, f)
      <3>1. /\ Diff.addedFlows = DOMAIN ws.flows \ DOMAIN cur.flows
            /\ Diff.modifiedFlows = {x \in DOMAIN cur.flows \cap DOMAIN ws.flows :
                                        flowChanged(cur, ws, x)}
        BY DiffFields DEF Diff
      <3> QED
        BY <2>1, <2>2, <2>3, <3>1 DEF Covers
    <2>5. /\ NodesOf(cur, f) = NodesOf(ws, f)
          /\ \A x \in NodesOf(cur, f) :
               cur.nodes[x].flow = f /\ (x \in Enabled(cur) <=> x \in Enabled(ws))
      BY <1>1, <1>4, <2>4, KeptFlow
    <2>6. n \in NodesOf(ws, f)
      BY <1>2, <2>3 DEF NodesOf
    <2>7. n \in Spared
      BY <2>2, <2>3, <2>5, <2>6 DEF Spared
    <2> QED
      BY <2>1, <2>7 DEF Complete
  <1>5. CASE mode = "nodes"
    <2>1. Complete(Enabled(cur) \ toStop)
      BY <1>5 DEF DeployInv, NodesJob, Busy
    <2>2. n \notin NodesDiff.modifiedNodes /\ n \notin NodesDiff.addedNodes
      BY <1>2, <1>5 DEF Wanted, Restart
    <2>3. /\ NodesDiff.addedNodes = DOMAIN ws.nodes \ DOMAIN cur.nodes
          /\ NodesDiff.removedNodes = DOMAIN cur.nodes \ DOMAIN ws.nodes
      BY DiffFields DEF NodesDiff
    <2>4. n \in DOMAIN cur.nodes /\ n \notin NodesDiff.removedNodes
      BY <1>2, <2>2, <2>3
    <2>5. ~nodeChanged(cur.nodes[n], ws.nodes[n])
      BY <1>1, <1>5, <2>2, <2>4, KeptNode DEF NodesDiff
    <2>6. ~cur.nodes[n].disabled
      BY <1>2, <2>5, Unchanged
    <2>7. ~cur.flows[cur.nodes[n].flow].disabled
      BY <1>1, <1>5, <2>4 DEF Faithful, TabsStay
    <2>8. n \in Enabled(cur) /\ n \notin toStop
      BY <2>2, <2>4, <2>6, <2>7 DEF Enabled, toStop
    <2> QED
      BY <2>1, <2>8 DEF Complete
  <1> QED
    BY <1>1, <1>3, <1>4, <1>5

LEMMA WantedRuns ==
    ASSUME TypeInv, DeployInv, pc = "build", NEW n \in Wanted
    PROVE  n \in DOMAIN ws.nodes /\ ~ws.nodes[n].disabled /\ (Faithful => n \in Enabled(ws))
  <1>1. /\ ws \in Workspaces /\ mode \in {"full", "flows", "nodes"}
        /\ mode # "full" => mode \in Modes
    BY DEF TypeInv, JobOK, DeployInv, Steps, Partial
  <1>2. CASE mode \in {"full", "flows"}
    BY <1>2 DEF Wanted, Enabled
  <1>3. CASE mode = "nodes"
    <2>1. n \in DOMAIN ws.nodes /\ ~ws.nodes[n].disabled
      BY <1>3 DEF Wanted
    <2> QED
      BY <1>1, <1>3, <2>1 DEF Faithful, TabsStay, Enabled
  <1> QED
    BY <1>1, <1>2, <1>3

LEMMA DeployBuild ==
    ASSUME "flows" \in Modes => Faithful, TypeInv, DeployInv, Build
    PROVE  DeployInv'
  <1>1. PICK new : IsNew(new)
    BY BuildParts
  <1>2. /\ pc = "build" /\ pc' = "start" /\ ws' = ws /\ mode' = mode
        /\ ws \in Workspaces /\ nodes \subseteq Ptr /\ new \subseteq Ptr
        /\ nodes' = Entered(new) /\ lw' = NewWires(new)
        /\ def' = [p \in Ptr |-> IF p \in new THEN ws.nodes[p[1]] ELSE def[p]]
        /\ lt' = [p \in Ptr |-> IF p \in Entered(new)
                                THEN {t \in Entered(new) : t[1] \in NewWires(new)[p]} ELSE lt[p]]
    BY <1>1 DEF Build, IsNew, instantiate, wireAllNodes, TypeInv, TypeOK, JobOK
  <1>3. Wired'
    <2>1. nodes' \subseteq Ptr
      BY <1>2 DEF Entered
    <2> QED
      BY <1>2, <2>1 DEF Wired
  <1>4. Shows(ws)'
    <2> SUFFICES ASSUME NEW p \in nodes' PROVE RunsAs(p, ws)'
      BY DEF Shows
    <2>1. p \in Ptr /\ (p \in new \/ (p \in nodes /\ p \notin new))
      BY <1>2 DEF Entered
    <2>2. CASE p \in new
      <3>1. p[1] \in Wanted
        BY <1>1, <2>2 DEF IsNew
      <3>2. /\ p[1] \in DOMAIN ws.nodes /\ ~ws.nodes[p[1]].disabled
            /\ Faithful => p[1] \in Enabled(ws)
        BY <1>2, <3>1, WantedRuns
      <3>3. def'[p] = ws.nodes[p[1]] /\ lw'[p] = ws.nodes[p[1]].wires
        BY <1>2, <2>1, <2>2 DEF NewWires
      <3> QED
        BY <1>2, <3>2, <3>3 DEF RunsAs
    <2>3. CASE p \in nodes /\ p \notin new
      <3>1. RunsAs(p, ws)
        BY <1>2, <2>3, KeptRuns
      <3>2. def'[p] = def[p] /\ lw'[p] = ws.nodes[p[1]].wires
        BY <1>2, <2>1, <2>3, <3>1 DEF NewWires, RunsAs
      <3> QED
        BY <1>2, <3>1, <3>2 DEF RunsAs
    <2> QED
      BY <2>1, <2>2, <2>3
  <1>5. Complete(Enabled(ws))'
    <2> SUFFICES ASSUME Faithful, NEW n \in Enabled(ws), n \notin NodeIds'
                 PROVE  n \in Flaky
      BY <1>2 DEF Complete
    <2>1. n \notin NodeIds
      <3> SUFFICES ASSUME NEW p \in nodes, p[1] = n PROVE FALSE
        BY DEF NodeIds
      <3>1. p \notin Entered(new)
        BY <1>2 DEF NodeIds
      <3>2. PICK q \in new : q[1] = n
        BY <3>1 DEF Entered
      <3> QED
        BY <1>2, <3>2 DEF NodeIds, Entered
    <2>2. CASE n \in Wanted
      <3>1. n \notin {q[1] : q \in new}
        BY <1>2 DEF NodeIds, Entered
      <3> QED
        BY <1>1, <2>2, <3>1 DEF IsNew
    <2>3. CASE n \notin Wanted
      BY <1>2, <2>1, <2>3, MissingFlaky
    <2> QED
      BY <2>2, <2>3
  <1>6. Steps'
    BY <1>2 DEF DeployInv, Steps, Partial
  <1> QED
    BY <1>2, <1>3, <1>4, <1>5, <1>6 DEF DeployInv, Settled, FlowsJob, NodesJob, Busy

LEMMA DeployNext ==
    ASSUME "flows" \in Modes => Faithful, TypeInv, DeployInv, [Next]_vars
    PROVE  DeployInv'
  <1>1. CASE Operation
    BY <1>1, QuietSteps, DeployFrame, DeployStop, DeployDeploy DEF Operation
  <1>2. CASE EngineStep
    BY <1>2, DeployConfigsStep, DeployStopFlow, DeployAllFlowsStopped, DeployDetachModified,
       DeploySignalStop, DeployCloseInputs, DeployStopEngine, DeployBuild, QuietSteps,
       DeployFrame, DeployFinish DEF EngineStep
  <1>3. CASE \E p \in Ptr : StopInstance(p) \/ OwnStep(p)
    BY <1>3, QuietSteps, DeployFrame
  <1>4. CASE \E p \in Ptr, k \in Loop : LoopExit(p, k) \/ LoopStep(p, k)
    BY <1>4, QuietSteps, DeployFrame
  <1>5. CASE UNCHANGED vars
    BY <1>5, DeployFrame DEF vars, jobVars, objVars
  <1> QED
    BY <1>1, <1>2, <1>3, <1>4, <1>5 DEF Next

LEMMA DeployAlways ==
    ASSUME "flows" \in Modes => Faithful
    PROVE  Safety => [](TypeInv /\ DeployInv)
  <1>1. TypeInv /\ DeployInv /\ [Next]_vars => (TypeInv /\ DeployInv)'
    BY TypeNext, DeployNext
  <1> QED
    BY <1>1, InitType, InitDeploy, PTL DEF Safety

(* Between two operations the engine is what a fresh start of the deployed   *)
(* workspace would be: whatever sequence of full and partial deploys led to  *)
(* it, however a deploy interleaves with routing, and whichever nodes failed *)
(* to be created, the nodes that run are the enabled ones, as the workspace  *)
(* defines them, wired to the running objects their wires name, with the     *)
(* routes of the running http-in nodes (Engine.Deploy).  Where "nodes"       *)
(* deploys are in use this takes workspaces whose nodes stay on their tabs   *)
(* and lie on no disabled tab: such a deploy looks at neither.               *)
THEOREM DeploysFaithfully ==
    ASSUME "nodes" \in Modes => TabsStay PROVE Safety => []RunsWhatWasDeployed
  <1>1. Faithful
    BY DEF Faithful
  <1>2. TypeInv /\ DeployInv => RunsWhatWasDeployed
    <2> SUFFICES ASSUME TypeInv, DeployInv PROVE RunsWhatWasDeployed
      OBVIOUS
    <2>1. RunningMatchesWorkspace
      <3> SUFFICES ASSUME pc = "idle", cur # NoWs
                   PROVE  /\ NodeIds \subseteq Enabled(cur)
                          /\ Enabled(cur) \ NodeIds \subseteq Flaky
                          /\ \A p \in nodes : Same(def[p], cur.nodes[p[1]])
        BY DEF RunningMatchesWorkspace, NodeIds
      <3>1. Shows(cur) /\ Complete(Enabled(cur))
        BY DEF DeployInv, Settled
      <3> QED
        BY <1>1, <3>1 DEF Shows, RunsAs, Complete, Same, NodeIds
    <2>2. RoutingIsCurrent
      <3> SUFFICES ASSUME pc = "idle", cur # NoWs, NEW p \in nodes
                   PROVE  lt[p] = {t \in nodes : t[1] \in cur.nodes[p[1]].wires}
        BY DEF RoutingIsCurrent
      <3>1. Shows(cur) /\ Wired
        BY DEF DeployInv, Settled
      <3> QED
        BY <3>1 DEF Shows, RunsAs, Wired
    <2>3. RoutesAreCurrent
      BY DEF RoutesAreCurrent, DeployInv, Settled
    <2> QED
      BY <2>1, <2>2, <2>3 DEF RunsWhatWasDeployed
  <1> QED
    BY <1>1, <1>2, DeployAlways, PTL
-----------------------------------------------------------------------------
(* While a partial deploy is under way only users of config nodes that it   *)
(* removes or modifies hold a stopped instance.                             *)
HeldFresh ==
    \A p \in nodes : held[p] = "stopped" =>
        Busy /\ Partial /\ def[p].ref \in Diff.removedConfigs \cup Diff.modifiedConfigs

LEMMA HeldFrame ==
    ASSUME HeldFresh, nodes' \subseteq nodes,
           \A p \in nodes' : held'[p] = "stopped" => held[p] = "stopped",
           UNCHANGED <<cur, mode, ws, def>>, Busy => Busy'
    PROVE  HeldFresh'
  BY DEF HeldFresh, Partial, Diff

(* The steps of nodes and the engine's steps that only take objects out.    *)
LEMMA HeldQuiet ==
    ASSUME TypeInv, HeldFresh,
           \/ \E p \in Ptr : TriggerNode(p) \/ OwnStep(p) \/ StopInstance(p) \/ StartNode(p)
           \/ \E p \in Ptr, k \in Loop : LoopStep(p, k) \/ LoopExit(p, k)
           \/ Start
           \/ SignalStop
           \/ AllFlowsStopped
           \/ DetachModified
           \/ \E f \in FlowID : stopNodesInFlow(f)
    PROVE  HeldFresh'
  <1>0. nodes \subseteq Ptr /\ held \in [Ptr -> {"none", "live", "stopped"}]
    BY DEF TypeInv, TypeOK
  <1> DEFINE Goal == /\ nodes' \subseteq nodes
                     /\ \A p \in nodes' : held'[p] = "stopped" => held[p] = "stopped"
                     /\ UNCHANGED <<cur, mode, ws, def>>
                     /\ pc \in {"configs", "pick", "detach", "halt", "await", "build"}
                          => pc' \in {"configs", "pick", "detach", "halt", "await", "build"}
  <1>1. ASSUME NEW p \in Ptr, TriggerNode(p)
        PROVE  Goal
    BY <1>1 DEF TriggerNode, jobVars
  <1>2. ASSUME NEW p \in Ptr, StopInstance(p)
        PROVE  Goal
    BY <1>0, <1>2 DEF StopInstance
  <1>3. ASSUME NEW p \in Ptr, StartNode(p)
        PROVE  Goal
    <2>1. CASE StartOK(p)
      <3>1. held' = [held EXCEPT ![p] = IF def[p].ref = NoConfig THEN "none" ELSE "live"]
        BY <2>1 DEF StartOK
      <3>2. \A q \in Ptr : held'[q] = "stopped" => held[q] = "stopped"
        BY <1>0, <3>1
      <3> QED
        BY <1>0, <1>3, <3>2 DEF StartNode
    <2>2. CASE StartFails(p)
      BY <1>3, <2>2 DEF StartNode, StartFails
    <2> QED
      BY <1>3, <2>1, <2>2 DEF StartNode
  <1>4. ASSUME NEW p \in Ptr, OwnStep(p)
        PROVE  Goal
    BY <1>4 DEF OwnStep, SourceEmit, SourceSend, HandlerEnter, HandlerSend,
       TimerEnter, TimerSend, jobVars, objVars
  <1>5. ASSUME NEW p \in Ptr, NEW k \in Loop, LoopStep(p, k) \/ LoopExit(p, k)
        PROVE  Goal
    BY <1>5 DEF LoopStep, LoopReceive, LoopRoute, LoopSend, LoopExit, jobVars, objVars
  <1>6. ASSUME Start
        PROVE  Goal
    BY <1>6 DEF Start, jobVars, objVars
  <1>7. ASSUME SignalStop
        PROVE  Goal
    BY <1>7 DEF SignalStop
  <1>8. ASSUME AllFlowsStopped
        PROVE  Goal
    BY <1>8 DEF AllFlowsStopped, objVars
  <1>9. ASSUME DetachModified
        PROVE  Goal
    BY <1>9 DEF DetachModified, detach
  <1>10. ASSUME NEW f \in FlowID, stopNodesInFlow(f)
         PROVE  Goal
    BY <1>10 DEF stopNodesInFlow, detach
  <1>11. Goal
    BY <1>1, <1>2, <1>3, <1>4, <1>5, <1>6, <1>7, <1>8, <1>9, <1>10
  <1> QED
    BY <1>11, HeldFrame DEF Busy

LEMMA HeldNext ==
    ASSUME "flows" \in Modes => Faithful, RefsResolve,
           TypeInv, DeployInv, HeldFresh, [Next]_vars
    PROVE  HeldFresh'
  <1>0. nodes \subseteq Ptr /\ held \in [Ptr -> {"none", "live", "stopped"}]
    BY DEF TypeInv, TypeOK
  <1>1. CASE Stop \/ \E w \in Workspaces, m \in Modes : Deploy(w, m)
    <2>1. pc = "idle" /\ nodes' = nodes /\ held' = held
      BY <1>1 DEF Stop, Deploy, objVars
    <2> QED
      BY <2>1 DEF HeldFresh, Busy
  <1>2. CASE DeployConfigs
    <2> SUFFICES ASSUME NEW p \in nodes, held'[p] = "stopped"
                 PROVE  /\ Busy' /\ Partial'
                        /\ def[p].ref \in Diff.removedConfigs \cup Diff.modifiedConfigs
      BY <1>2 DEF HeldFresh, DeployConfigs, Diff
    <2>1. Partial /\ pc = "configs"
      BY <1>2 DEF DeployInv, Steps, DeployConfigs
    <2>2. Busy' /\ Partial'
      BY <1>2, <2>1 DEF DeployConfigs, Busy, Partial
    <2>3. CASE held[p] = "stopped"
      BY <2>2, <2>3 DEF HeldFresh
    <2>4. CASE held[p] # "stopped"
      <3>1. Pull((Diff.removedConfigs \cup Diff.modifiedConfigs) \cap cfgs)
        BY <1>2, <2>1 DEF DeployConfigs, Partial, Diff
      <3> QED
        BY <1>0, <2>2, <2>4, <3>1 DEF Pull
    <2> QED
      BY <2>3, <2>4
  <1>3. CASE CloseInputs
    <2>1. CASE mode \in {"full", "stop"}
      BY <1>3, <2>1 DEF CloseInputs, HeldFresh
    <2>2. CASE mode \in {"flows", "nodes"}
      <3>1. /\ UNCHANGED <<nodes, held, cur, mode, ws, def>>
            /\ pc' \in {"pick", "build"}
        BY <1>3, <2>2 DEF CloseInputs
      <3> QED
        BY <3>1, HeldFrame DEF Busy
    <2> QED
      BY <2>1, <2>2 DEF TypeInv, TypeOK
  <1>4. CASE StopEngine
    <2>1. nodes' = {}
      BY <1>4 DEF StopEngine, DeployInv, Steps, Partial, TypeInv, JobOK
    <2> QED
      BY <2>1 DEF HeldFresh
  <1>5. CASE Build
    <2>1. PICK new : IsNew(new)
      BY <1>5, BuildParts
    <2>2. /\ nodes' = Entered(new) /\ new \subseteq Ptr
          /\ held' = [p \in Ptr |-> IF p \in new THEN "none" ELSE held[p]]
      BY <2>1 DEF IsNew, instantiate
    <2> SUFFICES ASSUME NEW p \in nodes', held'[p] = "stopped" PROVE FALSE
      BY DEF HeldFresh
    <2>3. p \in nodes /\ held[p] = "stopped"
      BY <1>0, <2>2 DEF Entered
    <2>4. Partial /\ def[p].ref \in Diff.removedConfigs \cup Diff.modifiedConfigs
      BY <2>3 DEF HeldFresh
    <2>5. RunsAs(p, ws) /\ def[p].ref \notin Diff.modifiedConfigs
      BY <1>5, <2>3, KeptRuns DEF Build
    <2>6. /\ Diff.removedConfigs = DOMAIN cur.configs \ DOMAIN ws.configs
          /\ ws \in Workspaces /\ cur \in Workspaces
      BY <1>5, <2>4, DiffFields DEF Diff, Build, TypeInv, JobOK, Partial
    <2>7. def[p].ref \in DOMAIN ws.configs \cup {NoConfig}
      BY <2>5, <2>6 DEF RunsAs, RefsResolve
    <2>8. def[p].ref \in DOMAIN cur.configs /\ NoConfig \notin DOMAIN cur.configs
      BY <2>4, <2>5, <2>6, WorkspaceParts, EngineAssumption
    <2> QED
      BY <2>4, <2>5, <2>6, <2>7, <2>8
  <1>6. CASE FinishDeploy
    BY <1>6 DEF FinishDeploy, objVars, HeldFresh, Busy
  <1>7. CASE UNCHANGED vars
    BY <1>7, HeldFrame DEF vars, jobVars, objVars, Busy
  <1> QED
    BY <1>1, <1>2, <1>3, <1>4, <1>5, <1>6, <1>7, HeldQuiet
       DEF Next, Operation, EngineStep

(* Between two operations no running node holds a config instance that has  *)
(* been stopped, in every mix of deploy modes: applyConfigDiff stops the    *)
(* removed and the modified instances first, and the deploy then restarts   *)
(* every node that references one of them.  It takes workspaces whose       *)
(* references resolve, because a removed config node does not cascade, and, *)
(* where "flows" and "nodes" deploys are mixed, nodes that stay on their    *)
(* tabs.                                                                    *)
THEOREM ConfigsStayFresh ==
    ASSUME RefsResolve, {"flows", "nodes"} \subseteq Modes => TabsStay
    PROVE  Safety => []NoStaleConfig
  <1>1. "flows" \in Modes => Faithful
    BY DEF Faithful
  <1>2. Init => HeldFresh
    BY DEF Init, HeldFresh
  <1>3. TypeInv /\ DeployInv /\ HeldFresh /\ [Next]_vars => HeldFresh'
    BY <1>1, HeldNext
  <1>4. HeldFresh => NoStaleConfig
    BY DEF HeldFresh, NoStaleConfig, Busy
  <1> QED
    BY <1>1, <1>2, <1>3, <1>4, DeployAlways, PTL DEF Safety
-----------------------------------------------------------------------------
(* Only a full deploy or Stop tells an object to stop that is still in the  *)
(* map.                                                                     *)
NotToldToStop ==
    /\ \A p \in nodes : stop[p] => pc = "await" /\ ~Partial
    /\ pc \in {"halt", "await"} /\ Partial => nodes \cap batch = {}

LEMMA StopFrame ==
    ASSUME NotToldToStop, UNCHANGED <<nodes, stop, pc, mode, batch>>
    PROVE  NotToldToStop'
  BY DEF NotToldToStop, Partial

LEMMA StopNext ==
    ASSUME TypeInv, DeployInv, NotToldToStop, [Next]_vars
    PROVE  NotToldToStop'
  <1>0. nodes \subseteq Ptr /\ batch \subseteq Ptr /\ stop \in [Ptr -> BOOLEAN]
    BY DEF TypeInv, TypeOK
  <1>1. CASE \E p \in Ptr : TriggerNode(p) \/ StopInstance(p) \/ StartNode(p)
    BY <1>1, StopFrame DEF TriggerNode, StopInstance, StartNode, jobVars
  <1>2. CASE \E p \in Ptr : OwnStep(p)
    BY <1>2, StopFrame DEF OwnStep, SourceEmit, SourceSend, HandlerEnter, HandlerSend,
       TimerEnter, TimerSend,
       jobVars, objVars
  <1>3. CASE \E p \in Ptr, k \in Loop : LoopStep(p, k) \/ LoopExit(p, k)
    BY <1>3, StopFrame DEF LoopStep, LoopReceive, LoopRoute, LoopSend, LoopExit, jobVars,
       objVars
  <1>4. CASE Start
    BY <1>4, StopFrame DEF Start, jobVars, objVars
  <1>5. CASE Stop
    BY <1>5 DEF Stop, BeginStopAll, objVars, NotToldToStop, Partial
  <1>6. ASSUME NEW w \in Workspaces, NEW m \in Modes, Deploy(w, m)
        PROVE  NotToldToStop'
    <2>1. CASE deployFull(w)
      BY <1>6, <2>1 DEF Deploy, deployFull, BeginStopAll, objVars, NotToldToStop, Partial
    <2>2. CASE deployModified(w, m)
      BY <1>6, <2>2 DEF Deploy, deployModified, objVars, NotToldToStop
    <2>3. CASE nothingToDeploy(w)
      BY <1>6, <2>3, StopFrame DEF Deploy, nothingToDeploy, jobVars, objVars
    <2> QED
      BY <1>6, <2>1, <2>2, <2>3 DEF Deploy
  <1>7. CASE DeployConfigs
    <2>1. /\ pc = "configs" /\ pc' \in {"build", "pick", "detach"}
          /\ UNCHANGED <<nodes, stop>>
      BY <1>7 DEF DeployConfigs, TypeInv, JobOK
    <2> QED
      BY <2>1 DEF NotToldToStop
  <1>8. CASE AllFlowsStopped \/ FinishDeploy
    BY <1>8 DEF AllFlowsStopped, FinishDeploy, objVars, NotToldToStop
  <1>9. CASE DetachModified
    BY <1>9 DEF DetachModified, detach, NotToldToStop
  <1>10. ASSUME NEW f \in FlowID, stopNodesInFlow(f)
         PROVE  NotToldToStop'
    BY <1>10 DEF stopNodesInFlow, detach, NotToldToStop
  <1>11. CASE SignalStop
    <2>1. /\ pc = "halt" /\ pc' = "await" /\ UNCHANGED <<nodes, mode, batch>>
          /\ \A p \in Ptr : stop'[p] <=> p \in batch \/ stop[p]
      BY <1>11 DEF SignalStop
    <2> QED
      BY <1>0, <2>1 DEF NotToldToStop, Partial
  <1>12. CASE CloseInputs
    <2>1. CASE mode \in {"full", "stop"}
      BY <1>12, <2>1 DEF CloseInputs, NotToldToStop
    <2>2. CASE mode \in {"flows", "nodes"}
      BY <1>12, <2>2 DEF CloseInputs, NotToldToStop, Partial
    <2> QED
      BY <2>1, <2>2 DEF TypeInv, TypeOK
  <1>13. CASE StopEngine
    BY <1>13 DEF StopEngine, objVars, NotToldToStop
  <1>14. CASE Build
    <2>1. PICK new : IsNew(new)
      BY <1>14, BuildParts
    <2>2. /\ nodes' = Entered(new) /\ new \subseteq Ptr /\ pc = "build" /\ pc' = "start"
          /\ stop' = [p \in Ptr |-> p \notin new /\ stop[p]]
      BY <1>14, <2>1 DEF IsNew, instantiate, Build
    <2>3. ASSUME NEW p \in nodes'
          PROVE  ~stop'[p]
      BY <1>0, <2>2 DEF Entered, NotToldToStop
    <2> QED
      BY <2>2, <2>3 DEF NotToldToStop
  <1>15. CASE UNCHANGED vars
    BY <1>15, StopFrame DEF vars, jobVars, objVars
  <1> QED
    BY <1>1, <1>2, <1>3, <1>4, <1>5, <1>6, <1>7, <1>8, <1>9, <1>10, <1>11, <1>12,
       <1>13, <1>14, <1>15 DEF Next, Operation, EngineStep

(* What a step of a "nodes" deploy may not do to a node it has no reason to *)
(* touch.                                                                   *)
LEMMA KeepsRunning ==
    ASSUME "flows" \in Modes => Faithful,
           TypeInv, DeployInv, NotToldToStop, NotToldToStop', [Next]_vars,
           mode = "nodes", pc # "idle", NEW p \in nodes,
           p[1] \notin NodesDiff.removedNodes \cup NodesDiff.modifiedNodes
    PROVE  p \in nodes' /\ ~stop'[p]
  <1>0. /\ nodes \subseteq Ptr /\ batch \subseteq Ptr /\ stop \in [Ptr -> BOOLEAN]
        /\ p[1] \notin toStop /\ ~stop[p]
    BY DEF TypeInv, TypeOK, toStop, NotToldToStop, Partial
  <1>1. CASE Build
    <2>1. PICK new : IsNew(new)
      BY <1>1, BuildParts
    <2>2. /\ nodes' = Entered(new) /\ pc = "build" /\ pc' = "start"
          /\ \A q \in new : q[1] \in Wanted
      BY <1>1, <2>1 DEF IsNew, instantiate, Build
    <2>3. p[1] \in DOMAIN cur.nodes
      BY <2>2, KeptRuns
    <2>4. p[1] \notin Wanted
      <3>1. NodesDiff.addedNodes = DOMAIN ws.nodes \ DOMAIN cur.nodes
        BY DiffFields DEF NodesDiff
      <3> QED
        BY <2>3, <3>1 DEF Wanted, Restart
    <2>5. p \in nodes'
      BY <2>2, <2>4 DEF Entered
    <2> QED
      BY <2>2, <2>5 DEF NotToldToStop
  <1>2. CASE DetachModified
    BY <1>0, <1>2 DEF DetachModified, detach
  <1>3. CASE SignalStop
    <2>1. p \notin batch
      BY <1>3 DEF SignalStop, NotToldToStop, Partial
    <2> QED
      BY <1>0, <1>3, <2>1 DEF SignalStop
  <1>4. CASE CloseInputs
    BY <1>0, <1>4 DEF CloseInputs
  <1>5. CASE \E q \in Ptr : TriggerNode(q) \/ StopInstance(q) \/ StartNode(q)
    BY <1>0, <1>5 DEF TriggerNode, StopInstance, StartNode
  <1>6. CASE \E q \in Ptr : OwnStep(q)
    BY <1>0, <1>6 DEF OwnStep, SourceEmit, SourceSend, HandlerEnter, HandlerSend,
       TimerEnter, TimerSend, objVars
  <1>7. CASE \E q \in Ptr, k \in Loop : LoopStep(q, k) \/ LoopExit(q, k)
    BY <1>0, <1>7 DEF LoopStep, LoopReceive, LoopRoute, LoopSend, LoopExit, objVars
  <1>8. CASE DeployConfigs \/ AllFlowsStopped \/ FinishDeploy
    BY <1>0, <1>8 DEF DeployConfigs, AllFlowsStopped, FinishDeploy, objVars
  <1>9. ASSUME NEW f \in FlowID, stopNodesInFlow(f)
        PROVE  FALSE
    BY <1>9 DEF stopNodesInFlow, DeployInv, Steps
  <1>10. CASE StopEngine
    BY <1>10 DEF StopEngine, TypeInv, JobOK
  <1>11. CASE Start \/ Stop \/ \E w \in Workspaces, m \in Modes : Deploy(w, m)
    BY <1>11 DEF Start, Stop, Deploy
  <1>12. CASE UNCHANGED vars
    BY <1>0, <1>12 DEF vars, objVars
  <1> QED
    BY <1>1, <1>2, <1>3, <1>4, <1>5, <1>6, <1>7, <1>8, <1>9, <1>10, <1>11, <1>12
       DEF Next, Operation, EngineStep

(* No step of a "nodes" deploy, and no step of a node during one, takes out *)
(* or stops an object whose node is the same in both workspaces and uses no *)
(* modified config node (deployModifiedNodes).                              *)
THEOREM UnchangedKeepRunning ==
    ASSUME {"flows", "nodes"} \subseteq Modes => TabsStay
    PROVE  Safety => UnchangedNodesKeepRunning
  <1>1. "flows" \in Modes => Faithful
    BY DEF Faithful
  <1>2. Init => NotToldToStop
    BY DEF Init, NotToldToStop
  <1>3. TypeInv /\ DeployInv /\ NotToldToStop /\ [Next]_vars => NotToldToStop'
    BY StopNext
  <1> DEFINE Keeps == mode = "nodes" /\ pc # "idle" =>
                        \A p \in nodes :
                          p[1] \notin NodesDiff.removedNodes \cup NodesDiff.modifiedNodes
                            => p \in nodes' /\ ~stop'[p]
  <1>4. TypeInv /\ DeployInv /\ NotToldToStop /\ NotToldToStop' /\ [Next]_vars => Keeps
    BY <1>1, KeepsRunning
  <1>5. TypeInv /\ DeployInv /\ NotToldToStop /\ NotToldToStop' /\ [Next]_vars => [Keeps]_vars
    BY <1>4
  <1>6. Safety => [](TypeInv /\ DeployInv)
    BY <1>1, DeployAlways
  <1> HIDE DEF Keeps
  <1>7. Safety => [][Keeps]_vars
    BY <1>2, <1>3, <1>5, <1>6, PTL DEF Safety
  <1> QED
    BY <1>7 DEF Keeps, UnchangedNodesKeepRunning
=============================================================================
