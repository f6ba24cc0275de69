------------------------ MODULE FlowEngineLifecycle ------------------------
(***************************************************************************)
(* The lifecycle theorems of the flow engine.  An engine whose deploys are *)
(* "full" or "nodes" never runs two loops for one object, never closes a   *)
(* done channel twice and never loses a goroutine; one whose deploys are   *)
(* all "full" moreover never lets a loop or a source send on a closed      *)
(* channel.                                                                *)
(***************************************************************************)
EXTENDS FlowEngineProofs
-----------------------------------------------------------------------------
(* The inductive invariant of an engine that never deploys in "flows" mode. *)

Ids == {p[1] : p \in nodes}
Stopping == pc \in {"halt", "await"}

(* Which objects the operation in progress works on.                        *)
Progress ==
    /\ mode # "flows"
    /\ pc # "pick"
    /\ pc = "detach" => mode = "nodes"
    /\ ~Stopping => batch = {}
    /\ Stopping /\ mode # "nodes" => batch = nodes
    /\ Stopping => todo \subseteq batch
    /\ pc = "await" => todo = {}
    /\ pc = "start" => todo \subseteq nodes
    /\ pc \in {"configs", "build", "down"} /\ mode # "nodes" => nodes = {}
    /\ pc # "idle" => running
    /\ ~running => nodes = {} /\ mux = {}

(* The running nodes belong to the workspace their operation reads, and a   *)
(* "nodes" deploy has detached every object it is about to replace.         *)
Deployed ==
    /\ pc = "idle" /\ nodes # {} => cur \in Workspaces /\ Ids \subseteq DOMAIN cur.nodes
    /\ pc \notin {"idle", "start"} /\ mode = "nodes" => Ids \subseteq DOMAIN cur.nodes
    /\ pc \in {"halt", "await", "build"} /\ mode = "nodes"
         => Ids \cap toStop = {}
    /\ pc = "start" => Ids \subseteq DOMAIN ws.nodes

(* A goroutine runs only for an object that is in the map or being stopped, *)
(* and a loop only while done is open.                                      *)
Lifecycle ==
    /\ OneLoopPerNode
    /\ \A p \in Ptr, k \in Loop : go[p][k].on => ~done[p]
    /\ pc = "start" => \A p \in todo : ~done[p] /\ \A k \in Loop : ~go[p][k].on
    /\ NoOrphanGoroutine
    /\ Stopping => \A p \in batch \ todo : p[1] \in Sources => ~go[p][0].on
    /\ NoDoubleClose

LifeInv == Progress /\ Deployed /\ Lifecycle

(* Where messages go in an engine that only deploys in "full" mode.         *)
Routed ==
    /\ mode # "nodes"
    /\ \A p \in nodes : ~closed[p] /\ lt[p] \subseteq nodes
    /\ \A p \in Ptr, k \in Slot :
         /\ ~go[p][k].on => go[p][k].pend = {} /\ go[p][k].left = {}
         /\ k \in Loop \/ p[1] \in Sources => go[p][k].pend \subseteq nodes
    /\ JoinedSendersSafe
-----------------------------------------------------------------------------
LEMMA InitLife == Init => LifeInv
  <1> SUFFICES ASSUME Init PROVE LifeInv
    OBVIOUS
  <1>1. \A p \in Ptr, k \in Slot : go[p][k].on = FALSE
    BY DEF Init, Off
  <1>2. Progress
    BY DEF Init, Progress, Stopping
  <1>3. Deployed
    BY DEF Init, Deployed
  <1>4. Lifecycle
    BY <1>1, SlotFacts DEF Init, Lifecycle, OneLoopPerNode, NoOrphanGoroutine,
       NoDoubleClose, Stopping
  <1> QED
    BY <1>2, <1>3, <1>4 DEF LifeInv

(* Routing steps neither start nor end a loop or a source.                  *)
LEMMA RoutingFrame ==
    ASSUME TypeInv,
           \/ \E p \in Ptr : TriggerNode(p) \/ OwnStep(p)
           \/ \E p \in Ptr, k \in Loop : LoopStep(p, k)
    PROVE  /\ UNCHANGED <<running, cur, nodes, mux, jobVars, done, lt, closed>>
           /\ \A q \in Ptr, j \in Loop : go'[q][j].on = go[q][j].on
           /\ \A q \in Ptr : q[1] \in Sources => go'[q][0].on = go[q][0].on
           /\ "close of done" \in panics' => "close of done" \in panics
  <1>0. /\ 0 \in Slot /\ 0 \notin Loop /\ Loop \subseteq Slot
        /\ \A q \in Ptr, j \in Slot : go[q][j] \in Goroutine
        /\ \A q \in Ptr : lt[q] \in SUBSET Ptr /\ lw[q] \in SUBSET NodeID
    BY SlotFacts, GoParts DEF TypeInv, TypeOK
  <1>1. ASSUME NEW p \in Ptr, TriggerNode(p)
        PROVE  go' = go
    BY <1>1 DEF TriggerNode
  <1>2. ASSUME NEW p \in Ptr, NEW k \in Loop, LoopStep(p, k)
        PROVE  \E x \in Goroutine : become(p, k, x) /\ x.on = go[p][k].on
    <2>1. CASE LoopReceive(p, k)
      <3>1. go[p][k].on = TRUE
        BY <2>1 DEF LoopReceive, AtSelect, Idle
      <3>2. \E L \in SUBSET NodeID, P \in SUBSET Ptr :
               become(p, k, Sending(P)) \/ become(p, k, Routing(L))
        <4>1. CASE p[1] \in Sources
          BY <2>1, <4>1, <1>0 DEF LoopReceive
        <4>2. CASE p[1] \notin Sources
          BY <2>1, <4>2, <1>0 DEF LoopReceive
        <4> QED
          BY <4>1, <4>2
      <3>3. \A L, P : Sending(P).on = TRUE /\ Routing(L).on = TRUE
        BY DEF Sending, Routing
      <3> QED
        BY <1>0, <3>1, <3>2, <3>3, GoroutineMade, ZenonT(60)
    <2>2. CASE LoopRoute(p, k)
      <3>1. PICK n \in go[p][k].left :
               become(p, k, [go[p][k] EXCEPT !.left = @ \ {n},
                                             !.pend = {t \in lt[p] : t[1] = n}])
        BY <2>2 DEF LoopRoute
      <3> DEFINE x == [go[p][k] EXCEPT !.left = @ \ {n},
                                       !.pend = {t \in lt[p] : t[1] = n}]
      <3>2. k \in Slot /\ go[p][k] \in Goroutine
        BY <1>0
      <3>3. go[p][k].left \ {n} \in SUBSET NodeID /\ {t \in lt[p] : t[1] = n} \in SUBSET Ptr
        BY <1>0, <3>2, GoroutineParts
      <3>4. x \in Goroutine
        BY <3>2, <3>3, GoroutineMade
      <3>5. x.on = go[p][k].on
        BY <3>2 DEF Goroutine
      <3> QED
        BY <3>1, <3>4, <3>5
    <2>3. CASE LoopSend(p, k)
      <3>1. PICK t \in go[p][k].pend : become(p, k, [go[p][k] EXCEPT !.pend = @ \ {t}])
        BY <2>3 DEF LoopSend
      <3>2. k \in Slot /\ go[p][k] \in Goroutine
        BY <1>0
      <3>3. [go[p][k] EXCEPT !.pend = @ \ {t}].on = go[p][k].on
        BY <3>2 DEF Goroutine
      <3> QED
        BY <3>1, <3>2, <3>3, SendParts
    <2> QED
      BY <1>2, <2>1, <2>2, <2>3 DEF LoopStep
  <1>3. ASSUME NEW p \in Ptr, SourceEmit(p) \/ SourceSend(p)
        PROVE  \E x \in Goroutine : become(p, 0, x) /\ x.on = go[p][0].on
    <2>1. CASE SourceEmit(p)
      <3>1. go[p][0].on = TRUE /\ Sending(lt[p]).on = TRUE
        BY <2>1 DEF SourceEmit, AtSelect, Idle, Sending
      <3> QED
        BY <2>1, <1>0, <3>1, GoroutineMade DEF SourceEmit
    <2>2. CASE SourceSend(p)
      <3>1. PICK t \in go[p][0].pend : become(p, 0, [go[p][0] EXCEPT !.pend = @ \ {t}])
        BY <2>2 DEF SourceSend
      <3>2. go[p][0] \in Goroutine
        BY <1>0
      <3>3. [go[p][0] EXCEPT !.pend = @ \ {t}].on = go[p][0].on
        BY <3>2 DEF Goroutine
      <3> QED
        BY <1>0, <3>1, <3>2, <3>3, SendParts
    <2> QED
      BY <1>3, <2>1, <2>2
  <1>4. ASSUME NEW p \in Ptr, HandlerEnter(p) \/ HandlerSend(p) \/ TimerEnter(p) \/ TimerSend(p)
        PROVE  p[1] \notin Sources /\ \E x \in Goroutine : become(p, 0, x)
    <2>1. CASE HandlerEnter(p)
      BY <2>1, <1>0, EngineAssumption, GoroutineMade, ZenonT(60) DEF HandlerEnter, TypeInv, TypeOK
    <2>2. CASE HandlerSend(p)
      <3>1. PICK t \in go[p][0].pend :
                become(p, 0, IF closed[t] \/ go[p][0].pend = {t} THEN Off
                             ELSE [go[p][0] EXCEPT !.pend = @ \ {t}])
        BY <2>2 DEF HandlerSend
      <3> QED
        BY <2>2, <1>0, <3>1, SendParts, OffType, EngineAssumption DEF HandlerSend
    <2>3. CASE TimerEnter(p)
      BY <2>3, <1>0, EngineAssumption, GoroutineMade, ZenonT(60) DEF TimerEnter
    <2>4. CASE TimerSend(p)
      <3>1. PICK t \in go[p][0].pend :
                become(p, 0, IF go[p][0].pend = {t} THEN Off
                             ELSE [go[p][0] EXCEPT !.pend = @ \ {t}])
        BY <2>4 DEF TimerSend
      <3> QED
        BY <2>4, <1>0, <3>1, SendParts, OffType, EngineAssumption DEF TimerSend
    <2> QED
      BY <1>4, <2>1, <2>2, <2>3, <2>4
  <1>5. UNCHANGED <<running, cur, nodes, mux, jobVars, done, lt, closed>>
    BY DEF TriggerNode, OwnStep, LoopStep, LoopReceive, LoopRoute, LoopSend, SourceEmit,
       SourceSend, HandlerEnter, HandlerSend, TimerEnter, TimerSend, objVars
  <1>6. "close of done" \in panics' => "close of done" \in panics
    <2>1. ASSUME NEW t, NEW who, who # "close of done", send(t, who)
          PROVE  "close of done" \in panics' => "close of done" \in panics
      BY <2>1 DEF send
    <2>2. ASSUME NEW p \in Ptr, TriggerNode(p) \/ OwnStep(p)
          PROVE  "close of done" \in panics' => "close of done" \in panics
      BY <2>1, <2>2 DEF TriggerNode, OwnStep, SourceEmit, SourceSend, HandlerEnter, HandlerSend,
         TimerEnter, TimerSend
    <2>3. ASSUME NEW p \in Ptr, NEW k \in Loop, LoopStep(p, k)
          PROVE  "close of done" \in panics' => "close of done" \in panics
      BY <2>1, <2>3 DEF LoopStep, LoopReceive, LoopRoute, LoopSend
    <2> QED
      BY <2>2, <2>3
  <1>7. /\ \A q \in Ptr, j \in Loop : go'[q][j].on = go[q][j].on
        /\ \A q \in Ptr : q[1] \in Sources => go'[q][0].on = go[q][0].on
    <2>1. CASE \E p \in Ptr : TriggerNode(p)
      BY <2>1, <1>1
    <2>2. CASE \E p \in Ptr, k \in Loop : LoopStep(p, k)
      <3>1. PICK p \in Ptr, k \in Loop : LoopStep(p, k)
        BY <2>2
      <3>2. PICK x \in Goroutine : become(p, k, x) /\ x.on = go[p][k].on
        BY <3>1, <1>2
      <3> QED
        BY <1>0, <3>2, Become DEF TypeInv
    <2>3. CASE \E p \in Ptr : SourceEmit(p) \/ SourceSend(p)
      <3>1. PICK p \in Ptr : SourceEmit(p) \/ SourceSend(p)
        BY <2>3
      <3>2. PICK x \in Goroutine : become(p, 0, x) /\ x.on = go[p][0].on
        BY <3>1, <1>3
      <3> QED
        BY <1>0, <3>2, Become, SMTT(30) DEF TypeInv
    <2>4. CASE \E p \in Ptr : HandlerEnter(p) \/ HandlerSend(p) \/ TimerEnter(p) \/ TimerSend(p)
      <3>1. PICK p \in Ptr : HandlerEnter(p) \/ HandlerSend(p) \/ TimerEnter(p) \/ TimerSend(p)
        BY <2>4
      <3>2. PICK x \in Goroutine : become(p, 0, x)
        BY <3>1, <1>4
      <3>3. p[1] \notin Sources
        BY <3>1, <1>4
      <3> QED
        BY <1>0, <3>2, <3>3, Become DEF TypeInv
    <2> QED
      BY <2>1, <2>2, <2>3, <2>4 DEF OwnStep
  <1> QED
    BY <1>5, <1>6, <1>7

LEMMA LifeRouting ==
    ASSUME TypeInv, LifeInv,
           \/ \E p \in Ptr : TriggerNode(p) \/ OwnStep(p)
           \/ \E p \in Ptr, k \in Loop : LoopStep(p, k)
    PROVE  LifeInv'
  <1>1. /\ UNCHANGED <<running, cur, nodes, mux, jobVars, done, lt, closed>>
        /\ \A q \in Ptr, j \in Loop : go'[q][j].on = go[q][j].on
        /\ \A q \in Ptr : q[1] \in Sources => go'[q][0].on = go[q][0].on
        /\ "close of done" \in panics' => "close of done" \in panics
    BY RoutingFrame
  <1>2. Progress' /\ Deployed'
    BY <1>1 DEF LifeInv, Progress, Deployed, Ids, Stopping, toStop, NodesDiff, jobVars
  <1>3. Lifecycle'
    <2>0. UNCHANGED <<pc, batch, todo>> /\ batch \subseteq Ptr /\ todo \subseteq Ptr
      BY <1>1 DEF jobVars, TypeInv, TypeOK
    <2>1. OneLoopPerNode' /\ NoDoubleClose'
      BY <1>1, ZenonT(60) DEF LifeInv, Lifecycle, OneLoopPerNode, NoDoubleClose
    <2>2. NoOrphanGoroutine'
      BY <1>1, <2>0, ZenonT(60) DEF LifeInv, Lifecycle, NoOrphanGoroutine
    <2>3. \A q \in Ptr, j \in Loop : go'[q][j].on => ~done'[q]
      BY <1>1 DEF LifeInv, Lifecycle
    <2>4. pc' = "start" => \A q \in todo' : ~done'[q] /\ \A j \in Loop : ~go'[q][j].on
      BY <1>1, <2>0 DEF LifeInv, Lifecycle
    <2>5. Stopping' => \A q \in batch' \ todo' : q[1] \in Sources => ~go'[q][0].on
      BY <1>1, <2>0 DEF LifeInv, Lifecycle, Stopping
    <2> QED
      BY <2>1, <2>2, <2>3, <2>4, <2>5 DEF Lifecycle
  <1> QED
    BY <1>2, <1>3 DEF LifeInv

LEMMA LifeLoopExit ==
    ASSUME TypeInv, LifeInv, NEW p \in Ptr, NEW k \in Loop, LoopExit(p, k)
    PROVE  LifeInv'
  <1>0. /\ UNCHANGED <<running, cur, nodes, mux, jobVars>>
        /\ UNCHANGED <<pc, batch, todo>>
        /\ batch \subseteq Ptr /\ todo \subseteq Ptr
    BY DEF LoopExit, jobVars, TypeInv, TypeOK
  <1>1. /\ UNCHANGED <<running, cur, nodes, mux, jobVars>>
        /\ go[p][k].on
        /\ become(p, k, Off)
    <2>1. Idle.on
      BY DEF Idle
    <2> QED
      BY <1>0, <2>1 DEF LoopExit, AtSelect
  <1>2. /\ ~go'[p][k].on
        /\ \A q \in Ptr, j \in Slot : q # p \/ j # k => go'[q][j] = go[q][j]
    <2>1. ~Off.on
      BY DEF Off
    <2> QED
      BY <1>1, <2>1, SlotFacts, OffType, Become DEF TypeInv
  <1>3. ~done[p] /\ done' = [done EXCEPT ![p] = TRUE] /\ panics' = panics
    BY <1>1 DEF LifeInv, Lifecycle, LoopExit
  <1>4. Progress' /\ Deployed'
    BY <1>1 DEF LifeInv, Progress, Deployed, Ids, Stopping, toStop, NodesDiff, jobVars
  <1>5. OneLoopPerNode' /\ NoOrphanGoroutine' /\ NoDoubleClose'
    <2>1. OneLoopPerNode' /\ NoDoubleClose'
      BY <1>2, <1>3, SlotFacts, ZenonT(60) DEF LifeInv, Lifecycle, OneLoopPerNode, NoDoubleClose
    <2>2. NoOrphanGoroutine'
      BY <1>0, <1>2, SlotFacts DEF LifeInv, Lifecycle, NoOrphanGoroutine
    <2> QED
      BY <2>1, <2>2
  <1>6. \A q \in Ptr, j \in Loop : go'[q][j].on => ~done'[q]
    <2> SUFFICES ASSUME NEW q \in Ptr, NEW j \in Loop, go'[q][j].on PROVE ~done'[q]
      OBVIOUS
    <2>1. go[q][j].on /\ (q = p => j # k)
      BY <1>2, SlotFacts
    <2>2. q # p
      BY <2>1, <1>1 DEF LifeInv, Lifecycle, OneLoopPerNode
    <2> QED
      BY <2>1, <2>2, <1>3 DEF LifeInv, Lifecycle, TypeInv, TypeOK
  <1>7. pc' = "start" => \A q \in todo' : ~done'[q] /\ \A j \in Loop : ~go'[q][j].on
    <2> SUFFICES ASSUME pc = "start", NEW q \in todo
                 PROVE  ~done'[q] /\ \A j \in Loop : ~go'[q][j].on
      BY <1>1 DEF jobVars
    <2>1. q \in Ptr /\ ~done[q] /\ \A j \in Loop : ~go[q][j].on
      BY DEF LifeInv, Lifecycle, TypeInv, TypeOK
    <2>2. q # p
      BY <2>1, <1>1
    <2> QED
      BY <2>1, <2>2, <1>2, <1>3, SlotFacts DEF TypeInv, TypeOK
  <1>8. Stopping' => \A q \in batch' \ todo' : q[1] \in Sources => ~go'[q][0].on
    BY <1>0, <1>2, SlotFacts DEF LifeInv, Lifecycle, Stopping
  <1> QED
    BY <1>4, <1>5, <1>6, <1>7, <1>8 DEF LifeInv, Lifecycle

LEMMA LifeStopInstance ==
    ASSUME TypeInv, LifeInv, NEW p \in Ptr, StopInstance(p)
    PROVE  LifeInv'
  <1>1. /\ UNCHANGED <<running, cur, nodes, mux, pc, mode, ws, batch, done, panics>>
        /\ pc = "halt" /\ p \in todo /\ todo' = todo \ {p}
    BY DEF StopInstance
  <1>2. /\ \A q \in Ptr, j \in Loop : go'[q][j] = go[q][j]
        /\ \A q \in Ptr : q # p => go'[q][0] = go[q][0]
        /\ p[1] \in Sources => go'[p][0].on = FALSE
    <2>1. CASE p[1] \in Sources
      <3>1. become(p, 0, Off) /\ Off.on = FALSE
        BY <2>1 DEF StopInstance, Off
      <3> QED
        BY <2>1, <3>1, SlotFacts, OffType, Become DEF TypeInv
    <2>2. CASE p[1] \notin Sources
      BY <2>2 DEF StopInstance
    <2> QED
      BY <2>1, <2>2
  <1>3. Progress' /\ Deployed'
    BY <1>1 DEF LifeInv, Progress, Deployed, Ids, Stopping, toStop, NodesDiff
  <1>4. Lifecycle'
    <2>1. OneLoopPerNode' /\ NoDoubleClose'
      BY <1>1, <1>2 DEF LifeInv, Lifecycle, OneLoopPerNode, NoDoubleClose
    <2>2. NoOrphanGoroutine'
      BY <1>1, <1>2 DEF LifeInv, Lifecycle, NoOrphanGoroutine
    <2>3. Stopping' => \A q \in batch' \ todo' : q[1] \in Sources => ~go'[q][0].on
      BY <1>1, <1>2 DEF LifeInv, Lifecycle, Stopping, TypeInv, TypeOK
    <2> QED
      BY <1>1, <1>2, <2>1, <2>2, <2>3 DEF LifeInv, Lifecycle
  <1> QED
    BY <1>3, <1>4 DEF LifeInv

LEMMA LifeStart == TypeInv /\ LifeInv /\ Start => LifeInv'
  BY DEF Start, LifeInv, Progress, Deployed, Ids, Stopping, toStop, NodesDiff, Lifecycle,
     OneLoopPerNode, NoOrphanGoroutine, NoDoubleClose, jobVars, objVars

LEMMA LifeStop == TypeInv /\ LifeInv /\ Stop => LifeInv'
  <1> SUFFICES ASSUME TypeInv, LifeInv, Stop PROVE LifeInv'
    OBVIOUS
  <1>1. UNCHANGED <<running, cur, nodes, mux, ws, done, go, panics>> /\ running
    BY DEF Stop, objVars
  <1>2. /\ mode' = "stop" /\ batch' = nodes /\ todo' = nodes
        /\ pc' = IF nodes = {} THEN "down" ELSE "halt"
    BY DEF Stop, BeginStopAll
  <1>3. Progress' /\ Deployed'
    BY <1>1, <1>2 DEF LifeInv, Progress, Deployed, Ids, Stopping
  <1>4. Lifecycle'
    BY <1>1, <1>2 DEF LifeInv, Lifecycle, OneLoopPerNode, NoOrphanGoroutine,
       NoDoubleClose, Stopping, Stop, Progress
  <1> QED
    BY <1>3, <1>4 DEF LifeInv

(* Steps of the engine's own goroutine that start and stop no goroutine.    *)
LEMMA LifecycleFrame ==
    ASSUME Lifecycle,
           UNCHANGED <<go, done, panics>>,
           nodes \cup batch \subseteq nodes' \cup batch',
           pc' # "start" \/ (pc = "start" /\ todo' \subseteq todo),
           Stopping' => \/ batch' \subseteq todo'
                        \/ Stopping /\ UNCHANGED <<batch, todo>>
    PROVE  Lifecycle'
  <1>1. OneLoopPerNode' /\ NoDoubleClose' /\ NoOrphanGoroutine'
    BY DEF Lifecycle, OneLoopPerNode, NoDoubleClose, NoOrphanGoroutine
  <1>2. Stopping' => \A q \in batch' \ todo' : q[1] \in Sources => ~go'[q][0].on
    BY DEF Lifecycle
  <1> QED
    BY <1>1, <1>2 DEF Lifecycle

LEMMA EmptyDiff ==
    ASSUME NEW v \in Workspaces, NEW w \in Workspaces, IsEmpty(DiffWorkspaces(v, w))
    PROVE  DOMAIN v.nodes \subseteq DOMAIN w.nodes
  <1>1. DiffWorkspaces(v, w).removedNodes = {}
    BY DEF IsEmpty, DiffWorkspaces
  <1> QED
    BY <1>1, DiffParts

LEMMA LifeDeploy ==
    ASSUME TypeInv, LifeInv, "flows" \notin Modes,
           NEW w \in Workspaces, NEW m \in Modes, Deploy(w, m)
    PROVE  LifeInv'
  <1>1. /\ UNCHANGED <<running, nodes, mux, go, done, panics>>
        /\ pc = "idle" /\ running /\ batch = {}
    BY DEF Deploy, objVars, LifeInv, Progress, Stopping
  <1>2. CASE deployFull(w)
    <2>1. /\ mode' = "full" /\ batch' = nodes /\ todo' = nodes
          /\ pc' = IF nodes = {} THEN "configs" ELSE "halt"
      BY <1>2 DEF deployFull, BeginStopAll
    <2>2. Progress' /\ Deployed'
      BY <1>1, <2>1 DEF LifeInv, Progress, Deployed, Ids, Stopping
    <2>3. Lifecycle'
      BY <1>1, <2>1, LifecycleFrame DEF LifeInv, Stopping
    <2> QED
      BY <2>2, <2>3 DEF LifeInv
  <1>3. CASE cur # NoWs /\ nothingToDeploy(w)
    <2>1. UNCHANGED <<pc, mode, ws, batch, todo>> /\ cur' = w
      BY <1>3 DEF nothingToDeploy, jobVars
    <2>2. nodes # {} => DOMAIN cur.nodes \subseteq DOMAIN w.nodes
      BY <1>1, <1>3, EmptyDiff DEF nothingToDeploy, LifeInv, Deployed
    <2>3. Progress' /\ Deployed'
      BY <1>1, <2>1, <2>2 DEF LifeInv, Progress, Deployed, Ids, Stopping
    <2>4. Lifecycle'
      BY <1>1, <2>1, LifecycleFrame DEF LifeInv, Stopping
    <2> QED
      BY <2>3, <2>4 DEF LifeInv
  <1>4. CASE cur # NoWs /\ m # "full" /\ deployModified(w, m)
    <2>1. UNCHANGED <<cur, batch, todo>> /\ mode' = "nodes" /\ pc' = "configs"
      BY <1>4, EngineAssumption DEF deployModified
    <2>2. Progress' /\ Deployed'
      BY <1>1, <2>1 DEF LifeInv, Progress, Deployed, Ids, Stopping
    <2>3. Lifecycle'
      BY <1>1, <2>1, LifecycleFrame DEF LifeInv, Stopping
    <2> QED
      BY <2>2, <2>3 DEF LifeInv
  <1> QED
    BY <1>2, <1>3, <1>4 DEF Deploy

LEMMA LifeDeployConfigs ==
    ASSUME TypeInv, LifeInv, DeployConfigs
    PROVE  LifeInv'
  <1>1. /\ UNCHANGED <<running, cur, nodes, mux, mode, ws, batch, todo, go, done, panics>>
        /\ pc = "configs"
    BY DEF DeployConfigs
  <1>2. mode \in {"full", "nodes"} /\ pc' = IF mode = "full" THEN "build" ELSE "detach"
    BY DEF DeployConfigs, TypeInv, JobOK, LifeInv, Progress
  <1>3. Progress' /\ Deployed'
    BY <1>1, <1>2 DEF LifeInv, Progress, Deployed, Ids, Stopping, toStop, NodesDiff
  <1>4. Lifecycle'
    BY <1>1, <1>2, LifecycleFrame DEF LifeInv, Stopping
  <1> QED
    BY <1>3, <1>4 DEF LifeInv

LEMMA LifeDetachModified ==
    ASSUME TypeInv, LifeInv, DetachModified
    PROVE  LifeInv'
  <1> DEFINE B == {p \in nodes : p[1] \in toStop}
  <1>1. /\ UNCHANGED <<running, cur, mode, ws, go, done, panics>>
        /\ pc = "detach" /\ batch = {} /\ mode = "nodes" /\ running
    BY DEF DetachModified, LifeInv, Progress, Stopping
  <1>2. toStop' = toStop
    BY <1>1 DEF toStop, NodesDiff
  <1>3. CASE detach(B)
    <2>1. /\ batch' = B /\ todo' = B /\ nodes' = nodes \ B /\ pc' = "halt"
      BY <1>3 DEF detach
    <2>2. Progress'
      BY <1>1, <2>1 DEF LifeInv, Progress, Stopping
    <2>3. Deployed'
      BY <1>1, <1>2, <2>1 DEF LifeInv, Deployed, Ids
    <2>4. Lifecycle'
      BY <1>1, <2>1, LifecycleFrame DEF LifeInv, Stopping
    <2> QED
      BY <2>2, <2>3, <2>4 DEF LifeInv
  <1>4. CASE B = {} /\ pc' = "build" /\ UNCHANGED <<batch, todo, nodes, lw, lt, mux>>
    <2>1. Progress'
      BY <1>1, <1>4 DEF LifeInv, Progress, Stopping
    <2>2. Deployed'
      BY <1>1, <1>2, <1>4 DEF LifeInv, Deployed, Ids
    <2>3. Lifecycle'
      BY <1>1, <1>4, LifecycleFrame DEF LifeInv, Stopping
    <2> QED
      BY <2>1, <2>2, <2>3 DEF LifeInv
  <1> QED
    BY <1>3, <1>4 DEF DetachModified

LEMMA LifeSignalStop ==
    ASSUME TypeInv, LifeInv, SignalStop
    PROVE  LifeInv'
  <1>1. /\ UNCHANGED <<running, cur, nodes, mux, mode, ws, batch, todo, go, done, panics>>
        /\ pc = "halt" /\ todo = {} /\ pc' = "await"
    BY DEF SignalStop
  <1>2. Progress' /\ Deployed'
    BY <1>1 DEF LifeInv, Progress, Deployed, Ids, Stopping, toStop, NodesDiff
  <1>3. Lifecycle'
    BY <1>1, LifecycleFrame DEF LifeInv, Stopping
  <1> QED
    BY <1>2, <1>3 DEF LifeInv

(* When every done channel of the batch is closed, no goroutine is left.    *)
LEMMA BatchQuiet ==
    ASSUME TypeInv, LifeInv, pc = "await", AllDone, NEW p \in batch
    PROVE  /\ \A k \in Loop : ~go[p][k].on
           /\ p[1] \in Sources => ~go[p][0].on
  <1>1. p \in Ptr /\ done[p] /\ todo = {}
    BY DEF TypeInv, TypeOK, AllDone, LifeInv, Progress
  <1> QED
    BY <1>1 DEF LifeInv, Lifecycle, Stopping

LEMMA LifeCloseInputs ==
    ASSUME TypeInv, LifeInv, CloseInputs
    PROVE  LifeInv'
  <1>1. /\ UNCHANGED <<running, cur, mux, mode, ws, todo, go, done, panics>>
        /\ pc = "await" /\ AllDone /\ batch' = {} /\ todo = {} /\ mode # "flows" /\ running
    BY DEF CloseInputs, LifeInv, Progress
  <1>2. \/ /\ mode \in {"full", "stop"} /\ nodes' = {}
           /\ pc' = IF mode = "full" THEN "configs" ELSE "down"
        \/ mode = "nodes" /\ nodes' = nodes /\ pc' = "build"
    BY <1>1 DEF CloseInputs
  <1>3. Progress'
    BY <1>1, <1>2 DEF LifeInv, Progress, Stopping
  <1>4. Deployed'
    BY <1>1, <1>2 DEF LifeInv, Deployed, Ids, toStop, NodesDiff
  <1>5. NoOrphanGoroutine'
    <2> SUFFICES ASSUME NEW p \in Ptr, p \notin nodes' \cup batch'
                 PROVE  /\ \A k \in Loop : ~go[p][k].on
                        /\ p[1] \in Sources => ~go[p][0].on
      BY <1>1 DEF NoOrphanGoroutine
    <2>1. CASE p \in batch
      BY <1>1, <2>1, BatchQuiet
    <2>2. CASE p \notin batch
      <3>1. p \notin nodes
        BY <1>1, <1>2, <2>2 DEF LifeInv, Progress, Stopping
      <3> QED
        BY <2>2, <3>1 DEF LifeInv, Lifecycle, NoOrphanGoroutine
    <2> QED
      BY <2>1, <2>2
  <1>6. OneLoopPerNode' /\ NoDoubleClose'
    BY <1>1 DEF LifeInv, Lifecycle, OneLoopPerNode, NoDoubleClose
  <1>7. Lifecycle'
    BY <1>1, <1>2, <1>5, <1>6 DEF LifeInv, Lifecycle, Stopping
  <1> QED
    BY <1>3, <1>4, <1>7 DEF LifeInv

LEMMA LifeStopEngine ==
    ASSUME TypeInv, LifeInv, StopEngine
    PROVE  LifeInv'
  <1>1. /\ UNCHANGED <<nodes, mode, ws, batch, todo, go, done, panics>>
        /\ pc = "down" /\ pc' = "idle" /\ mux' = {} /\ running' = FALSE /\ mode = "stop"
    BY DEF StopEngine, objVars, TypeInv, JobOK
  <1>2. nodes = {}
    BY <1>1 DEF LifeInv, Progress
  <1>3. Progress' /\ Deployed'
    BY <1>1, <1>2 DEF LifeInv, Progress, Deployed, Ids, Stopping
  <1>4. Lifecycle'
    BY <1>1, LifecycleFrame DEF LifeInv, Stopping
  <1> QED
    BY <1>3, <1>4 DEF LifeInv

LEMMA LifeFinishDeploy ==
    ASSUME TypeInv, LifeInv, FinishDeploy
    PROVE  LifeInv'
  <1>1. /\ UNCHANGED <<running, nodes, mode, ws, batch, todo, go, done, panics>>
        /\ pc = "start" /\ pc' = "idle" /\ cur' = ws /\ ws \in Workspaces /\ running
    BY DEF FinishDeploy, objVars, TypeInv, JobOK, LifeInv, Progress
  <1>2. Progress' /\ Deployed'
    BY <1>1 DEF LifeInv, Progress, Deployed, Ids, Stopping
  <1>3. Lifecycle'
    BY <1>1, LifecycleFrame DEF LifeInv, Stopping
  <1> QED
    BY <1>2, <1>3 DEF LifeInv

LEMMA FreshOff ==
    ASSUME TypeInv, NEW p \in Ptr, Fresh(p), NEW k \in Slot
    PROVE  ~go[p][k].on
  BY DEF Fresh, Reachable, Live

LEMMA LifeBuild ==
    ASSUME TypeInv, LifeInv, Build
    PROVE  LifeInv'
  <1>1. PICK new : IsNew(new)
    BY BuildParts
  <1>2. /\ UNCHANGED <<running, cur, mux, mode, ws, batch, go, panics>>
        /\ pc = "build" /\ pc' = "start" /\ batch = {} /\ running
        /\ mode \in {"full", "nodes"}
    BY DEF Build, LifeInv, Progress, Stopping, TypeInv, JobOK
  <1>3. /\ nodes' = Entered(new) /\ new \subseteq Ptr
        /\ done' = [p \in Ptr |-> p \notin new /\ done[p]]
        /\ Wanted \subseteq DOMAIN ws.nodes
        /\ \A p \in new : p[1] \in Wanted
    BY <1>1, <1>2, WantedParts DEF IsNew, instantiate
  <1>4. \A p \in new : (\A k \in Loop : ~go[p][k].on) /\ ~go[p][0].on
    BY <1>1, FreshOff, SlotFacts DEF IsNew
  <1>5. todo' \subseteq new
    <2>1. CASE mode = "full"
      <3>1. nodes = {}
        BY <1>2, <2>1 DEF LifeInv, Progress
      <3> QED
        BY <1>3, <2>1, <3>1 DEF Build, ToStart, Entered
    <2>2. CASE mode = "nodes"
      <3>1. cur \in Workspaces /\ ws \in Workspaces
        BY <1>2, <2>2 DEF TypeInv, JobOK
      <3>2. Ids \cap Restart = {}
        BY <3>1, <1>2, <2>2, ExpandedParts DEF LifeInv, Deployed, Restart, toStop, NodesDiff
      <3>3. todo' \subseteq {p \in Entered(new) : p[1] \in Restart}
        BY <1>3, <2>2 DEF Build, ToStart
      <3> QED
        BY <3>2, <3>3 DEF Entered, Ids
    <2> QED
      BY <1>2, <2>1, <2>2
  <1>6. Progress'
    BY <1>2, <1>3, <1>5 DEF LifeInv, Progress, Stopping, Entered
  <1>7. Deployed'
    <2>1. Ids' \subseteq DOMAIN ws.nodes
      <3>1. CASE mode = "full"
        <4>1. nodes = {}
          BY <1>2, <3>1 DEF LifeInv, Progress
        <4> QED
          BY <1>3, <4>1 DEF Ids, Entered
      <3>2. CASE mode = "nodes"
        <4>1. cur \in Workspaces /\ ws \in Workspaces
          BY <1>2, <3>2 DEF TypeInv, JobOK
        <4>2. Ids \subseteq DOMAIN ws.nodes
          BY <4>1, <1>2, <3>2, ExpandedParts DEF LifeInv, Deployed, toStop, NodesDiff
        <4> QED
          BY <1>3, <4>2 DEF Ids, Entered
      <3> QED
        BY <1>2, <3>1, <3>2
    <2> QED
      BY <1>2, <2>1 DEF Deployed
  <1>8. NoOrphanGoroutine'
    <2> SUFFICES ASSUME NEW p \in Ptr, p \notin nodes' \cup batch'
                 PROVE  /\ \A k \in Loop : ~go[p][k].on
                        /\ p[1] \in Sources => ~go[p][0].on
      BY <1>2 DEF NoOrphanGoroutine
    <2>1. CASE p \in nodes
      (* An object that is replaced: a "nodes" deploy has detached it first. *)
      <3>1. mode = "nodes"
        BY <1>2, <2>1 DEF LifeInv, Progress
      <3>2. PICK q \in new : q[1] = p[1]
        BY <1>3, <2>1 DEF Entered
      <3>3. cur \in Workspaces /\ ws \in Workspaces
        BY <1>2, <3>1 DEF TypeInv, JobOK
      <3>4. Ids \cap Restart = {}
        BY <3>1, <3>3, <1>2, ExpandedParts DEF LifeInv, Deployed, Restart, toStop, NodesDiff
      <3>5. q[1] \in Restart
        BY <1>3, <3>1, <3>2 DEF Wanted
      <3> QED
        BY <2>1, <3>2, <3>4, <3>5 DEF Ids
    <2>2. CASE p \notin nodes
      BY <1>2, <2>2 DEF LifeInv, Lifecycle, NoOrphanGoroutine
    <2> QED
      BY <2>1, <2>2
  <1>9. OneLoopPerNode' /\ NoDoubleClose'
    BY <1>2 DEF LifeInv, Lifecycle, OneLoopPerNode, NoDoubleClose
  <1>10. \A p \in Ptr, k \in Loop : go'[p][k].on => ~done'[p]
    BY <1>2, <1>3 DEF LifeInv, Lifecycle
  <1>11. \A p \in todo' : ~done'[p] /\ \A k \in Loop : ~go'[p][k].on
    BY <1>2, <1>3, <1>4, <1>5
  <1> QED
    BY <1>2, <1>6, <1>7, <1>8, <1>9, <1>10, <1>11 DEF LifeInv, Lifecycle, Stopping

LEMMA LifeStartNode ==
    ASSUME TypeInv, LifeInv, NEW p \in Ptr, StartNode(p)
    PROVE  LifeInv'
  <1>1. /\ UNCHANGED <<running, cur, nodes, mux, pc, mode, ws, batch>>
        /\ pc = "start" /\ p \in todo /\ todo' = todo \ {p} /\ todo \subseteq nodes
        /\ todo \subseteq Ptr
    BY DEF StartNode, LifeInv, Progress, TypeInv, TypeOK
  <1>2. ~done[p] /\ \A k \in Loop : ~go[p][k].on
    BY <1>1 DEF LifeInv, Lifecycle
  <1>3. Progress' /\ Deployed'
    BY <1>1 DEF LifeInv, Progress, Deployed, Ids, Stopping
  <1>4. CASE StartOK(p)
    <2>1. PICK k \in Loop :
             go' = [go EXCEPT ![p] = [j \in Slot |->
                      IF j = k \/ (j = 0 /\ p[1] \in Sources /\ ~@[0].on)
                      THEN Idle ELSE @[j]]]
      BY <1>4 DEF StartOK
    <2>2. go \in [Ptr -> [Slot -> Goroutine]]
      BY DEF TypeInv, TypeOK
    <2>3. /\ \A q \in Ptr : q # p => go'[q] = go[q]
          /\ \A j \in Loop : j # k => go'[p][j] = go[p][j]
      BY <2>1, <2>2, SlotFacts
    <2>4. UNCHANGED <<done, panics>>
      BY <1>4 DEF StartOK
    <2>5. OneLoopPerNode'
      BY <1>2, <2>3 DEF LifeInv, Lifecycle, OneLoopPerNode
    <2>6. NoOrphanGoroutine'
      BY <1>1, <2>3 DEF LifeInv, Lifecycle, NoOrphanGoroutine
    <2>7. \A q \in Ptr, j \in Loop : go'[q][j].on => ~done'[q]
      BY <1>2, <2>3, <2>4 DEF LifeInv, Lifecycle
    <2>8. \A q \in todo' : ~done'[q] /\ \A j \in Loop : ~go'[q][j].on
      BY <1>1, <2>3, <2>4 DEF LifeInv, Lifecycle
    <2> QED
      BY <1>1, <1>3, <2>4, <2>5, <2>6, <2>7, <2>8 DEF LifeInv, Lifecycle, NoDoubleClose, Stopping
  <1>5. CASE StartFails(p)
    <2>1. go' = go /\ done' = [done EXCEPT ![p] = TRUE] /\ panics' = panics
      BY <1>2, <1>5 DEF StartFails
    <2>2. \A q \in Ptr : q # p => done'[q] = done[q]
      BY <2>1 DEF TypeInv, TypeOK
    <2>3. \A q \in Ptr, j \in Loop : go'[q][j].on => ~done'[q]
      BY <1>2, <2>1, <2>2 DEF LifeInv, Lifecycle
    <2>4. \A q \in todo' : ~done'[q] /\ \A j \in Loop : ~go'[q][j].on
      BY <1>1, <2>1, <2>2 DEF LifeInv, Lifecycle
    <2>5. OneLoopPerNode' /\ NoOrphanGoroutine' /\ NoDoubleClose'
      BY <1>1, <2>1 DEF LifeInv, Lifecycle, OneLoopPerNode, NoOrphanGoroutine, NoDoubleClose
    <2> QED
      BY <1>1, <1>3, <2>3, <2>4, <2>5 DEF LifeInv, Lifecycle, Stopping
  <1> QED
    BY <1>4, <1>5 DEF StartNode

LEMMA LifeNext ==
    ASSUME TypeInv, LifeInv, "flows" \notin Modes, [Next]_vars
    PROVE  LifeInv'
  <1>1. CASE Operation
    BY <1>1, LifeStart, LifeStop, LifeDeploy, LifeRouting DEF Operation
  <1>2. CASE EngineStep
    <2>1. ~(\E f \in FlowID : stopNodesInFlow(f)) /\ ~AllFlowsStopped
      BY DEF stopNodesInFlow, AllFlowsStopped, LifeInv, Progress
    <2> QED
      BY <1>2, <2>1, LifeDeployConfigs, LifeDetachModified, LifeSignalStop, LifeCloseInputs,
         LifeStopEngine, LifeBuild, LifeStartNode, LifeFinishDeploy DEF EngineStep
  <1>3. CASE \E p \in Ptr : StopInstance(p)
    BY <1>3, LifeStopInstance
  <1>4. CASE \E p \in Ptr, k \in Loop : LoopExit(p, k)
    BY <1>4, LifeLoopExit
  <1>5. CASE \E p \in Ptr, k \in Loop : LoopStep(p, k)
    BY <1>5, LifeRouting
  <1>6. CASE \E p \in Ptr : OwnStep(p)
    BY <1>6, LifeRouting
  <1>7. CASE UNCHANGED vars
    <2>1. UNCHANGED <<running, cur, nodes, mux, pc, mode, ws, batch, todo, go, done, panics>>
      BY <1>7 DEF vars, jobVars, objVars
    <2>2. Progress' /\ Deployed'
      BY <2>1 DEF LifeInv, Progress, Deployed, Ids, Stopping, toStop, NodesDiff
    <2>3. Lifecycle'
      BY <2>1, LifecycleFrame DEF LifeInv, Stopping
    <2> QED
      BY <2>2, <2>3 DEF LifeInv
  <1> QED
    BY <1>1, <1>2, <1>3, <1>4, <1>5, <1>6, <1>7 DEF Next

LEMMA LifeAlways == ASSUME "flows" \notin Modes PROVE Safety => [](TypeInv /\ LifeInv)
  <1>1. Init => TypeInv /\ LifeInv
    BY InitType, InitLife
  <1>2. TypeInv /\ LifeInv /\ [Next]_vars => (TypeInv /\ LifeInv)'
    BY TypeNext, LifeNext
  <1> QED
    BY <1>1, <1>2, PTL DEF Safety

(* In an engine that deploys in "full" and "nodes" mode, whatever fails to  *)
(* be created or started, a node has one nodeLoop at most.                  *)
THEOREM OneLoop == ASSUME "flows" \notin Modes PROVE Safety => []OneLoopPerNode
  <1>1. LifeInv => OneLoopPerNode
    BY DEF LifeInv, Lifecycle
  <1> QED
    BY <1>1, LifeAlways, PTL

(* ... its done channel is closed once at most, by the loop or by the       *)
(* failed Start.                                                            *)
THEOREM DoneClosedOnce == ASSUME "flows" \notin Modes PROVE Safety => []NoDoubleClose
  <1>1. LifeInv => NoDoubleClose
    BY DEF LifeInv, Lifecycle
  <1> QED
    BY <1>1, LifeAlways, PTL

(* ... and every loop and every source goroutine belongs to a node that a   *)
(* later deploy or Stop will find.                                          *)
THEOREM NoOrphan == ASSUME "flows" \notin Modes PROVE Safety => []NoOrphanGoroutine
  <1>1. LifeInv => NoOrphanGoroutine
    BY DEF LifeInv, Lifecycle
  <1> QED
    BY <1>1, LifeAlways, PTL

(* When Stop has returned, nothing of the deployment runs any more.         *)
THEOREM StopQuiets == ASSUME "flows" \notin Modes PROVE Safety => []StoppedIsQuiet
  <1>1. ASSUME TypeInv, LifeInv PROVE StoppedIsQuiet
    <2> SUFFICES ASSUME ~running
                 PROVE  /\ nodes = {} /\ mux = {}
                        /\ \A p \in Ptr : \A k \in Loop : ~go[p][k].on
                        /\ \A p \in Ptr : p[1] \in Sources => ~go[p][0].on
      BY DEF StoppedIsQuiet
    <2>1. nodes = {} /\ mux = {} /\ batch = {}
      BY <1>1 DEF LifeInv, Progress, Stopping
    <2> QED
      BY <1>1, <2>1 DEF LifeInv, Lifecycle, NoOrphanGoroutine
  <1> QED
    BY <1>1, LifeAlways, PTL

(* The goroutines of an engine that deploys in "full" and "nodes" mode are   *)
(* accounted for at every moment.                                            *)
THEOREM LifecycleSound ==
    ASSUME "flows" \notin Modes PROVE Safety => []GoroutinesAccounted
  <1> QED
    BY OneLoop, DoneClosedOnce, NoOrphan, StopQuiets, PTL DEF GoroutinesAccounted
-----------------------------------------------------------------------------
(* No send on a closed channel.                                             *)

RoutedInv == TypeInv /\ LifeInv /\ Routed

LEMMA InitRouted == Init => Routed
  <1> SUFFICES ASSUME Init PROVE Routed
    OBVIOUS
  <1>1. \A p \in Ptr, k \in Slot : go[p][k].pend = {} /\ go[p][k].left = {}
    BY DEF Init, Off
  <1> QED
    BY <1>1 DEF Init, Routed, JoinedSendersSafe

(* A send to a running node finds its channel open.                         *)
LEMMA SendOpen ==
    ASSUME Routed, NEW t \in nodes, NEW who, send(t, who)
    PROVE  JoinedSendersSafe'
  BY DEF Routed, send, JoinedSendersSafe

(* The goroutines x of object p that a routing step may leave behind.       *)
MayBecome(p, k, x) ==
    /\ x \in Goroutine
    /\ ~x.on => x.pend = {} /\ x.left = {}
    /\ k \in Loop \/ p[1] \in Sources => x.pend \subseteq nodes
    /\ become(p, k, x)

LEMMA RoutedBecome ==
    ASSUME RoutedInv, NEW p \in Ptr, NEW k \in Slot, NEW x, MayBecome(p, k, x),
           UNCHANGED <<mode, nodes, closed, lt>>, JoinedSendersSafe'
    PROVE  Routed'
  <1>1. /\ go'[p][k] = x
        /\ \A q \in Ptr, j \in Slot : q # p \/ j # k => go'[q][j] = go[q][j]
    BY Become DEF RoutedInv, TypeInv, MayBecome
  <1>2. ASSUME NEW q \in Ptr, NEW j \in Slot
        PROVE  /\ ~go'[q][j].on => go'[q][j].pend = {} /\ go'[q][j].left = {}
               /\ j \in Loop \/ q[1] \in Sources => go'[q][j].pend \subseteq nodes
    <2>1. CASE q = p /\ j = k
      BY <1>1, <2>1 DEF MayBecome
    <2>2. CASE q # p \/ j # k
      BY <1>1, <2>2 DEF RoutedInv, Routed
    <2> QED
      BY <2>1, <2>2
  <1> QED
    BY <1>2 DEF RoutedInv, Routed

LEMMA RoutedLoopStep ==
    ASSUME RoutedInv, NEW p \in Ptr, NEW k \in Loop, LoopStep(p, k)
    PROVE  Routed'
  <1>0. /\ k \in Slot /\ go[p][k] \in Goroutine
        /\ UNCHANGED <<mode, nodes, closed, lt>>
        /\ go[p][k].pend \subseteq nodes
        /\ lt[p] \in SUBSET Ptr /\ lw[p] \in SUBSET NodeID
    <2>1. k \in Slot /\ go[p][k] \in Goroutine
      BY SlotFacts, GoParts DEF RoutedInv, TypeInv
    <2>2. UNCHANGED <<mode, nodes, closed, lt>>
      BY RoutingFrame DEF RoutedInv, jobVars
    <2> QED
      BY <2>1, <2>2 DEF RoutedInv, Routed, TypeInv, TypeOK
  <1>1. go[p][k].on => lt[p] \subseteq nodes
    BY DEF RoutedInv, Routed, LifeInv, Lifecycle, NoOrphanGoroutine, Progress, Stopping
  <1>2. CASE LoopReceive(p, k)
    <2>1. go[p][k].on /\ UNCHANGED panics
      <3>1. Idle.on
        BY DEF Idle
      <3> QED
        BY <1>2, <3>1 DEF LoopReceive, AtSelect
    <2>2. JoinedSendersSafe'
      BY <2>1 DEF RoutedInv, Routed, JoinedSendersSafe
    <2>3. ASSUME NEW L, NEW P
          PROVE  /\ Sending(P).on /\ Sending(P).pend = P
                 /\ Routing(L).on /\ Routing(L).pend = {}
      BY DEF Sending, Routing
    <2>4. CASE p[1] \in Sources
      <3>1. MayBecome(p, k, Sending(lt[p]))
        BY <1>0, <1>1, <1>2, <2>1, <2>3, <2>4, GoroutineMade DEF LoopReceive, MayBecome
      <3> QED
        BY <1>0, <2>2, <3>1, RoutedBecome
    <2>5. CASE p[1] \notin Sources
      <3>1. PICK out \in SUBSET lw[p] : become(p, k, Routing(out))
        BY <1>2, <2>5 DEF LoopReceive
      <3>2. MayBecome(p, k, Routing(out))
        BY <1>0, <2>3, <3>1, GoroutineMade DEF MayBecome
      <3> QED
        BY <1>0, <2>2, <3>2, RoutedBecome
    <2> QED
      BY <2>4, <2>5
  <1>3. CASE LoopRoute(p, k)
    <2>1. PICK n \in go[p][k].left :
             become(p, k, [go[p][k] EXCEPT !.left = @ \ {n},
                                           !.pend = {t \in lt[p] : t[1] = n}])
      BY <1>3 DEF LoopRoute
    <2> DEFINE x == [go[p][k] EXCEPT !.left = @ \ {n}, !.pend = {t \in lt[p] : t[1] = n}]
    <2>2. x \in Goroutine
      <3>1. go[p][k].left \ {n} \in SUBSET NodeID /\ {t \in lt[p] : t[1] = n} \in SUBSET Ptr
        BY <1>0, GoroutineParts
      <3> QED
        BY <1>0, <3>1, GoroutineMade
    <2>3. x.on = go[p][k].on /\ x.pend = {t \in lt[p] : t[1] = n}
      BY <1>0 DEF Goroutine
    <2>4. go[p][k].on
      BY <1>0, <2>1 DEF RoutedInv, Routed
    <2>5. MayBecome(p, k, x)
      BY <1>1, <2>1, <2>2, <2>3, <2>4 DEF MayBecome
    <2>6. JoinedSendersSafe'
      BY <1>3 DEF LoopRoute, RoutedInv, Routed, JoinedSendersSafe
    <2> QED
      BY <1>0, <2>5, <2>6, RoutedBecome
  <1>4. CASE LoopSend(p, k)
    <2>1. PICK t \in go[p][k].pend :
             send(t, "loop send") /\ become(p, k, [go[p][k] EXCEPT !.pend = @ \ {t}])
      BY <1>4 DEF LoopSend
    <2> DEFINE x == [go[p][k] EXCEPT !.pend = @ \ {t}]
    <2>2. x \in Goroutine
      BY <1>0, SendParts DEF RoutedInv
    <2>3. /\ x.on = go[p][k].on /\ x.left = go[p][k].left
          /\ x.pend = go[p][k].pend \ {t}
      BY <1>0 DEF Goroutine
    <2>4. MayBecome(p, k, x)
      BY <1>0, <2>1, <2>2, <2>3 DEF MayBecome, RoutedInv, Routed
    <2>5. JoinedSendersSafe'
      BY <1>0, <2>1, SendOpen DEF RoutedInv
    <2> QED
      BY <1>0, <2>4, <2>5, RoutedBecome
  <1> QED
    BY <1>2, <1>3, <1>4 DEF LoopStep

(* An object with a source goroutine is in the map, and so are its targets. *)
LEMMA SourceTargets ==
    ASSUME RoutedInv, NEW p \in Ptr, p[1] \in Sources, go[p][0].on
    PROVE  lt[p] \subseteq nodes
  <1>1. p \in nodes \cup batch
    BY DEF RoutedInv, LifeInv, Lifecycle, NoOrphanGoroutine
  <1>2. batch \subseteq nodes
    BY DEF RoutedInv, Routed, LifeInv, Progress
  <1> QED
    BY <1>1, <1>2 DEF RoutedInv, Routed

LEMMA RoutedOwnStep ==
    ASSUME RoutedInv, NEW p \in Ptr, OwnStep(p)
    PROVE  Routed'
  <1>0. /\ 0 \in Slot /\ 0 \notin Loop /\ go[p][0] \in Goroutine
        /\ UNCHANGED <<mode, nodes, closed, lt>>
        /\ lt[p] \in SUBSET Ptr
    <2>1. 0 \in Slot /\ 0 \notin Loop /\ go[p][0] \in Goroutine
      BY SlotFacts, GoParts DEF RoutedInv, TypeInv
    <2>2. UNCHANGED <<mode, nodes, closed, lt>>
      BY RoutingFrame DEF RoutedInv, jobVars
    <2> QED
      BY <2>1, <2>2 DEF RoutedInv, TypeInv, TypeOK
  <1>1. ASSUME NEW P PROVE Sending(P).on /\ Sending(P).pend = P
    BY DEF Sending
  <1>2. CASE SourceEmit(p)
    <2>1. p[1] \in Sources /\ go[p][0].on /\ UNCHANGED panics
      <3>1. Idle.on
        BY DEF Idle
      <3> QED
        BY <1>2, <3>1 DEF SourceEmit, AtSelect
    <2>2. MayBecome(p, 0, Sending(lt[p]))
      BY <1>0, <1>1, <1>2, <2>1, SourceTargets, GoroutineMade DEF SourceEmit, MayBecome
    <2>3. JoinedSendersSafe'
      BY <2>1 DEF RoutedInv, Routed, JoinedSendersSafe
    <2> QED
      BY <1>0, <2>2, <2>3, RoutedBecome
  <1>3. CASE SourceSend(p)
    <2>1. PICK t \in go[p][0].pend :
             send(t, "source send") /\ become(p, 0, [go[p][0] EXCEPT !.pend = @ \ {t}])
      BY <1>3 DEF SourceSend
    <2> DEFINE x == [go[p][0] EXCEPT !.pend = @ \ {t}]
    <2>2. p[1] \in Sources /\ go[p][0].pend \subseteq nodes
      BY <1>0, <1>3 DEF SourceSend, RoutedInv, Routed
    <2>3. x \in Goroutine
      BY <1>0, SendParts DEF RoutedInv
    <2>4. /\ x.on = go[p][0].on /\ x.left = go[p][0].left
          /\ x.pend = go[p][0].pend \ {t}
      BY <1>0 DEF Goroutine
    <2>5. MayBecome(p, 0, x)
      BY <1>0, <2>1, <2>2, <2>3, <2>4 DEF MayBecome, RoutedInv, Routed
    <2>6. JoinedSendersSafe'
      BY <2>1, <2>2, SendOpen DEF RoutedInv
    <2> QED
      BY <1>0, <2>5, <2>6, RoutedBecome
  <1>4. CASE HandlerEnter(p)
    <2>1. p[1] \notin Sources
      BY <1>4, EngineAssumption DEF HandlerEnter, RoutedInv, TypeInv, TypeOK
    <2>2. MayBecome(p, 0, Sending(lt[p]))
      BY <1>0, <1>1, <1>4, <2>1, GoroutineMade DEF HandlerEnter, MayBecome
    <2>3. JoinedSendersSafe'
      BY <1>4 DEF HandlerEnter, RoutedInv, Routed, JoinedSendersSafe
    <2> QED
      BY <1>0, <2>2, <2>3, RoutedBecome
  <1>5. CASE HandlerSend(p)
    <2> DEFINE y(t) == [go[p][0] EXCEPT !.pend = @ \ {t}]
    <2>1. PICK t \in go[p][0].pend :
             /\ send(t, "handler send")
             /\ become(p, 0, IF closed[t] \/ go[p][0].pend = {t} THEN Off ELSE y(t))
      BY <1>5 DEF HandlerSend
    <2>2. p[1] \notin Sources
      BY <1>5, EngineAssumption DEF HandlerSend
    <2>3. /\ y(t) \in Goroutine
          /\ y(t).on = go[p][0].on /\ y(t).left = go[p][0].left
          /\ y(t).pend = go[p][0].pend \ {t}
      <3>1. y(t) \in Goroutine
        BY <1>0, SendParts DEF RoutedInv
      <3> QED
        BY <1>0, <3>1 DEF Goroutine
    <2>4. Off.pend = {} /\ Off.left = {} /\ Off \in Goroutine
      BY OffType DEF Off
    <2>5. \E x : MayBecome(p, 0, x)
      <3>1. CASE closed[t] \/ go[p][0].pend = {t}
        BY <1>0, <2>1, <2>2, <2>4, <3>1 DEF MayBecome
      <3>2. CASE ~(closed[t] \/ go[p][0].pend = {t})
        <4>1. become(p, 0, y(t))
          BY <2>1, <3>2
        <4>2. ~y(t).on => y(t).pend = {} /\ y(t).left = {}
          BY <1>0, <2>3 DEF RoutedInv, Routed
        <4> HIDE DEF y
        <4> QED
          BY <1>0, <2>2, <2>3, <4>1, <4>2 DEF MayBecome
      <3> QED
        BY <3>1, <3>2
    <2>6. JoinedSendersSafe'
      BY <2>1 DEF send, RoutedInv, Routed, JoinedSendersSafe
    <2> QED
      BY <1>0, <2>5, <2>6, RoutedBecome
  <1>6. CASE TimerEnter(p)
    <2>1. p[1] \notin Sources
      BY <1>6, EngineAssumption DEF TimerEnter, RoutedInv, TypeInv, TypeOK
    <2>2. MayBecome(p, 0, Sending(lt[p]))
      BY <1>0, <1>1, <1>6, <2>1, GoroutineMade DEF TimerEnter, MayBecome
    <2>3. JoinedSendersSafe'
      BY <1>6 DEF TimerEnter, RoutedInv, Routed, JoinedSendersSafe
    <2> QED
      BY <1>0, <2>2, <2>3, RoutedBecome
  <1>7. CASE TimerSend(p)
    <2> DEFINE y(t) == [go[p][0] EXCEPT !.pend = @ \ {t}]
    <2>1. PICK t \in go[p][0].pend :
             /\ send(t, "timer send")
             /\ become(p, 0, IF go[p][0].pend = {t} THEN Off ELSE y(t))
      BY <1>7 DEF TimerSend
    <2>2. p[1] \notin Sources
      BY <1>7, EngineAssumption DEF TimerSend
    <2>3. /\ y(t) \in Goroutine
          /\ y(t).on = go[p][0].on /\ y(t).left = go[p][0].left
          /\ y(t).pend = go[p][0].pend \ {t}
      <3>1. y(t) \in Goroutine
        BY <1>0, SendParts DEF RoutedInv
      <3> QED
        BY <1>0, <3>1 DEF Goroutine
    <2>4. Off.pend = {} /\ Off.left = {} /\ Off \in Goroutine
      BY OffType DEF Off
    <2>5. \E x : MayBecome(p, 0, x)
      <3>1. CASE go[p][0].pend = {t}
        BY <1>0, <2>1, <2>2, <2>4, <3>1 DEF MayBecome
      <3>2. CASE go[p][0].pend # {t}
        <4>1. become(p, 0, y(t))
          BY <2>1, <3>2
        <4>2. ~y(t).on => y(t).pend = {} /\ y(t).left = {}
          BY <1>0, <2>3 DEF RoutedInv, Routed
        <4> HIDE DEF y
        <4> QED
          BY <1>0, <2>2, <2>3, <4>1, <4>2 DEF MayBecome
      <3> QED
        BY <3>1, <3>2
    <2>6. JoinedSendersSafe'
      BY <2>1 DEF send, RoutedInv, Routed, JoinedSendersSafe
    <2> QED
      BY <1>0, <2>5, <2>6, RoutedBecome
  <1> QED
    BY <1>2, <1>3, <1>4, <1>5, <1>6, <1>7 DEF OwnStep

LEMMA RoutedTrigger ==
    ASSUME RoutedInv, NEW p \in Ptr, TriggerNode(p)
    PROVE  Routed'
  <1>1. JoinedSendersSafe'
    BY SendOpen DEF RoutedInv, TriggerNode
  <1> QED
    BY <1>1 DEF RoutedInv, Routed, TriggerNode, jobVars

(* Steps that end a goroutine leave it with nothing to send.                *)
LEMMA RoutedEnd ==
    ASSUME RoutedInv, NEW p \in Ptr, NEW k \in Slot, become(p, k, Off),
           UNCHANGED <<mode, nodes, closed, lt>>,
           panics' \subseteq panics \cup {"close of done"}
    PROVE  Routed'
  <1>1. Off.pend = {} /\ Off.left = {} /\ Off \in Goroutine
    BY OffType DEF Off
  <1>2. MayBecome(p, k, Off)
    BY <1>1 DEF MayBecome
  <1>3. JoinedSendersSafe'
    BY DEF RoutedInv, Routed, JoinedSendersSafe
  <1> QED
    BY <1>2, <1>3, RoutedBecome

LEMMA RoutedLoopExit ==
    ASSUME RoutedInv, NEW p \in Ptr, NEW k \in Loop, LoopExit(p, k)
    PROVE  Routed'
  BY RoutedEnd, SlotFacts DEF LoopExit, jobVars

(* Steps that leave the routing alone.                                      *)
LEMMA RoutedFrame ==
    ASSUME Routed, UNCHANGED <<nodes, closed, lt, go>>, mode' # "nodes",
           panics' \subseteq panics \cup {"close of done"}
    PROVE  Routed'
  BY DEF Routed, JoinedSendersSafe

LEMMA RoutedStopInstance ==
    ASSUME RoutedInv, NEW p \in Ptr, StopInstance(p)
    PROVE  Routed'
  <1>1. CASE p[1] \in Sources
    BY <1>1, RoutedEnd, SlotFacts DEF StopInstance
  <1>2. CASE p[1] \notin Sources
    BY <1>2, RoutedFrame DEF StopInstance, RoutedInv, Routed
  <1> QED
    BY <1>1, <1>2

LEMMA RoutedOperation ==
    ASSUME RoutedInv, Modes \subseteq {"full"},
           Start \/ Stop \/ \E w \in Workspaces, m \in Modes : Deploy(w, m)
    PROVE  Routed'
  <1>1. CASE Start
    BY <1>1, RoutedFrame DEF Start, jobVars, objVars, RoutedInv, Routed
  <1>2. CASE Stop
    BY <1>2, RoutedFrame DEF Stop, objVars, RoutedInv
  <1>3. ASSUME NEW w \in Workspaces, NEW m \in Modes, Deploy(w, m) PROVE Routed'
    <2>1. mode' = "full"
      BY <1>3 DEF Deploy, deployFull
    <2> QED
      BY <1>3, <2>1, RoutedFrame DEF Deploy, objVars, RoutedInv
  <1> QED
    BY <1>1, <1>2, <1>3

(* The channels are closed when nobody has one of them left to send to:     *)
(* every loop and every source goroutine has ended, and none is pending.    *)
LEMMA RoutedCloseInputs ==
    ASSUME RoutedInv, CloseInputs
    PROVE  Routed'
  <1>1. /\ UNCHANGED <<mode, lt, go, panics>> /\ pc = "await" /\ AllDone /\ nodes' = {}
        /\ batch = nodes
    BY DEF CloseInputs, RoutedInv, Routed, LifeInv, Progress, Stopping
  <1>2. ASSUME NEW p \in Ptr, NEW k \in Slot, k \in Loop \/ p[1] \in Sources
        PROVE  go[p][k].pend = {}
    <2>1. k \in Loop \/ k = 0
      BY EngineAssumption DEF Slot, Loop
    <2>2. ~go[p][k].on
      <3>1. CASE p \in batch
        BY <1>1, <1>2, <2>1, <3>1, BatchQuiet DEF RoutedInv
      <3>2. CASE p \notin batch
        BY <1>1, <1>2, <2>1, <3>2 DEF RoutedInv, LifeInv, Lifecycle, NoOrphanGoroutine
      <3> QED
        BY <3>1, <3>2
    <2> QED
      BY <2>2 DEF RoutedInv, Routed
  <1> QED
    BY <1>1, <1>2 DEF RoutedInv, Routed, JoinedSendersSafe

LEMMA RoutedBuild ==
    ASSUME RoutedInv, Build
    PROVE  Routed'
  <1>1. PICK new : IsNew(new)
    BY BuildParts DEF RoutedInv
  <1>2. UNCHANGED <<mode, go, panics>> /\ nodes = {} /\ new \subseteq Ptr
    BY <1>1 DEF Build, RoutedInv, Routed, LifeInv, Progress, IsNew
  <1>3. /\ nodes' = new
        /\ \A p \in new : lt'[p] \subseteq new /\ closed'[p] = FALSE
    BY <1>1, <1>2 DEF IsNew, instantiate, wireAllNodes, Entered
  <1>4. ASSUME NEW p \in Ptr, NEW k \in Slot, k \in Loop \/ p[1] \in Sources
        PROVE  go[p][k].pend = {}
    BY <1>2, <1>4 DEF RoutedInv, Routed
  <1> QED
    BY <1>2, <1>3, <1>4 DEF RoutedInv, Routed, JoinedSendersSafe

LEMMA RoutedStartNode ==
    ASSUME RoutedInv, NEW p \in Ptr, StartNode(p)
    PROVE  Routed'
  <1>1. UNCHANGED <<mode, nodes, closed, lt>>
    BY DEF StartNode
  <1>2. CASE StartOK(p)
    <2>1. PICK k \in Loop :
             go' = [go EXCEPT ![p] = [j \in Slot |->
                      IF j = k \/ (j = 0 /\ p[1] \in Sources /\ ~@[0].on)
                      THEN Idle ELSE @[j]]]
      BY <1>2 DEF StartOK
    <2>2. go \in [Ptr -> [Slot -> Goroutine]] /\ UNCHANGED panics
      BY <1>2 DEF StartOK, RoutedInv, TypeInv, TypeOK
    <2>3. Idle.on /\ Idle.pend = {}
      BY DEF Idle
    <2>4. \A q \in Ptr, j \in Slot : go'[q][j] = go[q][j] \/ go'[q][j] = Idle
      BY <2>1, <2>2
    <2>5. ASSUME NEW q \in Ptr, NEW j \in Slot
          PROVE  /\ ~go'[q][j].on => go'[q][j].pend = {} /\ go'[q][j].left = {}
                 /\ j \in Loop \/ q[1] \in Sources => go'[q][j].pend \subseteq nodes
      BY <2>3, <2>4 DEF RoutedInv, Routed
    <2> QED
      BY <1>1, <2>2, <2>5 DEF RoutedInv, Routed, JoinedSendersSafe
  <1>3. CASE StartFails(p)
    <2>1. go' = go /\ panics' \subseteq panics \cup {"close of done"}
      BY <1>3 DEF StartFails
    <2> QED
      BY <1>1, <2>1, RoutedFrame DEF RoutedInv, Routed
  <1> QED
    BY <1>2, <1>3 DEF StartNode

LEMMA RoutedNext ==
    ASSUME RoutedInv, Modes \subseteq {"full"}, [Next]_vars
    PROVE  Routed'
  <1>1. CASE Operation
    BY <1>1, RoutedOperation, RoutedTrigger DEF Operation
  <1>2. CASE EngineStep
    <2>1. /\ ~(\E f \in FlowID : stopNodesInFlow(f)) /\ ~AllFlowsStopped /\ ~DetachModified
      BY DEF stopNodesInFlow, AllFlowsStopped, DetachModified, RoutedInv, Routed, LifeInv,
         Progress
    <2>2. CASE DeployConfigs \/ SignalStop \/ StopEngine \/ FinishDeploy
      BY <2>2, RoutedFrame DEF DeployConfigs, SignalStop, StopEngine, FinishDeploy, objVars,
         RoutedInv, Routed
    <2> QED
      BY <1>2, <2>1, <2>2, RoutedCloseInputs, RoutedBuild, RoutedStartNode DEF EngineStep
  <1>3. CASE \E p \in Ptr : StopInstance(p)
    BY <1>3, RoutedStopInstance
  <1>4. CASE \E p \in Ptr, k \in Loop : LoopExit(p, k)
    BY <1>4, RoutedLoopExit
  <1>5. CASE \E p \in Ptr, k \in Loop : LoopStep(p, k)
    BY <1>5, RoutedLoopStep
  <1>6. CASE \E p \in Ptr : OwnStep(p)
    BY <1>6, RoutedOwnStep
  <1>7. CASE UNCHANGED vars
    BY <1>7, RoutedFrame DEF vars, jobVars, objVars, RoutedInv, Routed
  <1> QED
    BY <1>1, <1>2, <1>3, <1>4, <1>5, <1>6, <1>7 DEF Next

(* An engine whose deploys are all full deploys closes an input channel     *)
(* only when no loop, no source and no trigger can still send to it: every  *)
(* sender that stopAllNodes or a node's Stop waits for is gone.  The timers *)
(* and handlers that nobody waits for may still send (NoSendOnClosed).      *)
THEOREM JoinedSendersFinish ==
    ASSUME Modes \subseteq {"full"} PROVE Safety => []JoinedSendersSafe
  <1>1. Init => RoutedInv
    BY InitType, InitLife, InitRouted DEF RoutedInv
  <1>2. "flows" \notin Modes
    OBVIOUS
  <1>3. RoutedInv /\ [Next]_vars => RoutedInv'
    BY <1>2, TypeNext, LifeNext, RoutedNext DEF RoutedInv
  <1>4. RoutedInv => JoinedSendersSafe
    BY DEF RoutedInv, Routed
  <1> QED
    BY <1>1, <1>3, <1>4, PTL DEF Safety

(* A full deploy and Stop are safe at any moment, whatever the nodes are     *)
(* routing, for every goroutine they wait for.                               *)
THEOREM FullDeploysSafe ==
    ASSUME Modes \subseteq {"full"} PROVE Safety => []FullDeploySafe
  <1>1. "flows" \notin Modes
    OBVIOUS
  <1> QED
    BY <1>1, JoinedSendersFinish, DoneClosedOnce, NoOrphan, PTL DEF FullDeploySafe
-----------------------------------------------------------------------------
(* In an engine whose deploys are all "full" a node holds a config instance  *)
(* only while it is in the map, and lets go of it when it is stopped.        *)
Holders ==
    /\ mode # "nodes"
    /\ \A p \in Ptr : held[p] # "stopped"
    /\ \A p \in Ptr \ nodes : held[p] = "none"
    /\ Stopping => \A p \in batch \ todo : held[p] = "none"

LEMMA HoldersFrame ==
    ASSUME Holders, UNCHANGED <<mode, nodes, batch, todo, held>>, Stopping' => Stopping
    PROVE  Holders'
  BY DEF Holders

LEMMA HoldersNext ==
    ASSUME Modes \subseteq {"full"}, TypeInv, LifeInv, Holders, [Next]_vars
    PROVE  Holders'
  <1>0. /\ nodes \subseteq Ptr /\ batch \subseteq Ptr /\ todo \subseteq Ptr
        /\ held \in [Ptr -> {"none", "live", "stopped"}]
        /\ mode \in {"full", "stop"}
    BY DEF TypeInv, TypeOK, LifeInv, Progress, Holders
  <1>1. CASE \E p \in Ptr : TriggerNode(p)
    BY <1>1, HoldersFrame DEF TriggerNode, jobVars, Stopping
  <1>2. CASE \E p \in Ptr : OwnStep(p)
    BY <1>2, HoldersFrame DEF OwnStep, SourceEmit, SourceSend, HandlerEnter, HandlerSend,
       TimerEnter, TimerSend, jobVars, objVars, Stopping
  <1>3. CASE \E p \in Ptr, k \in Loop : LoopStep(p, k) \/ LoopExit(p, k)
    BY <1>3, HoldersFrame DEF LoopStep, LoopReceive, LoopRoute, LoopSend, LoopExit, jobVars,
       objVars, Stopping
  <1>4. CASE Start
    BY <1>4, HoldersFrame DEF Start, jobVars, objVars, Stopping
  <1>5. CASE Stop
    BY <1>5 DEF Stop, BeginStopAll, objVars, Holders
  <1>6. ASSUME NEW w \in Workspaces, NEW m \in Modes, Deploy(w, m)
        PROVE  Holders'
    BY <1>6 DEF Deploy, deployFull, BeginStopAll, objVars, Holders
  <1>7. CASE DeployConfigs
    <2>1. nodes = {} /\ pc' = "build" /\ UNCHANGED <<mode, nodes>>
      BY <1>0, <1>7 DEF DeployConfigs, LifeInv, Progress, TypeInv, JobOK
    <2>2. \A p \in Ptr : held[p] = "none"
      BY <2>1 DEF Holders
    <2>3. \A p \in Ptr : held'[p] = "none"
      BY <1>7, <2>2 DEF DeployConfigs, Pull
    <2> QED
      BY <1>0, <2>1, <2>3 DEF Holders, Stopping
  <1>8. CASE DetachModified \/ AllFlowsStopped \/ \E f \in FlowID : stopNodesInFlow(f)
    BY <1>0, <1>8 DEF DetachModified, AllFlowsStopped, stopNodesInFlow, LifeInv, Progress
  <1>9. ASSUME NEW p \in Ptr, StopInstance(p)
        PROVE  Holders'
    <2>1. /\ held' = [held EXCEPT ![p] = "none"] /\ todo' = todo \ {p}
          /\ UNCHANGED <<pc, mode, nodes, batch>>
      BY <1>9 DEF StopInstance
    <2> QED
      BY <1>0, <2>1 DEF Holders, Stopping
  <1>10. CASE SignalStop
    BY <1>10, HoldersFrame DEF SignalStop, Stopping
  <1>11. CASE CloseInputs
    <2>1. batch = nodes /\ todo = {}
      BY <1>0, <1>11 DEF CloseInputs, LifeInv, Progress, Stopping
    <2>2. \A p \in Ptr : held[p] = "none"
      BY <1>11, <2>1 DEF Holders, Stopping, CloseInputs
    <2>3. \A p \in Ptr : held'[p] = "none"
      BY <1>0, <1>11, <2>2 DEF CloseInputs, Pull
    <2>4. mode' = mode /\ batch' = {}
      BY <1>11 DEF CloseInputs
    <2> QED
      BY <1>0, <2>3, <2>4 DEF Holders
  <1>12. CASE StopEngine \/ FinishDeploy
    BY <1>12, HoldersFrame DEF StopEngine, FinishDeploy, objVars, Stopping
  <1>13. CASE Build
    <2>1. PICK new : IsNew(new)
      BY <1>13, BuildParts
    <2>2. /\ nodes = {} /\ pc' = "start" /\ mode' = mode
          /\ held' = [p \in Ptr |-> IF p \in new THEN "none" ELSE held[p]]
      BY <1>0, <1>13, <2>1 DEF Build, IsNew, instantiate, LifeInv, Progress
    <2>3. \A p \in Ptr : held'[p] = "none"
      BY <2>2 DEF Holders
    <2> QED
      BY <1>0, <2>2, <2>3 DEF Holders, Stopping
  <1>14. ASSUME NEW p \in Ptr, StartNode(p)
         PROVE  Holders'
    <2>1. /\ pc = "start" /\ p \in nodes /\ UNCHANGED <<pc, mode, nodes, batch>>
      BY <1>14 DEF StartNode, LifeInv, Progress
    <2>2. \/ held' = held
          \/ held' = [held EXCEPT ![p] = IF def[p].ref = NoConfig THEN "none" ELSE "live"]
      BY <1>14 DEF StartNode, StartOK, StartFails
    <2> QED
      BY <1>0, <2>1, <2>2 DEF Holders, Stopping
  <1>15. CASE UNCHANGED vars
    BY <1>15, HoldersFrame DEF vars, jobVars, objVars, Stopping
  <1> QED
    BY <1>1, <1>2, <1>3, <1>4, <1>5, <1>6, <1>7, <1>8, <1>9, <1>10, <1>11, <1>12,
       <1>13, <1>14, <1>15 DEF Next, Operation, EngineStep

(* A full deploy and Stop stop a config instance only after every node that  *)
(* uses it has been stopped ("Config instances Stop() AFTER regular nodes    *)
(* Stop()"), also when nodes or config instances fail to start.              *)
THEOREM ConfigStoppedLast ==
    ASSUME Modes \subseteq {"full"} PROVE Safety => []ConfigOutlivesUsers
  <1>1. "flows" \notin Modes
    OBVIOUS
  <1>2. Init => Holders
    BY DEF Init, Holders, Stopping
  <1>3. TypeInv /\ LifeInv /\ Holders /\ [Next]_vars => Holders'
    BY HoldersNext
  <1>4. Holders => ConfigOutlivesUsers
    BY DEF Holders, ConfigOutlivesUsers
  <1> QED
    BY <1>1, <1>2, <1>3, <1>4, LifeAlways, PTL DEF Safety
=============================================================================
