-------------------------- MODULE ResponseRegistry --------------------------
(***************************************************************************)
(* HTTP requests answered by a flow: internal/flow/response_registry.go,   *)
(* the handler of the http-in node (nodes/network/http_in.go), the         *)
(* http-response node (nodes/network/http_response.go) and the engine's    *)
(* use of them in Start, Stop and rebuildHTTPMux (flow/engine.go).         *)
(*                                                                         *)
(* The handler of a request registers a slot, sends a message with its     *)
(* handle into the flow and blocks until the slot's done channel is        *)
(* closed.  The slot is completed, under its sync.Once, by a branch of the *)
(* flow that ends in an http-response node, by the timeout sweeper or by   *)
(* DrainAll.  A request names its slot: handle IDs are fresh.              *)
(***************************************************************************)
EXTENDS Integers, FiniteSets

CONSTANTS Req,     \* the requests
          Branch,  \* the branches of a flow that end in an http-response node
          Timed,   \* the requests whose http-in node has a response timeout
          Panics,  \* the requests whose Send may panic (see FlowEngine)
          Nobody

ASSUME RegistryAssumption ==
    /\ Timed \subseteq Req
    /\ Panics \subseteq Req
    /\ {"sweeper", "drain", "handler"} \cap Branch = {}
    /\ Nobody \notin Branch \cup {"sweeper", "drain", "handler"}

Party == Branch \cup {"sweeper", "drain", "handler"}

VARIABLES
    slots,    \* ResponseRegistry.slots
    due,      \* the slots in the map whose deadline has passed
    once,     \* ResponseSlot.once: "open", "busy" while the write runs, "done"
    writer,   \* who entered the once first
    writes,   \* the responses written to the ResponseWriter, by whomever
    closed,   \* ResponseSlot.done is closed
    handler,  \* where the http-in handler of the request stands
    reply,    \* where each branch's registry.Complete call stands
    sweeper,  \* the sweeper goroutine: "off", "idle" or "busy"
    expired,  \* the slots it has taken from the map
    engine,   \* what the engine does to the registry
    job,      \* whether it does so in Stop or in a deploy ("stop" between two)
    victims,  \* the slots DrainAll has taken from the map
    routes    \* the live route table has http-in routes

slotVars == <<slots, due, once, writer, writes, closed>>
sweepVars == <<sweeper, expired>>
engineVars == <<engine, job, victims, routes>>
vars == <<slotVars, handler, reply, sweepVars, engineVars>>

Init ==
    /\ slots = {}
    /\ due = {}
    /\ once = [r \in Req |-> "open"]
    /\ writer = [r \in Req |-> Nobody]
    /\ writes = [r \in Req |-> 0]
    /\ closed = [r \in Req |-> FALSE]
    /\ handler = [r \in Req |-> "new"]
    /\ reply = [r \in Req |-> [b \in Branch |-> "idle"]]
    /\ sweeper = "off"
    /\ expired = {}
    /\ engine = "down"
    /\ job = "stop"
    /\ victims = {}
    /\ routes = FALSE
-----------------------------------------------------------------------------
(* ResponseSlot.Complete, called by a: the first caller enters the once and *)
(* writes the response ...                                                  *)
BeginWriteTwice(r, a) ==
    /\ once' = [once EXCEPT ![r] = "busy"]
    /\ writer' = [writer EXCEPT ![r] = a]
    /\ writes' = [writes EXCEPT ![r] = @ + 1]
    /\ UNCHANGED <<slots, due, closed>>
BeginWriteEarlyClose(r, a) ==
    /\ once[r] = "open"
    /\ once' = [once EXCEPT ![r] = "busy"]
    /\ writer' = [writer EXCEPT ![r] = a]
    /\ writes' = [writes EXCEPT ![r] = @ + 1]
    /\ closed' = [closed EXCEPT ![r] = TRUE]
    /\ UNCHANGED <<slots, due>>
BeginWrite(r, a) ==
    /\ once[r] = "open"
    /\ once' = [once EXCEPT ![r] = "busy"]
    /\ writer' = [writer EXCEPT ![r] = a]
    /\ writes' = [writes EXCEPT ![r] = @ + 1]
    /\ UNCHANGED <<slots, due, closed>>

(* ... and then closes done.                                                *)
EndWriteNoClose(r, a) ==
    /\ once[r] = "busy"
    /\ writer[r] = a
    /\ once' = [once EXCEPT ![r] = "done"]
    /\ UNCHANGED <<slots, due, writer, writes, closed>>
EndWrite(r, a) ==
    /\ once[r] = "busy"
    /\ writer[r] = a
    /\ once' = [once EXCEPT ![r] = "done"]
    /\ closed' = [closed EXCEPT ![r] = TRUE]
    /\ UNCHANGED <<slots, due, writer, writes>>

(* A later caller waits until the once is done and writes nothing.          *)
LostOnce(r, a) == once[r] = "done" /\ writer[r] # a
-----------------------------------------------------------------------------
(* The http-in handler.                                                     *)

Accept(r) ==
    /\ routes
    /\ handler[r] = "new"
    /\ handler' = [handler EXCEPT ![r] = "read"]
    /\ UNCHANGED <<slotVars, reply, sweepVars, engineVars>>

(* readBody fails: the handler answers 400, 413 or 415 by itself.           *)
Reject(r) ==
    /\ handler[r] = "read"
    /\ handler' = [handler EXCEPT ![r] = "returned"]
    /\ writer' = [writer EXCEPT ![r] = "handler"]
    /\ writes' = [writes EXCEPT ![r] = @ + 1]
    /\ UNCHANGED <<slots, due, once, closed, reply, sweepVars, engineVars>>

Register(r) ==
    /\ handler[r] = "read"
    /\ handler' = [handler EXCEPT ![r] = "send"]
    /\ slots' = slots \cup {r}
    /\ UNCHANGED <<due, once, writer, writes, closed, reply, sweepVars, engineVars>>

(* The message enters the flow (or is dropped) and the handler waits.       *)
Send(r) ==
    /\ handler[r] = "send"
    /\ handler' = [handler EXCEPT ![r] = "wait"]
    /\ UNCHANGED <<slotVars, reply, sweepVars, engineVars>>

(* A deploy has closed the channel of a target: the handler unwinds, the    *)
(* server's Recoverer writes a 500 and the request is over.  Its slot stays *)
(* registered, and other targets may have got the message.                  *)
SendPanics(r) ==
    /\ r \in Panics
    /\ handler[r] = "send"
    /\ handler' = [handler EXCEPT ![r] = "panicked"]
    /\ writes' = [writes EXCEPT ![r] = @ + 1]
    /\ UNCHANGED <<slots, due, once, writer, closed, reply, sweepVars, engineVars>>

(* <-done                                                                   *)
ReturnOnceUnregistered(r) ==
    /\ handler[r] = "wait"
    /\ closed[r] \/ r \notin slots
    /\ handler' = [handler EXCEPT ![r] = "returned"]
    /\ UNCHANGED <<slotVars, reply, sweepVars, engineVars>>
Return(r) ==
    /\ handler[r] = "wait"
    /\ closed[r]
    /\ handler' = [handler EXCEPT ![r] = "returned"]
    /\ UNCHANGED <<slotVars, reply, sweepVars, engineVars>>

(* The deadline of a registered slot passes.                                *)
ElapseUntimed(r) ==
    /\ r \in slots \ due
    /\ due' = due \cup {r}
    /\ UNCHANGED <<slots, once, writer, writes, closed, handler, reply, sweepVars,
                   engineVars>>
Elapse(r) ==
    /\ r \in (Timed \cap slots) \ due
    /\ due' = due \cup {r}
    /\ UNCHANGED <<slots, once, writer, writes, closed, handler, reply, sweepVars,
                   engineVars>>
-----------------------------------------------------------------------------
(* http-response: ResponseRegistry.Complete.  A first target may answer     *)
(* while the handler still sends to the others.                             *)
step(r, b, s) == reply' = [reply EXCEPT ![r][b] = s]

Lookup(r, b) ==
    /\ reply[r][b] = "idle"
    /\ handler[r] \in {"send", "wait", "returned", "panicked"}
    /\ step(r, b, IF r \in slots THEN "found" ELSE "ErrUnknownHandle")
    /\ UNCHANGED <<slotVars, handler, sweepVars, engineVars>>

CompleteUnchecked(r, b) ==
    /\ reply[r][b] = "found"
    /\ \/ BeginWrite(r, b) /\ UNCHANGED reply
       \/ EndWrite(r, b) /\ step(r, b, "delete")
       \/ LostOnce(r, b) /\ step(r, b, "delete") /\ UNCHANGED slotVars
    /\ UNCHANGED <<handler, sweepVars, engineVars>>
Complete(r, b) ==
    /\ reply[r][b] = "found"
    /\ \/ BeginWrite(r, b) /\ UNCHANGED reply
       \/ EndWrite(r, b) /\ step(r, b, "delete")
       \/ /\ LostOnce(r, b)
          /\ step(r, b, "ErrAlreadyCompleted")
          /\ UNCHANGED slotVars
    /\ UNCHANGED <<handler, sweepVars, engineVars>>

DeleteForgotten(r, b) ==
    /\ reply[r][b] = "delete"
    /\ step(r, b, "ok")
    /\ UNCHANGED <<slotVars, handler, sweepVars, engineVars>>
Delete(r, b) ==
    /\ reply[r][b] = "delete"
    /\ slots' = slots \ {r}
    /\ due' = due \ {r}
    /\ step(r, b, "ok")
    /\ UNCHANGED <<once, writer, writes, closed, handler, sweepVars, engineVars>>
-----------------------------------------------------------------------------
(* The sweeper: takes what is due from the map under the lock, and          *)
(* completes it after the lock is released.                                 *)
sweepExpired ==
    /\ sweeper = "idle"
    /\ slots \cap due # {}
    /\ sweeper' = "busy"
    /\ expired' = slots \cap due
    /\ slots' = slots \ due
    /\ due' = {}
    /\ UNCHANGED <<once, writer, writes, closed, handler, reply, engineVars>>

Timeout(r) ==
    /\ sweeper = "busy"
    /\ r \in expired
    /\ \/ BeginWrite(r, "sweeper") /\ UNCHANGED expired
       \/ EndWrite(r, "sweeper") /\ expired' = expired \ {r}
       \/ LostOnce(r, "sweeper") /\ expired' = expired \ {r} /\ UNCHANGED slotVars
    /\ UNCHANGED <<handler, reply, sweeper, engineVars>>

Swept ==
    /\ sweeper = "busy"
    /\ expired = {}
    /\ sweeper' = "idle"
    /\ UNCHANGED <<slotVars, handler, reply, expired, engineVars>>
-----------------------------------------------------------------------------
(* The engine.                                                              *)

(* Engine.Start runs the sweeper.                                           *)
StartEngine ==
    /\ engine = "down"
    /\ engine' = "up"
    /\ sweeper' = "idle"
    /\ UNCHANGED <<slotVars, handler, reply, expired, job, victims, routes>>

(* Engine.Stop and rebuildHTTPMux swap the route table; a deploy may end    *)
(* with and without http-in nodes.                                          *)
Swap(j, open) ==
    /\ engine = "up"
    /\ j = "stop" => ~open
    /\ routes' = open
    /\ job' = j
    /\ engine' = "swapped"
    /\ UNCHANGED <<slotVars, handler, reply, sweepVars, victims>>

(* DrainAll: empties the map under the lock, then completes the slots.      *)
DrainAllKeepsDue ==
    /\ engine = "swapped"
    /\ victims' = slots \ due
    /\ slots' = {}
    /\ due' = {}
    /\ engine' = "draining"
    /\ UNCHANGED <<once, writer, writes, closed, handler, reply, sweepVars, job, routes>>
DrainAll ==
    /\ engine = "swapped"
    /\ victims' = slots
    /\ slots' = {}
    /\ due' = {}
    /\ engine' = "draining"
    /\ UNCHANGED <<once, writer, writes, closed, handler, reply, sweepVars, job, routes>>

Drain(r) ==
    /\ engine = "draining"
    /\ r \in victims
    /\ \/ BeginWrite(r, "drain") /\ UNCHANGED victims
       \/ EndWrite(r, "drain") /\ victims' = victims \ {r}
       \/ LostOnce(r, "drain") /\ victims' = victims \ {r} /\ UNCHANGED slotVars
    /\ UNCHANGED <<handler, reply, sweepVars, engine, job, routes>>

(* Engine.Stop then stops the sweeper and waits for it.                     *)
Drained ==
    /\ engine = "draining"
    /\ victims = {}
    /\ \/ /\ job = "deploy"
          /\ engine' = "up"
          /\ UNCHANGED sweeper
       \/ /\ job = "stop"
          /\ sweeper = "idle"
          /\ sweeper' = "off"
          /\ engine' = "down"
    /\ job' = "stop"
    /\ UNCHANGED <<slotVars, handler, reply, expired, victims, routes>>
-----------------------------------------------------------------------------
HandlerStep(r) == Accept(r) \/ Reject(r) \/ Register(r) \/ Send(r) \/ SendPanics(r) \/ Return(r)
BranchStep(r, b) == Lookup(r, b) \/ Complete(r, b) \/ Delete(r, b)
SweeperStep == sweepExpired \/ Swept \/ \E r \in Req : Timeout(r)
EngineStep == DrainAll \/ Drained \/ \E r \in Req : Drain(r)

Next ==
    \/ \E r \in Req : HandlerStep(r)
    \/ \E r \in Req : Elapse(r)
    \/ \E r \in Req, b \in Branch : BranchStep(r, b)
    \/ SweeperStep
    \/ StartEngine
    \/ \E j \in {"stop", "deploy"}, open \in BOOLEAN : Swap(j, open)
    \/ EngineStep

Safety == Init /\ [][Next]_vars

(* Goroutines that can run do: the handlers that have started, the calls to *)
(* Complete under way, the sweeper and the engine.  The clock goes on.      *)
(* Nothing makes a client send a request, a flow answer it, or an operator  *)
(* start or stop the engine.  A stopping engine waits for the sweeper to be *)
(* between two sweeps, where its select takes the closed stopCh.            *)
Fairness ==
    /\ \A r \in Req :
         /\ WF_vars(Reject(r) \/ Register(r) \/ Send(r) \/ SendPanics(r) \/ Return(r))
         /\ WF_vars(Elapse(r))
         /\ WF_vars(\E b \in Branch : Complete(r, b) \/ Delete(r, b))
    /\ WF_vars(SweeperStep)
    /\ SF_vars(EngineStep)

Spec == Safety /\ Fairness
-----------------------------------------------------------------------------
(* Every variable has its type: the deadline of a slot with none (the zero  *)
(* time) never passes.                                                      *)
TypeOK ==
    /\ slots \subseteq Req /\ due \subseteq Timed /\ expired \subseteq Req /\ victims \subseteq Req
    /\ once \in [Req -> {"open", "busy", "done"}]
    /\ writer \in [Req -> Party \cup {Nobody}]
    /\ writes \in [Req -> Nat]
    /\ closed \in [Req -> BOOLEAN]
    /\ handler \in [Req -> {"new", "read", "send", "wait", "returned", "panicked"}]
    /\ reply \in [Req -> [Branch -> {"idle", "found", "delete", "ok", "ErrUnknownHandle",
                                     "ErrAlreadyCompleted"}]]
    /\ sweeper \in {"off", "idle", "busy"}
    /\ engine \in {"down", "up", "swapped", "draining"}
    /\ job \in {"stop", "deploy"}
    /\ routes \in BOOLEAN

(* However many branches, sweeps and drains race for a slot, one of them    *)
(* writes a response at most (ResponseSlot: "Only one Complete call ever    *)
(* writes to the underlying writer").  Only a request whose handler         *)
(* panicked in Send may get a second one: Recoverer's 500 and the slot's.   *)
OneResponse == \A r \in Req : writes[r] <= IF handler[r] = "panicked" THEN 2 ELSE 1

(* The ResponseWriter is never written to after the handler that owns it    *)
(* has returned from its wait: done is closed after the write.  A handler   *)
(* that panicked is over while its slot can still be written.               *)
NoWriteAfterReturn == \A r \in Req : handler[r] = "returned" => once[r] # "busy"

(* The two without the exception for a handler that panicked: one response  *)
(* for every request, and no write to the ResponseWriter of a request that  *)
(* is over.                                                                 *)
OneResponseAlways == \A r \in Req : writes[r] <= 1
NoWriteAfterEnd ==
    \A r \in Req : handler[r] \in {"returned", "panicked"} => once[r] # "busy"

(* Complete reports the truth: a call that returned true wrote the          *)
(* response, and after ErrUnknownHandle or ErrAlreadyCompleted another      *)
(* party has written it or holds the slot to do so.                         *)
CompleteIsTruthful ==
    \A r \in Req, b \in Branch :
        /\ reply[r][b] = "ok" => writer[r] = b
        /\ reply[r][b] = "ErrAlreadyCompleted" => writer[r] \notin {b, Nobody}
        /\ reply[r][b] = "ErrUnknownHandle" =>
              writer[r] # Nobody \/ r \in expired \cup victims

(* The exchange as the client, the handler and the http-response node see   *)
(* it: one response (two at most after a panic of the handler), complete    *)
(* before the handler returns from its wait, and reported as it was.        *)
ExchangeSound == TypeOK /\ OneResponse /\ NoWriteAfterReturn /\ CompleteIsTruthful

(* No slot leaks: the slot of an answered request leaves the map, at the    *)
(* latest when the branch that answered it deletes it.                      *)
NoSlotLeak ==
    \A r \in slots : once[r] = "done" => \E b \in Branch : reply[r][b] = "delete"

(* A handler that waits and is not in the map any more is never forgotten:  *)
(* somebody holds its slot.  So does somebody that of a handler that        *)
(* panicked, until it is taken off the map.                                 *)
NoLostSlot ==
    \A r \in Req : handler[r] \in {"send", "wait", "panicked"} =>
        r \in slots \cup expired \cup victims \/ once[r] # "open"

(* The map of the registry: an answered slot leaves it, and one taken from  *)
(* it is in the hands of a party that will answer it.                       *)
SlotsKept == NoSlotLeak /\ NoLostSlot

(* While the engine stays up, a handler with a response timeout returns.    *)
TimedRequestReturns ==
    \A r \in Timed :
        handler[r] = "wait" /\ engine # "down" ~> handler[r] = "returned" \/ engine = "down"

(* The handler blocks "until http-response writes the body, the sweeper     *)
(* expires the slot (default 504), or the engine drains on shutdown (503)": *)
(* a handler with a response timeout always returns.                        *)
HandlerReturns == \A r \in Timed : handler[r] = "wait" ~> handler[r] = "returned"

(* The exchange implements the one-shot response: one party answers at most *)
(* and the handler returns after the answer, unless it fails (panics).      *)
OneShot == INSTANCE OneShotResponse WITH
    answer <- [r \in Req |-> IF once[r] = "busy" THEN Nobody ELSE writer[r]],
    gone   <- {r \in Req : handler[r] = "returned"},
    failed <- {r \in Req : handler[r] = "panicked"}

ImplementsOneShot == OneShot!Spec
=============================================================================
