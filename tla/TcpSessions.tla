---------------------------- MODULE TcpSessions ----------------------------
(***************************************************************************)
(* TCP sessions: internal/flow/session_registry.go, the tcp-in node        *)
(* (nodes/network/tcp_in.go, server and client mode) and the tcp-out node  *)
(* in its reply and server-broadcast modes (nodes/network/tcp_out.go).     *)
(*                                                                         *)
(* A tcp-in node accepts or dials connections, registers each as a session *)
(* and reads it in a goroutine; tcp-out nodes write to sessions they find  *)
(* in the registry.  A session ends when its reader sees the end of the    *)
(* stream, when a tcp-out node closes it after sending, or when its tcp-in *)
(* node stops; each takes the slot from the map under the lock and tears   *)
(* it down after the lock is released.  A connection names its slot:       *)
(* handle IDs are fresh.                                                   *)
(***************************************************************************)
EXTENDS Integers, FiniteSets

CONSTANTS Conn,     \* the connections
          Server,   \* the tcp-in nodes in server mode
          Client,   \* the tcp-in nodes in client mode
          Replier,  \* the tcp-out nodes in reply mode
          Caster,   \* the tcp-out nodes in server-broadcast mode
          MaxConn,  \* maxConnections; 0 is unbounded
          Polite,   \* the connections whose peer hangs up eventually
          Nobody

Owner == Server \cup Client
Writer == Replier \cup Caster

ASSUME SessionAssumption ==
    /\ MaxConn \in Nat
    /\ Polite \subseteq Conn
    /\ Nobody \notin Owner \cup Conn \cup Writer
    /\ {"on", "off"} \cap Conn = {}
    /\ Server \cap Client = {}
    /\ Replier \cap Caster = {}

VARIABLES
    slots,    \* SessionRegistry.slots (and byOwner, kept with it)
    owner,    \* SessionSlot.owner
    flagged,  \* SessionSlot.Closed
    open,     \* the socket is open at this end
    stage,    \* where the goroutine that serves the connection stands
    node,     \* where the tcp-in node's life cycle stands
    loop,     \* what the node's accept or client loop has in hand
    count,    \* TCPInNode.connCount
    victims,  \* what CloseByOwner has taken from the map
    mu,       \* who holds SessionSlot.Mu
    out       \* what each tcp-out node is doing

connVars == <<owner, flagged, open, stage>>
nodeVars == <<node, loop, count, victims>>
outVars  == <<mu, out>>
vars     == <<slots, connVars, nodeVars, outVars>>

(* A tcp-out node: the sessions it has still to write to, where it stands   *)
(* with the first of them (at), and whether it closes the session after it. *)
Idle == [left |-> {}, at |-> Nobody, pc |-> "idle", closing |-> FALSE]

Init ==
    /\ slots = {}
    /\ owner = [c \in Conn |-> Nobody]
    /\ flagged = [c \in Conn |-> FALSE]
    /\ open = [c \in Conn |-> FALSE]
    /\ stage = [c \in Conn |-> "new"]
    /\ node = [o \in Owner |-> "stopped"]
    /\ loop = [o \in Owner |-> "off"]
    /\ count = [o \in Owner |-> 0]
    /\ victims = [o \in Owner |-> {}]
    /\ mu = [c \in Conn |-> Nobody]
    /\ out = [w \in Writer |-> Idle]

Stopped(o) == node[o] # "up"
-----------------------------------------------------------------------------
(* tcp-in: Start, the accept loop and the client loop.                      *)

(* A fresh instance of the node, deployed under the same ID as the last.    *)
StartNode(o) ==
    /\ node[o] = "stopped"
    /\ node' = [node EXCEPT ![o] = "up"]
    /\ loop' = [loop EXCEPT ![o] = "on"]
    /\ count' = [count EXCEPT ![o] = 0]
    /\ UNCHANGED <<slots, connVars, victims, outVars>>

(* Accept or dial returns a connection: the listener was open, or stopCh    *)
(* was not yet closed at the top of the client loop.                        *)
Connect(o, c) ==
    /\ loop[o] = "on"
    /\ ~Stopped(o)
    /\ stage[c] = "new"
    /\ loop' = [loop EXCEPT ![o] = c]
    /\ stage' = [stage EXCEPT ![c] = "connected"]
    /\ open' = [open EXCEPT ![c] = TRUE]
    /\ owner' = [owner EXCEPT ![c] = o]
    /\ UNCHANGED <<slots, flagged, node, count, victims, outVars>>

(* checkAcceptLimits refuses the connection: connCount has reached          *)
(* maxConnections, or the peer is not on the allow list.                    *)
Reject(o, c) ==
    /\ loop[o] = c
    /\ o \in Server
    /\ stage' = [stage EXCEPT ![c] = "done"]
    /\ open' = [open EXCEPT ![c] = FALSE]
    /\ owner' = [owner EXCEPT ![c] = Nobody]
    /\ loop' = [loop EXCEPT ![o] = "on"]
    /\ UNCHANGED <<slots, flagged, node, count, victims, outVars>>

(* `go n.serveConn(c)': wg counts the goroutine from here on.  The client   *)
(* loop serves its connection itself.                                       *)
Spawn(o, c) ==
    /\ loop[o] = c
    /\ stage[c] = "connected"
    /\ o \in Server /\ MaxConn > 0 => count[o] < MaxConn
    /\ stage' = [stage EXCEPT ![c] = "spawned"]
    /\ loop' = IF o \in Server THEN [loop EXCEPT ![o] = "on"] ELSE loop
    /\ UNCHANGED <<slots, owner, flagged, open, node, count, victims, outVars>>

(* The loop returns once the listener or stopCh is closed; the client loop  *)
(* also when reconnect is off.                                              *)
LoopExit(o) ==
    /\ loop[o] = "on"
    /\ Stopped(o) \/ o \in Client
    /\ loop' = [loop EXCEPT ![o] = "off"]
    /\ UNCHANGED <<slots, connVars, node, count, victims, outVars>>
-----------------------------------------------------------------------------
(* serveConn and readLoop.                                                  *)

(* Mutant: connCount goes down when a session opens.                        *)
bumpConnCountDown(o, delta) ==
    count' = IF o \in Client THEN count ELSE [count EXCEPT ![o] = @ - delta]

(* connCount counts the sessions of the server mode only.                   *)
bumpConnCount(o, delta) ==
    count' = IF o \in Client THEN count
             ELSE [count EXCEPT ![o] = IF @ + delta < 0 THEN 0 ELSE @ + delta]

Register(c) ==
    /\ stage[c] = "spawned"
    /\ slots' = slots \cup {c}
    /\ stage' = [stage EXCEPT ![c] = "reading"]
    /\ bumpConnCount(owner[c], 1)
    /\ UNCHANGED <<owner, flagged, open, node, loop, victims, outVars>>

(* The read loop breaks: the peer has hung up, this end is closed, or a     *)
(* frame cannot be parsed, and then the connection is closed.               *)
ReadEnds(c) ==
    /\ stage[c] = "reading"
    /\ \/ UNCHANGED open
       \/ open[c] /\ open' = [open EXCEPT ![c] = FALSE]
    /\ stage' = [stage EXCEPT ![c] = "closing"]
    /\ UNCHANGED <<slots, owner, flagged, nodeVars, outVars>>

(* The end of serveConn: connCount drops, the goroutine leaves wg; the      *)
(* client loop goes on.                                                     *)
Served(c) ==
    /\ stage' = [stage EXCEPT ![c] = "done"]
    /\ bumpConnCount(owner[c], -1)
    /\ loop' = IF owner[c] \in Client THEN [loop EXCEPT ![owner[c]] = "on"] ELSE loop

(* Mutant: Conn.Close is missing.                                           *)
teardownFlagOnly(c) ==
    /\ flagged' = [flagged EXCEPT ![c] = TRUE]
    /\ UNCHANGED open

(* teardown: the slot is flagged, and the socket closed by the first.       *)
teardown(c) ==
    /\ flagged' = [flagged EXCEPT ![c] = TRUE]
    /\ open' = [open EXCEPT ![c] = IF flagged[c] THEN @ ELSE FALSE]

(* Mutant: the reader returns without closing its session.                  *)
ReaderCloseForgotten(c) ==
    /\ stage[c] = "closing"
    /\ Served(c)
    /\ UNCHANGED <<slots, owner, flagged, open, node, victims, outVars>>

(* SessionRegistry.Close, by the reader: the slot may be gone already.      *)
ReaderClose(c) ==
    /\ stage[c] = "closing"
    /\ \/ /\ c \in slots
          /\ slots' = slots \ {c}
          /\ stage' = [stage EXCEPT ![c] = "teardown"]
          /\ UNCHANGED <<count, loop>>
       \/ /\ c \notin slots
          /\ Served(c)
          /\ UNCHANGED slots
    /\ UNCHANGED <<owner, flagged, open, node, victims, outVars>>

ReaderTeardown(c) ==
    /\ stage[c] = "teardown"
    /\ teardown(c)
    /\ Served(c)
    /\ UNCHANGED <<slots, owner, node, victims, outVars>>
-----------------------------------------------------------------------------
(* tcp-in: Stop closes stopCh and the listener, tears the sessions down and *)
(* waits for the goroutines.                                                *)

StopNode(o) ==
    /\ node[o] = "up"
    /\ node' = [node EXCEPT ![o] = "stopping"]
    /\ UNCHANGED <<slots, connVars, loop, count, victims, outVars>>

CloseByOwner(o) ==
    /\ node[o] = "stopping"
    /\ victims' = [victims EXCEPT ![o] = {c \in slots : owner[c] = o}]
    /\ slots' = {c \in slots : owner[c] # o}
    /\ node' = [node EXCEPT ![o] = "closing"]
    /\ UNCHANGED <<connVars, loop, count, outVars>>

CloseVictim(o, c) ==
    /\ node[o] = "closing"
    /\ c \in victims[o]
    /\ teardown(c)
    /\ victims' = [victims EXCEPT ![o] = @ \ {c}]
    /\ UNCHANGED <<slots, owner, stage, node, loop, count, outVars>>

(* wg.Wait: the loop and every goroutine it spawned have returned.          *)
Serving(o) == {c \in Conn : owner[c] = o /\ stage[c] \in {"spawned", "reading", "closing", "teardown"}}

(* Mutant: serveConn returns without wg.Done.                               *)
AllReturnedNeverDone(o) == loop[o] = "off" /\ \A c \in Conn : owner[c] # o

(* Mutant: wg.Add inside the goroutine, so that Wait may run before it.     *)
AllReturnedEarly(o) ==
    loop[o] = "off" /\ \A c \in Serving(o) : stage[c] = "spawned"

AllReturned(o) == loop[o] = "off" /\ Serving(o) = {}

StopReturns(o) ==
    /\ node[o] = "closing"
    /\ victims[o] = {}
    /\ AllReturned(o)
    /\ node' = [node EXCEPT ![o] = "stopped"]
    /\ UNCHANGED <<slots, connVars, loop, count, victims, outVars>>
-----------------------------------------------------------------------------
(* tcp-out.                                                                 *)

become(w, x) == out' = [out EXCEPT ![w] = IF x.pc = "next" /\ x.left = {} THEN Idle ELSE x]

(* Mutant: a frame is emitted before Register has put the slot in the map.  *)
ResolveEarly(w, c, closeAfter) ==
    /\ out[w] = Idle
    /\ owner[c] # Nobody
    /\ stage[c] # "connected"
    /\ become(w, IF c \in slots
                 THEN [left |-> {c}, at |-> Nobody, pc |-> "next", closing |-> closeAfter]
                 ELSE [left |-> {}, at |-> c, pc |-> "unknown", closing |-> FALSE])
    /\ UNCHANGED <<slots, connVars, nodeVars, mu>>

(* A message with the handle of c reaches a node in reply mode, perhaps     *)
(* long after c has been closed.                                            *)
Resolve(w, c, closeAfter) ==
    /\ out[w] = Idle
    /\ owner[c] # Nobody
    /\ stage[c] \in {"reading", "closing", "teardown", "done"}
    /\ become(w, IF c \in slots
                 THEN [left |-> {c}, at |-> Nobody, pc |-> "next", closing |-> closeAfter]
                 ELSE [left |-> {}, at |-> c, pc |-> "unknown", closing |-> FALSE])
    /\ UNCHANGED <<slots, connVars, nodeVars, mu>>

(* A message reaches a node in server-broadcast mode: SessionsByOwner.      *)
Broadcast(w, o) ==
    /\ out[w] = Idle
    /\ \E c \in slots : owner[c] = o
    /\ become(w, [left |-> {c \in slots : owner[c] = o}, at |-> Nobody, pc |-> "next",
                  closing |-> FALSE])
    /\ UNCHANGED <<slots, connVars, nodeVars, mu>>

(* writeSlot skips a session that is flagged and waits for Mu of another.   *)
PickSlot(w) ==
    /\ out[w].pc = "next"
    /\ \E c \in out[w].left :
         become(w, IF flagged[c] THEN [out[w] EXCEPT !.left = @ \ {c}]
                   ELSE [out[w] EXCEPT !.left = @ \ {c}, !.at = c, !.pc = "lock"])
    /\ UNCHANGED <<slots, connVars, nodeVars, mu>>

(* Mutant: ErrSessionClosed is returned with Mu locked.                     *)
LockMuKept(w) ==
    /\ out[w].pc = "lock"
    /\ mu[out[w].at] = Nobody
    /\ mu' = [mu EXCEPT ![out[w].at] = w]
    /\ become(w, IF flagged[out[w].at] THEN [out[w] EXCEPT !.at = Nobody, !.pc = "next"]
                 ELSE [out[w] EXCEPT !.pc = "write"])
    /\ UNCHANGED <<slots, connVars, nodeVars>>

(* With Mu taken it looks at Closed again: ErrSessionClosed, or write.      *)
LockMu(w) ==
    /\ out[w].pc = "lock"
    /\ mu[out[w].at] = Nobody
    /\ IF flagged[out[w].at]
       THEN /\ become(w, [out[w] EXCEPT !.at = Nobody, !.pc = "next"])
            /\ UNCHANGED mu
       ELSE /\ mu' = [mu EXCEPT ![out[w].at] = w]
            /\ become(w, [out[w] EXCEPT !.pc = "write"])
    /\ UNCHANGED <<slots, connVars, nodeVars>>

(* Conn.Write succeeds or fails, at the latest with the write deadline.     *)
(* Only a reply that was sent closes the session.                           *)
Write(w) ==
    /\ out[w].pc = "write"
    /\ mu' = [mu EXCEPT ![out[w].at] = Nobody]
    /\ \/ become(w, [out[w] EXCEPT !.at = Nobody, !.pc = "next"])
       \/ out[w].closing /\ become(w, [out[w] EXCEPT !.pc = "close"])
    /\ UNCHANGED <<slots, connVars, nodeVars>>

(* closeAfterSend: SessionRegistry.Close.                                   *)
CloseAfter(w) ==
    /\ out[w].pc = "close"
    /\ slots' = slots \ {out[w].at}
    /\ become(w, IF out[w].at \in slots THEN [out[w] EXCEPT !.pc = "teardown"]
                 ELSE [out[w] EXCEPT !.at = Nobody, !.pc = "next"])
    /\ UNCHANGED <<connVars, nodeVars, mu>>

WriterTeardown(w) ==
    /\ out[w].pc = "teardown"
    /\ teardown(out[w].at)
    /\ become(w, [out[w] EXCEPT !.at = Nobody, !.pc = "next"])
    /\ UNCHANGED <<slots, owner, stage, nodeVars, mu>>

Refused(w) ==
    /\ out[w].pc = "unknown"
    /\ become(w, Idle)
    /\ UNCHANGED <<slots, connVars, nodeVars, mu>>
-----------------------------------------------------------------------------
ReaderStep(c) == Register(c) \/ ReadEnds(c) \/ ReaderClose(c) \/ ReaderTeardown(c)
LoopStep(o)   == LoopExit(o) \/ \E c \in Conn : Reject(o, c) \/ Spawn(o, c)
StopStep(o)   == CloseByOwner(o) \/ StopReturns(o) \/ \E c \in Conn : CloseVictim(o, c)
WriterStep(w) == PickSlot(w) \/ LockMu(w) \/ Write(w) \/ CloseAfter(w) \/ WriterTeardown(w) \/ Refused(w)

Next ==
    \/ \E o \in Owner : StartNode(o) \/ StopNode(o) \/ LoopStep(o) \/ StopStep(o)
    \/ \E o \in Owner, c \in Conn : Connect(o, c)
    \/ \E c \in Conn : ReaderStep(c)
    \/ \E w \in Replier, c \in Conn, closeAfter \in BOOLEAN : Resolve(w, c, closeAfter)
    \/ \E w \in Caster, o \in Owner : Broadcast(w, o)
    \/ \E w \in Writer : WriterStep(w)

Safety == Init /\ [][Next]_vars

(* Goroutines that can run do; sync.Mutex hands a contended lock over in    *)
(* the end.  Only the peers in Polite ever hang up by themselves, and       *)
(* nothing makes a flow stop, connect or send.                              *)
Fairness ==
    /\ \A o \in Owner : WF_vars(LoopStep(o)) /\ WF_vars(StopStep(o))
    /\ \A c \in Conn : /\ WF_vars(Register(c) \/ ReaderClose(c) \/ ReaderTeardown(c))
                       /\ WF_vars((~open[c] \/ c \in Polite) /\ ReadEnds(c))
    /\ \A w \in Writer : SF_vars(WriterStep(w))

Spec == Safety /\ Fairness
-----------------------------------------------------------------------------
OutState == [left : SUBSET Conn, at : Conn \cup {Nobody}, closing : BOOLEAN,
             pc : {"idle", "next", "lock", "write", "close", "teardown", "unknown"}]

(* Every variable has its type.                                             *)
TypeOK ==
    /\ slots \subseteq Conn
    /\ owner \in [Conn -> Owner \cup {Nobody}]
    /\ flagged \in [Conn -> BOOLEAN]
    /\ open \in [Conn -> BOOLEAN]
    /\ stage \in [Conn -> {"new", "connected", "spawned", "reading", "closing", "teardown", "done"}]
    /\ node \in [Owner -> {"up", "stopping", "closing", "stopped"}]
    /\ loop \in [Owner -> {"on", "off"} \cup Conn]
    /\ count \in [Owner -> Nat]
    /\ victims \in [Owner -> SUBSET Conn]
    /\ mu \in [Conn -> Writer \cup {Nobody}]
    /\ out \in [Writer -> OutState]

(* Who has taken c from the map and will close its socket.                  *)
Closers(c) == {o \in Owner : c \in victims[o]}
                \cup {w \in Writer : out[w].pc = "teardown" /\ out[w].at = c}

(* The registry never offers a session that nobody reads any more: a slot   *)
(* in the map belongs to a goroutine that will close it.                    *)
NoDeadSession == \A c \in slots : stage[c] \in {"reading", "closing"}

(* No socket leaks: once its goroutine has returned, a connection is closed *)
(* or somebody is about to close it.                                        *)
NoSocketLeak == \A c \in Conn : stage[c] = "done" /\ open[c] => Closers(c) # {}

(* A tcp-in node that has stopped leaves no session and no goroutine        *)
(* behind, so that CloseAll finds nothing and the next instance of the node *)
(* starts from an empty registry.                                           *)
StoppedLeavesNothing ==
    \A o \in Owner : node[o] = "stopped" =>
        /\ loop[o] = "off"
        /\ \A c \in Conn : owner[c] = o => c \notin slots /\ stage[c] = "done"

(* tcp-out reports ErrUnknownSession only for a session that is closed or   *)
(* being closed: the handle of a live session always resolves.              *)
UnknownIsClosed ==
    \A w \in Replier : out[w].pc = "unknown" =>
        LET c == out[w].at
        IN  ~open[c] \/ stage[c] \in {"closing", "teardown", "done"} \/ Closers(c) # {}

(* The session registry is sound, whoever of tcp-in, tcp-out, CloseByOwner   *)
(* and a slow peer gets to a session first: what it offers is read, what it  *)
(* no longer offers gets closed, and a stopped node left nothing in it.      *)
SessionsSound ==
    TypeOK /\ NoDeadSession /\ NoSocketLeak /\ UnknownIsClosed /\ StoppedLeavesNothing

(* Stop of a tcp-in node returns: CloseByOwner makes every reader leave its *)
(* Read ("so reader goroutines unblock from their Read calls").  Refuted    *)
(* for a peer that never hangs up: see Stragglers.                          *)
StopTerminates == \A o \in Owner : node[o] = "stopping" ~> node[o] = "stopped"

(* The sessions Stop waits for in vain: accepted before the listener was    *)
(* closed, registered after CloseByOwner had looked, still open, and the    *)
(* peer does not hang up.                                                   *)
Stragglers(o) ==
    {c \in Conn \ Polite : /\ owner[c] = o
                          /\ node[o] = "closing" /\ c \notin victims[o]
                          /\ stage[c] = "reading" /\ open[c]}

(* Stop of a tcp-in node returns, unless it waits for ever for the reader   *)
(* of a session that CloseByOwner came too early for: nothing else, not a   *)
(* reader it closed, the accept loop or a tcp-out node, can hold it up.     *)
StopReturnsOrWaits ==
    \A o \in Owner :
        [](node[o] = "stopping" => <>(node[o] = "stopped" \/ [](Stragglers(o) # {})))

(* Every tcp-out message is dealt with, however many nodes write to the     *)
(* same sessions while they are closed.                                     *)
WriterReturns == \A w \in Writer : out[w] # Idle ~> out[w] = Idle

(* Neither Stop nor a tcp-out message hangs on the other, even if peers     *)
(* stay silent; what Stop can hang on is named.                             *)
NobodyHangs == StopReturnsOrWaits /\ WriterReturns
=============================================================================
