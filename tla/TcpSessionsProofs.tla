------------------------- MODULE TcpSessionsProofs -------------------------
(***************************************************************************)
(* Safety of the TCP sessions for any number of connections, tcp-in and    *)
(* tcp-out nodes, in server and in client mode.                            *)
(***************************************************************************)
EXTENDS TcpSessions, TLAPS

InService == {"spawned", "reading", "closing", "teardown"}

(* Which node a connection belongs to, and where its loop stands.           *)
StageOK ==
    \A c \in Conn :
        /\ stage[c] = "new" => owner[c] = Nobody
        /\ stage[c] \in InService \cup {"connected"} => owner[c] \in Owner
        /\ stage[c] = "connected" => loop[owner[c]] = c
        /\ stage[c] \in InService /\ owner[c] \in Client => loop[owner[c]] = c

(* What a loop has in hand has just been connected, or is served by it.     *)
LoopOK ==
    \A o \in Owner, c \in Conn : loop[o] = c =>
        /\ owner[c] = o
        /\ stage[c] = "connected" \/ (o \in Client /\ stage[c] \in InService)

(* What Stop has and has not done yet.                                      *)
StopOK ==
    \A o \in Owner :
        /\ node[o] # "closing" => victims[o] = {}
        /\ node[o] = "stopped" => loop[o] = "off"
        /\ node[o] = "stopped" => \A c \in Conn : owner[c] = o => stage[c] = "done"

(* Somebody has taken c from the map and is about to close its socket.      *)
Doomed(c) == \/ \E o \in Owner : c \in victims[o]
             \/ \E w \in Writer : out[w].pc = "teardown" /\ out[w].at = c

(* An open socket in service is in the map, or about to be closed.          *)
Accounted ==
    \A c \in Conn : open[c] /\ stage[c] \in {"reading", "closing", "done"} =>
        c \in slots \/ Doomed(c)

(* A session that is flagged has been registered, and its socket is closed. *)
FlagOK == \A c \in Conn : flagged[c] => ~open[c] /\ stage[c] \notin {"new", "connected", "spawned"}

(* A session that was refused had been in the map and does not come back.   *)
UnknownOK ==
    \A w \in Writer : out[w].pc = "unknown" =>
        /\ out[w].at \in Conn \ slots
        /\ stage[out[w].at] \in {"reading", "closing", "teardown", "done"}

(* A tcp-out node past "next" has a session in hand.                        *)
AtOK ==
    \A w \in Writer : out[w].pc \in {"lock", "write", "close", "teardown"} =>
        /\ out[w].at \in Conn
        /\ stage[out[w].at] \in {"reading", "closing", "teardown", "done"}

(* The sessions a tcp-out node still has to write to, and those CloseByOwner *)
(* has taken, have been registered.                                          *)
LeftOK == \A w \in Writer : \A c \in out[w].left :
    stage[c] \in {"reading", "closing", "teardown", "done"}

VictimOK == \A o \in Owner : \A c \in victims[o] :
    stage[c] \in {"reading", "closing", "teardown", "done"}

Nodes   == StageOK /\ LoopOK /\ StopOK
Sockets == NoDeadSession /\ Accounted /\ FlagOK /\ VictimOK
Writers == UnknownOK /\ AtOK /\ LeftOK
IInv    == TypeOK /\ Nodes /\ Sockets /\ Writers
-----------------------------------------------------------------------------
(* A step of a tcp-out node keeps its record in OutState and the others.    *)
LEMMA BecomeKeepsType ==
    ASSUME out \in [Writer -> OutState], NEW w \in Writer, NEW x \in OutState, become(w, x)
    PROVE  /\ out' \in [Writer -> OutState]
           /\ out'[w] = x \/ out'[w] = Idle
           /\ \A v \in Writer : v # w => out'[v] = out[v]
  BY DEF become, Idle, OutState

(* The updates the tcp-out steps make stay in OutState.                     *)
LEMMA UpdateOut ==
    ASSUME NEW x \in OutState, NEW c \in Conn \cup {Nobody},
           NEW p \in {"idle", "next", "lock", "write", "close", "teardown", "unknown"}
    PROVE  /\ [x EXCEPT !.left = @ \ {c}] \in OutState
           /\ [x EXCEPT !.left = @ \ {c}, !.at = c, !.pc = p] \in OutState
           /\ [x EXCEPT !.at = c, !.pc = p] \in OutState
           /\ [x EXCEPT !.pc = p] \in OutState
  BY DEF OutState

(* teardown keeps the flag and the socket Boolean.                          *)
LEMMA TeardownType ==
    ASSUME open \in [Conn -> BOOLEAN], flagged \in [Conn -> BOOLEAN], NEW c \in Conn, teardown(c)
    PROVE  open' \in [Conn -> BOOLEAN] /\ flagged' \in [Conn -> BOOLEAN]
<1>1. CASE flagged[c]
  <2>1. open' = [open EXCEPT ![c] = open[c]]
    BY <1>1 DEF teardown
  <2>. QED  BY <2>1 DEF teardown
<1>2. CASE ~flagged[c]
  <2>1. open' = [open EXCEPT ![c] = FALSE]
    BY <1>2 DEF teardown
  <2>. QED  BY <2>1 DEF teardown
<1>. QED  BY <1>1, <1>2

(* The parts of the invariant and the frame conditions of the actions.      *)
USE SessionAssumption DEF IInv, TypeOK, Nodes, StageOK, LoopOK, StopOK, Sockets, NoDeadSession,
    Accounted, FlagOK, VictimOK, Writers, UnknownOK, AtOK, LeftOK, InService, Doomed,
    Owner, Writer, connVars, nodeVars, outVars

(* The sessions do not notice a tcp-out node that takes no socket to close. *)
LEMMA WriterKeepsSockets ==
    ASSUME IInv, NEW w \in Writer, out[w].pc # "teardown",
           UNCHANGED <<slots, connVars, nodeVars>>,
           \A v \in Writer : v # w => out'[v] = out[v]
    PROVE  Sockets'
<1>1. ASSUME NEW c \in Conn, Doomed(c) PROVE Doomed(c)'
  BY <1>1
<1>2. Accounted'
  <2>. HIDE DEF Doomed
  <2>. QED  BY <1>1
<1>. QED  BY <1>2

(* A fresh instance of a tcp-in node starts from an empty slate.            *)
LEMMA StartNodeKeeps == ASSUME IInv, NEW o \in Owner, StartNode(o) PROVE IInv'
<1>1. TypeOK'
  BY DEF StartNode
<1>2. Nodes'
  BY DEF StartNode
<1>3. Sockets'
  BY DEF StartNode
<1>4. Writers'
  BY DEF StartNode
<1>. QED  BY <1>1, <1>2, <1>3, <1>4

(* A new connection belongs to the node whose loop holds it.                *)
LEMMA ConnectKeeps == ASSUME IInv, NEW o \in Owner, NEW c \in Conn, Connect(o, c) PROVE IInv'
<1>1. TypeOK'
  BY DEF Connect, Stopped
<1>2. Nodes'
  BY DEF Connect, Stopped
<1>3. Sockets'
  BY DEF Connect, Stopped
<1>4. Writers'
  BY DEF Connect, Stopped
<1>. QED  BY <1>1, <1>2, <1>3, <1>4

(* A refused connection was never in the map.                               *)
LEMMA RejectKeeps == ASSUME IInv, NEW o \in Owner, NEW c \in Conn, Reject(o, c) PROVE IInv'
<1>1. TypeOK'
  BY DEF Reject
<1>2. Nodes'
  BY DEF Reject
<1>3. Sockets'
  BY SMTT(30) DEF Reject
<1>4. Writers'
  BY DEF Reject
<1>. QED  BY <1>1, <1>2, <1>3, <1>4

(* The goroutine takes the connection over from the accept loop.            *)
LEMMA SpawnKeeps == ASSUME IInv, NEW o \in Owner, NEW c \in Conn, Spawn(o, c) PROVE IInv'
<1>1. TypeOK'
  BY DEF Spawn
<1>2. Nodes'
  BY DEF Spawn
<1>3. Sockets'
  BY DEF Spawn
<1>4. Writers'
  BY DEF Spawn
<1>. QED  BY <1>1, <1>2, <1>3, <1>4

(* A loop that returns has nothing in hand.                                 *)
LEMMA LoopExitKeeps == ASSUME IInv, NEW o \in Owner, LoopExit(o) PROVE IInv'
<1>1. TypeOK'
  BY DEF LoopExit, Stopped
<1>2. Nodes'
  BY DEF LoopExit, Stopped
<1>3. Sockets'
  BY DEF LoopExit, Stopped
<1>4. Writers'
  BY DEF LoopExit, Stopped
<1>. QED  BY <1>1, <1>2, <1>3, <1>4

(* Only a connection that is about to be read enters the map.               *)
LEMMA RegisterKeeps == ASSUME IInv, NEW c \in Conn, Register(c) PROVE IInv'
<1>1. TypeOK'
  BY DEF Register, bumpConnCount
<1>2. Nodes'
  BY DEF Register, bumpConnCount
<1>3. Sockets'
  BY DEF Register, bumpConnCount
<1>4. Writers'
  BY DEF Register, bumpConnCount
<1>. QED  BY <1>1, <1>2, <1>3, <1>4

(* A reader that leaves its loop still owes the close of its session.       *)
LEMMA ReadEndsKeeps == ASSUME IInv, NEW c \in Conn, ReadEnds(c) PROVE IInv'
<1>1. TypeOK'
  <2>1. open' \in [Conn -> BOOLEAN]
    <3>1. CASE open' = [open EXCEPT ![c] = FALSE]
      BY <3>1
    <3>. QED  BY <3>1 DEF ReadEnds
  <2>. QED  BY <2>1 DEF ReadEnds
<1>2. Nodes'
  BY DEF ReadEnds
<1>3. Sockets'
  BY DEF ReadEnds
<1>4. Writers'
  BY DEF ReadEnds
<1>. QED  BY <1>1, <1>2, <1>3, <1>4

(* The reader takes its slot, or leaves it to whoever took it first.        *)
LEMMA ReaderCloseKeeps == ASSUME IInv, NEW c \in Conn, ReaderClose(c) PROVE IInv'
<1>1. TypeOK'
  BY SMTT(30) DEF ReaderClose, Served, bumpConnCount
<1>2. Nodes'
  BY DEF ReaderClose, Served, bumpConnCount, OutState
<1>3. Sockets'
  BY DEF ReaderClose, Served, bumpConnCount, OutState
<1>4. Writers'
  BY DEF ReaderClose, Served, bumpConnCount, OutState
<1>. QED  BY <1>1, <1>2, <1>3, <1>4

(* The reader closes its socket before it returns.                          *)
LEMMA ReaderTeardownKeeps == ASSUME IInv, NEW c \in Conn, ReaderTeardown(c) PROVE IInv'
<1>1. TypeOK'
  <2>1. open' \in [Conn -> BOOLEAN] /\ flagged' \in [Conn -> BOOLEAN]
    BY TeardownType DEF ReaderTeardown
  <2>2. count' \in [Owner -> Nat] /\ loop' \in [Owner -> {"on", "off"} \cup Conn]
    BY DEF ReaderTeardown, Served, bumpConnCount
  <2>3. stage' \in [Conn -> {"new", "connected", "spawned", "reading", "closing", "teardown", "done"}]
    BY DEF ReaderTeardown, Served
  <2>. QED  BY <2>1, <2>2, <2>3 DEF ReaderTeardown
<1>2. Nodes'
  BY DEF ReaderTeardown, Served, teardown, bumpConnCount
<1>3. Sockets'
  BY DEF ReaderTeardown, Served, teardown, bumpConnCount
<1>4. Writers'
  BY DEF ReaderTeardown, Served, teardown, bumpConnCount
<1>. QED  BY <1>1, <1>2, <1>3, <1>4

(* Stop has no victims before it calls CloseByOwner.                        *)
LEMMA StopNodeKeeps == ASSUME IInv, NEW o \in Owner, StopNode(o) PROVE IInv'
<1>1. TypeOK'
  BY DEF StopNode
<1>2. Nodes'
  BY DEF StopNode
<1>3. Sockets'
  BY DEF StopNode
<1>4. Writers'
  BY DEF StopNode
<1>. QED  BY <1>1, <1>2, <1>3, <1>4

(* What CloseByOwner takes from the map it will close.                      *)
LEMMA CloseByOwnerKeeps == ASSUME IInv, NEW o \in Owner, CloseByOwner(o) PROVE IInv'
<1>1. TypeOK'
  BY DEF CloseByOwner
<1>2. Nodes'
  BY DEF CloseByOwner
<1>3. Sockets'
  BY DEF CloseByOwner
<1>4. Writers'
  BY DEF CloseByOwner
<1>. QED  BY <1>1, <1>2, <1>3, <1>4

(* A victim is forgotten only once its socket is closed.                    *)
LEMMA CloseVictimKeeps == ASSUME IInv, NEW o \in Owner, NEW c \in Conn, CloseVictim(o, c) PROVE IInv'
<1>1. TypeOK'
  <2>1. open' \in [Conn -> BOOLEAN] /\ flagged' \in [Conn -> BOOLEAN]
    BY TeardownType DEF CloseVictim
  <2>. QED  BY <2>1 DEF CloseVictim
<1>2. Nodes'
  BY DEF CloseVictim, teardown
<1>3. Sockets'
  BY DEF CloseVictim, teardown
<1>4. Writers'
  BY DEF CloseVictim, teardown
<1>. QED  BY <1>1, <1>2, <1>3, <1>4

(* wg.Wait covers the loop and every goroutine it spawned.                  *)
LEMMA StopReturnsKeeps == ASSUME IInv, NEW o \in Owner, StopReturns(o) PROVE IInv'
<1>1. TypeOK'
  BY DEF StopReturns, AllReturned, Serving
<1>2. Nodes'
  BY DEF StopReturns, AllReturned, Serving
<1>3. Sockets'
  BY DEF StopReturns, AllReturned, Serving
<1>4. Writers'
  BY DEF StopReturns, AllReturned, Serving
<1>. QED  BY <1>1, <1>2, <1>3, <1>4

(* A handle that does not resolve belongs to a session taken from the map.  *)
LEMMA ResolveKeeps == ASSUME IInv, NEW w \in Replier, NEW c \in Conn, NEW closeAfter \in BOOLEAN, Resolve(w, c, closeAfter) PROVE IInv'
<1>1. TypeOK'
  BY DEF Resolve, become, Idle, OutState
<1>2. Nodes'
  BY DEF Resolve, become, Idle, OutState
<1>3. Sockets'
  BY DEF Resolve, become, Idle, OutState
<1>4. Writers'
  BY DEF Resolve, become, Idle, OutState
<1>. QED  BY <1>1, <1>2, <1>3, <1>4

(* The snapshot of a broadcast holds registered sessions only.              *)
LEMMA BroadcastKeeps == ASSUME IInv, NEW w \in Caster, NEW o \in Owner, Broadcast(w, o) PROVE IInv'
<1>1. TypeOK'
  BY DEF Broadcast, become, Idle, OutState
<1>2. Nodes'
  BY DEF Broadcast, become, Idle, OutState
<1>3. Sockets'
  BY SMTT(30) DEF Broadcast, become, Idle, OutState
<1>4. Writers'
  BY DEF Broadcast, become, Idle, OutState
<1>. QED  BY <1>1, <1>2, <1>3, <1>4

(* A tcp-out node moves on to a session of its snapshot.                    *)
LEMMA PickSlotKeeps == ASSUME IInv, NEW w \in Writer, PickSlot(w) PROVE IInv'
<1>1. PICK x \in OutState : become(w, x)
  <2>1. out[w] \in OutState
    OBVIOUS
  <2>2. PICK c \in out[w].left :
          become(w, IF flagged[c] THEN [out[w] EXCEPT !.left = @ \ {c}]
                    ELSE [out[w] EXCEPT !.left = @ \ {c}, !.at = c, !.pc = "lock"])
    BY DEF PickSlot
  <2>3. c \in Conn
    BY <2>1 DEF OutState
  <2>. QED  BY <2>1, <2>2, <2>3, UpdateOut
<1>2. out' \in [Writer -> OutState]
  BY <1>1, BecomeKeepsType
<1>3. TypeOK'
  BY <1>2 DEF PickSlot
<1>4. Nodes'
  BY DEF PickSlot, become, Idle, OutState
<1>5. Sockets'
  BY <1>1, BecomeKeepsType, WriterKeepsSockets, SMTT(30) DEF PickSlot
<1>6. Writers'
  BY DEF PickSlot, become, Idle, OutState
<1>. QED  BY <1>3, <1>4, <1>5, <1>6

(* Taking Mu does not disturb the sessions.                                 *)
LEMMA LockMuKeeps == ASSUME IInv, NEW w \in Writer, LockMu(w) PROVE IInv'
<1>1. PICK x \in OutState : become(w, x)
  <2>1. out[w] \in OutState
    OBVIOUS
  <2>2. [out[w] EXCEPT !.at = Nobody, !.pc = "next"] \in OutState
    BY <2>1, UpdateOut
  <2>3. [out[w] EXCEPT !.pc = "write"] \in OutState
    BY <2>1, UpdateOut
  <2>. QED  BY <2>1, <2>2, <2>3 DEF LockMu
<1>2. out' \in [Writer -> OutState]
  BY <1>1, BecomeKeepsType
<1>3. TypeOK'
  BY <1>2 DEF LockMu, OutState
<1>4. Nodes'
  BY DEF LockMu, become, Idle, OutState
<1>5. Sockets'
  BY <1>1, BecomeKeepsType, WriterKeepsSockets DEF LockMu
<1>6. Writers'
  <2>. DEFINE late == {"reading", "closing", "teardown", "done"}
  <2>1. /\ out'[w].pc # "unknown"
        /\ out'[w].pc \in {"lock", "write", "close", "teardown"} => out'[w].at = out[w].at
        /\ out'[w].left \subseteq out[w].left
    <3>1. CASE become(w, [out[w] EXCEPT !.at = Nobody, !.pc = "next"])
      BY <3>1 DEF become, Idle, OutState
    <3>2. CASE become(w, [out[w] EXCEPT !.pc = "write"])
      BY <3>2 DEF become, Idle, OutState
    <3>. QED  BY <3>1, <3>2 DEF LockMu
  <2>2. \A v \in Writer : v # w => out'[v] = out[v]
    BY <1>1, BecomeKeepsType
  <2>3. out[w].at \in Conn /\ stage[out[w].at] \in late
    BY DEF LockMu
  <2>4. UNCHANGED <<stage, slots>>
    BY DEF LockMu
  <2>. QED  BY <2>1, <2>2, <2>3, <2>4, SMTT(30)
<1>. QED  BY <1>3, <1>4, <1>5, <1>6

(* A write does not disturb the sessions.                                   *)
LEMMA WriteKeeps == ASSUME IInv, NEW w \in Writer, Write(w) PROVE IInv'
<1>1. PICK x \in OutState : become(w, x)
  <2>1. out[w] \in OutState
    OBVIOUS
  <2>2. [out[w] EXCEPT !.at = Nobody, !.pc = "next"] \in OutState
    BY <2>1, UpdateOut
  <2>3. [out[w] EXCEPT !.pc = "close"] \in OutState
    BY <2>1, UpdateOut
  <2>. QED  BY <2>1, <2>2, <2>3 DEF Write
<1>2. out' \in [Writer -> OutState]
  BY <1>1, BecomeKeepsType
<1>3. TypeOK'
  BY <1>2 DEF Write, OutState
<1>4. Nodes'
  BY DEF Write, become, Idle, OutState
<1>5. Sockets'
  BY <1>1, BecomeKeepsType, WriterKeepsSockets, SMTT(30) DEF Write
<1>6. Writers'
  <2>. DEFINE late == {"reading", "closing", "teardown", "done"}
  <2>1. /\ out'[w].pc # "unknown"
        /\ out'[w].pc \in {"lock", "write", "close", "teardown"} => out'[w].at = out[w].at
        /\ out'[w].left \subseteq out[w].left
    <3>1. CASE become(w, [out[w] EXCEPT !.at = Nobody, !.pc = "next"])
      BY <3>1 DEF become, Idle, OutState
    <3>2. CASE become(w, [out[w] EXCEPT !.pc = "close"])
      BY <3>2 DEF become, Idle, OutState
    <3>. QED  BY <3>1, <3>2 DEF Write
  <2>2. \A v \in Writer : v # w => out'[v] = out[v]
    BY <1>1, BecomeKeepsType
  <2>3. out[w].at \in Conn /\ stage[out[w].at] \in late
    BY DEF Write
  <2>4. UNCHANGED <<stage, slots>>
    BY DEF Write
  <2>. QED  BY <2>1, <2>2, <2>3, <2>4, SMTT(30)
<1>. QED  BY <1>3, <1>4, <1>5, <1>6

(* A session closed after the reply is closed by the node that took it.     *)
LEMMA CloseAfterKeeps == ASSUME IInv, NEW w \in Writer, CloseAfter(w) PROVE IInv'
<1>1. PICK x \in OutState : become(w, x)
  <2>1. out[w] \in OutState
    OBVIOUS
  <2>2. [out[w] EXCEPT !.at = Nobody, !.pc = "next"] \in OutState
    BY <2>1, UpdateOut
  <2>3. [out[w] EXCEPT !.pc = "teardown"] \in OutState
    BY <2>1, UpdateOut
  <2>. QED  BY <2>1, <2>2, <2>3 DEF CloseAfter
<1>2. out' \in [Writer -> OutState]
  BY <1>1, BecomeKeepsType
<1>3. TypeOK'
  BY <1>2 DEF CloseAfter, OutState
<1>4. Nodes'
  BY DEF CloseAfter, become, Idle, OutState
<1>5. Sockets'
  BY DEF CloseAfter, become, Idle, OutState
<1>6. Writers'
  BY DEF CloseAfter, become, Idle, OutState
<1>. QED  BY <1>3, <1>4, <1>5, <1>6

(* The tcp-out node forgets a session only once its socket is closed.       *)
LEMMA WriterTeardownKeeps == ASSUME IInv, NEW w \in Writer, WriterTeardown(w) PROVE IInv'
<1>1. PICK x \in OutState : become(w, x)
  <2>1. out[w] \in OutState
    OBVIOUS
  <2>2. [out[w] EXCEPT !.at = Nobody, !.pc = "next"] \in OutState
    BY <2>1, UpdateOut
  <2>. QED  BY <2>1, <2>2 DEF WriterTeardown
<1>2. out' \in [Writer -> OutState]
  BY <1>1, BecomeKeepsType
<1>3. TypeOK'
  BY <1>2, TeardownType DEF WriterTeardown, OutState
<1>4. Nodes'
  BY DEF WriterTeardown, teardown, become, Idle, OutState
<1>5. Sockets'
  BY DEF WriterTeardown, teardown, become, Idle, OutState
<1>6. Writers'
  BY DEF WriterTeardown, teardown, become, Idle, OutState
<1>. QED  BY <1>3, <1>4, <1>5, <1>6

(* A reply that is refused leaves no trace.                                 *)
LEMMA RefusedKeeps == ASSUME IInv, NEW w \in Writer, Refused(w) PROVE IInv'
<1>1. TypeOK'
  BY DEF Refused, become, Idle, OutState
<1>2. Nodes'
  BY DEF Refused, become, Idle, OutState
<1>3. Sockets'
  BY DEF Refused, become, Idle, OutState
<1>4. Writers'
  BY DEF Refused, become, Idle, OutState
<1>. QED  BY <1>1, <1>2, <1>3, <1>4

-----------------------------------------------------------------------------
HIDE DEF IInv, Writer, Owner

(* Every step of the registry, the tcp-in and the tcp-out nodes preserves   *)
(* the invariant.                                                           *)
LEMMA StepKeeps == IInv /\ [Next]_vars => IInv'
<1>. SUFFICES ASSUME IInv, [Next]_vars PROVE IInv'
  OBVIOUS
<1>1. CASE UNCHANGED vars
  <2>1. UNCHANGED <<slots, owner, flagged, open, stage, node, loop, count, victims, mu, out>>
    BY <1>1 DEF vars
  <2>2. TypeOK' /\ Nodes'
    BY <2>1 DEF IInv, Owner, Writer, OutState
  <2>3. Sockets' /\ Writers'
    BY <2>1 DEF IInv, Owner, Writer
  <2>. QED  BY <2>2, <2>3 DEF IInv
<1>2. ASSUME NEW o \in Owner, StartNode(o) \/ StopNode(o) \/ LoopStep(o) \/ StopStep(o)
      PROVE  IInv'
  BY <1>2, StartNodeKeeps, StopNodeKeeps, LoopExitKeeps, RejectKeeps, SpawnKeeps,
     CloseByOwnerKeeps, StopReturnsKeeps, CloseVictimKeeps DEF LoopStep, StopStep
<1>3. ASSUME NEW o \in Owner, NEW c \in Conn, Connect(o, c) PROVE IInv'
  BY <1>3, ConnectKeeps
<1>4. ASSUME NEW c \in Conn, ReaderStep(c) PROVE IInv'
  BY <1>4, RegisterKeeps, ReadEndsKeeps, ReaderCloseKeeps, ReaderTeardownKeeps DEF ReaderStep
<1>5. ASSUME NEW w \in Replier, NEW c \in Conn, NEW closeAfter \in BOOLEAN,
             Resolve(w, c, closeAfter)
      PROVE  IInv'
  BY <1>5, ResolveKeeps
<1>6. ASSUME NEW w \in Caster, NEW o \in Owner, Broadcast(w, o) PROVE IInv'
  BY <1>6, BroadcastKeeps
<1>7. ASSUME NEW w \in Writer, WriterStep(w) PROVE IInv'
  BY <1>7, PickSlotKeeps, LockMuKeeps, WriteKeeps, CloseAfterKeeps, WriterTeardownKeeps,
     RefusedKeeps DEF WriterStep
<1>. QED  BY <1>1, <1>2, <1>3, <1>4, <1>5, <1>6, <1>7 DEF Next

USE DEF IInv, Writer, Owner

(* The invariant holds in every reachable state.                            *)
THEOREM SessionInvariant == Safety => []IInv
<1>1. Init => IInv
  BY DEF Init, Idle, OutState
<1>. QED  BY <1>1, StepKeeps, PTL DEF Safety

(* Type correctness.                                                        *)
THEOREM TypeCorrect == Safety => []TypeOK
<1>1. IInv => TypeOK
  OBVIOUS
<1>. QED  BY <1>1, SessionInvariant, PTL

(* Every slot of the SessionRegistry belongs to a reader that will close    *)
(* it, whoever else closes sessions meanwhile.                              *)
THEOREM SlotsAreRead == Safety => []NoDeadSession
<1>1. IInv => NoDeadSession
  OBVIOUS
<1>. QED  BY <1>1, SessionInvariant, PTL

(* No socket stays open without an owner: when its reader has returned, the *)
(* reader, a tcp-out node or Stop has closed it or is about to.             *)
THEOREM SocketsClosed == Safety => []NoSocketLeak
<1>1. IInv => NoSocketLeak
  <2>. SUFFICES ASSUME IInv, NEW c \in Conn, stage[c] = "done", open[c] PROVE Closers(c) # {}
    BY DEF NoSocketLeak
  <2>1. Doomed(c)
    OBVIOUS
  <2>. QED  BY <2>1 DEF Closers
<1>. QED  BY <1>1, SessionInvariant, PTL

(* A tcp-in node whose Stop has returned has no goroutine, no connection in *)
(* service and no session in the registry.                                  *)
THEOREM StopLeavesNothing == Safety => []StoppedLeavesNothing
<1>1. IInv => StoppedLeavesNothing
  BY DEF StoppedLeavesNothing
<1>. QED  BY <1>1, SessionInvariant, PTL

(* ErrUnknownSession is reported only for a session that is closed or being *)
(* closed.                                                                  *)
THEOREM UnknownMeansClosed == Safety => []UnknownIsClosed
<1>1. IInv => UnknownIsClosed
  <2>. SUFFICES ASSUME IInv, NEW w \in Replier, out[w].pc = "unknown", open[out[w].at],
                       stage[out[w].at] = "reading"
                PROVE  Closers(out[w].at) # {}
    BY DEF UnknownIsClosed
  <2>1. out[w].at \in Conn \ slots
    OBVIOUS
  <2>2. Doomed(out[w].at)
    BY <2>1
  <2>. QED  BY <2>2 DEF Closers
<1>. QED  BY <1>1, SessionInvariant, PTL

(* The session registry is sound for any number of connections, nodes and   *)
(* writers.                                                                 *)
THEOREM RegistrySound == Safety => []SessionsSound
<1>. QED  BY TypeCorrect, SlotsAreRead, SocketsClosed, UnknownMeansClosed, StopLeavesNothing,
             PTL DEF SessionsSound
============================================================================
