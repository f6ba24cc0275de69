------------------------------ MODULE UdpNodes ------------------------------
(***************************************************************************)
(* The udp-out and udp-in nodes (internal/nodes/network/udp_out.go and     *)
(* udp_in.go).  udp-out sends one datagram per message from a cached or a  *)
(* fresh socket; udp-in binds a socket and reads it in a goroutine.  The   *)
(* engine calls Stop on either while the loop is at work.                  *)
(*                                                                         *)
(* A datagram is what the reader tells apart: allowed or not, empty or     *)
(* not.  Addresses, modes (their socket options only add ways for          *)
(* openSocket to fail) and encodings are left out.                         *)
(***************************************************************************)
EXTENDS Naturals, FiniteSets

CONSTANTS UdReuses,    \* values of reuseSocket
          UdSends,     \* bound: messages udp-out handles
          UdDatagrams  \* bound: datagrams that reach udp-in

ASSUME UdAssumption ==
  UdReuses \subseteq BOOLEAN /\ UdSends \in Nat /\ UdDatagrams \in Nat

VARIABLES uoReuse,   \* reuseSocket
          uoOpen,    \* open sockets of udp-out, by number
          uoMade,    \* sockets opened so far
          uoConn,    \* n.conn (0: nil)
          uoCall,    \* the message being sent: pc and socket
          uoCount, uoStopped,
          uiPhase,   \* udp-in: "new", "failed", "listening", "stopping", "stopped"
          uiSocket,  \* "none", "open", "closed"
          uiLoop,    \* readLoop: "none", "reading", "got", "gone"
          uiShown,   \* the last status: "none", "red", "green"
          uiQueue,   \* datagrams in the socket's receive buffer
          uiSeen,    \* datagrams arrived so far
          uiErrors   \* errorFn calls: failed joins, a read error

udVars == <<uoReuse, uoOpen, uoMade, uoConn, uoCall, uoCount, uoStopped,
            uiPhase, uiSocket, uiLoop, uiShown, uiQueue, uiSeen, uiErrors>>
uoVars == <<uoReuse, uoOpen, uoMade, uoConn, uoCall, uoCount, uoStopped>>
uiVars == <<uiPhase, uiSocket, uiLoop, uiShown, uiQueue, uiSeen, uiErrors>>

UdTypeOK ==
  /\ uoReuse \in UdReuses /\ uoStopped \in BOOLEAN
  /\ uoMade \in 0 .. UdSends /\ uoOpen \subseteq 1 .. uoMade
  /\ uoConn \in 0 .. uoMade /\ uoCount \in 0 .. UdSends
  /\ uoCall \in [pc : {"idle", "acquire", "open", "store", "write", "close"}, conn : 0 .. uoMade]
  /\ uiPhase \in {"new", "failed", "listening", "stopping", "stopped"}
  /\ uiSocket \in {"none", "open", "closed"}
  /\ uiLoop \in {"none", "reading", "got", "gone"}
  /\ uiShown \in {"none", "red", "green"}
  /\ uiQueue \in 0 .. UdDatagrams /\ uiSeen \in 0 .. UdDatagrams /\ uiErrors \in 0 .. 2

UdIdle == [pc |-> "idle", conn |-> 0]

UdInit ==
  /\ uoReuse \in UdReuses
  /\ uoOpen = {} /\ uoMade = 0 /\ uoConn = 0 /\ uoCall = UdIdle /\ uoCount = 0
  /\ uoStopped = FALSE
  /\ uiPhase = "new" /\ uiSocket = "none" /\ uiLoop = "none" /\ uiShown = "none"
  /\ uiQueue = 0 /\ uiSeen = 0 /\ uiErrors = 0

-----------------------------------------------------------------------------
\* udp-out's HandleMessage up to acquireSocket; resolveDest, the encoding and
\* the resolver may each refuse the message.
UoHandleMessage ==
  /\ uoCall = UdIdle /\ uoCount < UdSends
  /\ uoCount' = uoCount + 1
  /\ uoCall' \in {UdIdle, [pc |-> "acquire", conn |-> 0]}
  /\ UNCHANGED <<uoReuse, uoOpen, uoMade, uoConn, uoStopped, uiVars>>

\* acquireSocket: the cached socket under sockMu, or a new one outside it.
acquireSocket ==
  /\ \/ /\ uoCall.pc = "acquire"
        /\ uoCall' = IF uoReuse /\ uoConn # 0 THEN [pc |-> "write", conn |-> uoConn]
                                             ELSE [uoCall EXCEPT !.pc = "open"]
        /\ UNCHANGED <<uoOpen, uoMade, uoConn>>
     \/ /\ uoCall.pc = "open"
        /\ \/ /\ uoMade' = uoMade + 1
              /\ uoOpen' = uoOpen \cup {uoMade + 1}
              /\ uoCall' = [pc |-> IF uoReuse THEN "store" ELSE "write", conn |-> uoMade + 1]
           \/ uoCall' = UdIdle /\ UNCHANGED <<uoMade, uoOpen>>   \* openSocket closes and fails
        /\ UNCHANGED uoConn
     \/ /\ uoCall.pc = "store"
        /\ uoConn' = uoCall.conn
        /\ uoCall' = [uoCall EXCEPT !.pc = "write"]
        /\ UNCHANGED <<uoOpen, uoMade>>
  /\ UNCHANGED <<uoReuse, uoCount, uoStopped, uiVars>>

\* WriteToUDP may fail; the socket is given back either way.
sendDatagram ==
  /\ uoCall.pc = "write"
  /\ uoCall' = IF uoReuse THEN UdIdle ELSE [uoCall EXCEPT !.pc = "close"]
  /\ UNCHANGED <<uoReuse, uoOpen, uoMade, uoConn, uoCount, uoStopped, uiVars>>

\* Mutant: the socket is forgotten, not closed.
closeSocketForgets ==
  /\ uoOpen' = uoOpen
  /\ uoConn' = 0

\* closeSocket closes the socket in n.conn.
closeSocket ==
  /\ uoOpen' = uoOpen \ {uoConn}
  /\ uoConn' = 0

\* Without reuseSocket, closeSocket is deferred.
UoDeferredClose ==
  /\ uoCall.pc = "close"
  /\ closeSocket
  /\ uoCall' = UdIdle
  /\ UNCHANGED <<uoReuse, uoMade, uoCount, uoStopped, uiVars>>

UoStop ==
  /\ ~uoStopped
  /\ uoStopped' = TRUE
  /\ closeSocket
  /\ UNCHANGED <<uoReuse, uoMade, uoCall, uoCount, uiVars>>

-----------------------------------------------------------------------------
\* udp-in's Start: resolving or binding may fail; a failed multicast join is
\* reported and does not matter otherwise.
UiStart ==
  /\ uiPhase = "new"
  /\ \/ /\ uiPhase' = "failed" /\ uiShown' = "red"
        /\ UNCHANGED <<uiSocket, uiLoop, uiErrors>>
     \/ /\ uiPhase' = "listening" /\ uiSocket' = "open" /\ uiLoop' = "reading"
        /\ uiShown' = "green" /\ uiErrors' \in {0, 1}
  /\ UNCHANGED <<uiQueue, uiSeen, uoVars>>

UiArrive ==
  /\ uiSocket = "open" /\ uiSeen < UdDatagrams
  /\ uiSeen' = uiSeen + 1
  /\ uiQueue' = uiQueue + 1
  /\ UNCHANGED <<uiPhase, uiSocket, uiLoop, uiShown, uiErrors, uoVars>>

\* One turn of readLoop.  A timeout only starts the next turn; any other
\* error ends the goroutine, reported unless the node is stopped or the
\* socket closed.  Empty and disallowed datagrams are dropped.
readLoop ==
  /\ \/ /\ uiLoop = "reading" /\ uiSocket = "open" /\ uiQueue > 0
        /\ uiQueue' = uiQueue - 1
        /\ uiLoop' \in {"reading", "got"}
        /\ UNCHANGED uiErrors
     \/ /\ uiLoop = "reading" /\ uiSocket = "closed"
        /\ uiLoop' = "gone"
        /\ UNCHANGED <<uiQueue, uiErrors>>
     \/ /\ uiLoop = "got"
        /\ uiLoop' = "reading"
        /\ UNCHANGED <<uiQueue, uiErrors>>
  /\ UNCHANGED <<uiPhase, uiSocket, uiShown, uiSeen, uoVars>>

\* A read error: the loop ends, the socket stays bound and the status green.
UiReadError ==
  /\ uiLoop = "reading" /\ uiPhase = "listening"
  /\ uiLoop' = "gone"
  /\ uiErrors' = uiErrors + 1
  /\ UNCHANGED <<uiPhase, uiSocket, uiShown, uiQueue, uiSeen, uoVars>>

\* Mutant: Stop does not close the socket.
UiStopKeepsSocket ==
  /\ \/ /\ uiPhase = "listening" /\ uiPhase' = "stopping"
     \/ /\ uiPhase = "stopping" /\ uiLoop = "gone" /\ uiPhase' = "stopped"
  /\ UNCHANGED <<uiSocket, uiLoop, uiShown, uiQueue, uiSeen, uiErrors, uoVars>>

\* Stop: close stopCh, leave the groups, close the socket, wait for the loop.
UiStop ==
  /\ \/ /\ uiPhase = "listening" /\ uiPhase' = "stopping" /\ UNCHANGED uiSocket
     \/ /\ uiPhase = "stopping" /\ uiSocket = "open" /\ uiSocket' = "closed" /\ UNCHANGED uiPhase
     \/ /\ uiPhase = "stopping" /\ uiSocket = "closed" /\ uiLoop = "gone"
        /\ uiPhase' = "stopped" /\ UNCHANGED uiSocket
  /\ UNCHANGED <<uiLoop, uiShown, uiQueue, uiSeen, uiErrors, uoVars>>

UdNext ==
  \/ UoHandleMessage \/ acquireSocket \/ sendDatagram \/ UoDeferredClose \/ UoStop
  \/ UiStart \/ UiArrive \/ readLoop \/ UiReadError \/ UiStop

UdProgress ==
  \/ acquireSocket \/ sendDatagram \/ UoDeferredClose
  \/ readLoop \/ (uiPhase = "stopping" /\ UiStop)

-----------------------------------------------------------------------------
\* A send goes on, the read loop runs, and Stop goes on once it has begun.
UdSpec == UdInit /\ [][UdNext]_udVars /\ WF_udVars(UdProgress)

\* Between messages udp-out holds no socket but n.conn.  Refuted where
\* reuseSocket is off: the deferred closeSocket closes n.conn, which was
\* never set, and the socket of the send stays open.
UdOneSocket == uoCall = UdIdle => uoOpen \subseteq {uoConn}

\* Where the socket is reused: udp-out keeps at most one socket, the cached
\* one; and udp-in leaves neither socket nor goroutine once Stop returned.
UdSocketsHeld ==
  /\ uoReuse => UdOneSocket
  /\ uiPhase = "stopped" => uiSocket = "closed" /\ uiLoop = "gone"

\* A send of udp-out, or the Stop of udp-in, is under way and must return.
UdPending == uoCall # UdIdle \/ uiPhase = "stopping"
=============================================================================
