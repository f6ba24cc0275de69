------------------------------- MODULE WsHub -------------------------------
(***************************************************************************)
(* The WebSocket hub: internal/ws/hub.go.                                  *)
(*                                                                         *)
(* One goroutine, Run, owns the registration of clients and delivers the   *)
(* events of the runtime to their send channels.  Each client has a read   *)
(* pump and a write pump; a client leaves because its read pump fails, it  *)
(* is too slow, its user is disconnected (from another goroutine, under    *)
(* the same lock) or the hub stops.  Closing a channel twice, or sending   *)
(* on a closed one, would panic the process.                               *)
(***************************************************************************)
EXTENDS Integers, Sequences, FiniteSets

CONSTANTS Client,   \* the connections
          User,     \* the user IDs; "" is the anonymous one
          UserOf,   \* Client.userID
          SendCap,  \* the capacity of Client.send
          CastCap,  \* the capacity of Hub.broadcast
          MaxEvent  \* bound: events broadcast in a behaviour

ASSUME HubAssumption ==
    /\ UserOf \in [Client -> User]
    /\ SendCap \in Nat \ {0}
    /\ CastCap \in Nat \ {0}
    /\ MaxEvent \in Nat

VARIABLES
    clients,    \* Hub.clients
    broadcast,  \* Hub.broadcast
    done,       \* Hub.done is closed
    run,        \* where Run stands
    send,       \* Client.send: what is buffered
    closed,     \* how often each Client.send was closed
    conn,       \* the socket: none, open, broken (peer gone), closed here
    reader,     \* the handler that registers the client, then its read pump
    writer,     \* the write pump
    events,     \* the number of events broadcast so far
    taken,      \* history: the events Run has taken from Hub.broadcast
    since,      \* history: Len(taken) when the client was registered
    wire        \* history: what the write pump took for the socket

hubVars    == <<clients, broadcast, done, run>>
chanVars   == <<send, closed>>
pumpVars   == <<conn, reader, writer>>
histVars   == <<taken, since, wire>>
vars       == <<hubVars, chanVars, pumpVars, events, histVars>>

(* Run stands at its select, is in the range over the clients for a message *)
(* (holding the read lock), is between RUnlock and Lock with a client whose *)
(* buffer was full, or has returned.                                        *)
AtSelect == [pc |-> "select", left |-> {}, full |-> {}]

Init ==
    /\ clients = {}
    /\ broadcast = <<>>
    /\ done = FALSE
    /\ run = AtSelect
    /\ send = [c \in Client |-> <<>>]
    /\ closed = [c \in Client |-> 0]
    /\ conn = [c \in Client |-> "none"]
    /\ reader = [c \in Client |-> "none"]
    /\ writer = [c \in Client |-> "none"]
    /\ events = 0
    /\ taken = <<>>
    /\ since = [c \in Client |-> 0]
    /\ wire = [c \in Client |-> <<>>]

(* delete(h.clients, c); close(c.send), for every c of C *)
drop(C) ==
    /\ clients' = clients \ C
    /\ closed' = [c \in Client |-> IF c \in C THEN closed[c] + 1 ELSE closed[c]]

-----------------------------------------------------------------------------
(* A client connects: auth, upgrade, then h.register <- client, which       *)
(* blocks until Run takes it.                                               *)
upgradeAndRun(c) ==
    /\ reader[c] = "none"
    /\ reader' = [reader EXCEPT ![c] = "registering"]
    /\ conn' = [conn EXCEPT ![c] = "open"]
    /\ UNCHANGED <<hubVars, chanVars, writer, events, histVars>>

(* go client.writePump(); go client.readPump() *)
StartPumps(c) ==
    /\ reader[c] = "registered"
    /\ reader' = [reader EXCEPT ![c] = "reading"]
    /\ writer' = [writer EXCEPT ![c] = "running"]
    /\ UNCHANGED <<hubVars, chanVars, conn, events, histVars>>

RunRegister(c) ==
    /\ run.pc = "select"
    /\ reader[c] = "registering"
    /\ reader' = [reader EXCEPT ![c] = "registered"]
    /\ clients' = clients \cup {c}
    /\ since' = [since EXCEPT ![c] = Len(taken)]
    /\ UNCHANGED <<broadcast, done, run, chanVars, conn, writer, events, taken, wire>>

RunUnregister(c) ==
    /\ run.pc = "select"
    /\ reader[c] = "leaving"
    /\ reader' = [reader EXCEPT ![c] = "closing"]
    /\ drop({c} \cap clients)
    /\ UNCHANGED <<broadcast, done, run, send, conn, writer, events, histVars>>

(* case message := <-h.broadcast: RLock and the range over the map *)
RunTake ==
    /\ run.pc = "select"
    /\ broadcast # <<>>
    /\ run' = [pc |-> "range", left |-> clients, full |-> {}]
    /\ broadcast' = Tail(broadcast)
    /\ taken' = Append(taken, Head(broadcast))
    /\ UNCHANGED <<clients, done, chanVars, pumpVars, events, since, wire>>

(* Mutant: a full buffer loses the event instead of the client. *)
RunSendSkip(c) ==
    /\ run.pc = "range"
    /\ c \in run.left \cap clients
    /\ IF Len(send[c]) < SendCap
       THEN send' = [send EXCEPT ![c] = Append(@, taken[Len(taken)])]
       ELSE UNCHANGED send
    /\ run' = [run EXCEPT !.left = @ \ {c}]
    /\ UNCHANGED <<clients, broadcast, done, closed, pumpVars, events, histVars>>

(* One client of the range.  A client that DisconnectUser deleted while the *)
(* lock was released is no longer produced by the range.                    *)
RunSend(c) ==
    /\ run.pc = "range"
    /\ c \in run.left \cap clients
    /\ IF Len(send[c]) < SendCap
       THEN /\ send' = [send EXCEPT ![c] = Append(@, taken[Len(taken)])]
            /\ run' = [run EXCEPT !.left = @ \ {c}]
       ELSE /\ run' = [pc |-> "full", left |-> run.left \ {c}, full |-> {c}]
            /\ UNCHANGED send
    /\ UNCHANGED <<clients, broadcast, done, closed, pumpVars, events, histVars>>

(* Mutant: no second look at the map under the write lock. *)
RunDropSlowUnchecked ==
    /\ run.pc = "full"
    /\ drop(run.full)
    /\ run' = [run EXCEPT !.pc = "range", !.full = {}]
    /\ UNCHANGED <<broadcast, done, send, pumpVars, events, histVars>>

(* The buffer was full: RUnlock, Lock, delete and close if the client is    *)
(* still there, Unlock, RLock.                                              *)
RunDropSlow ==
    /\ run.pc = "full"
    /\ drop(run.full \cap clients)
    /\ run' = [run EXCEPT !.pc = "range", !.full = {}]
    /\ UNCHANGED <<broadcast, done, send, pumpVars, events, histVars>>

RunRanged ==
    /\ run.pc = "range"
    /\ run.left \cap clients = {}
    /\ run' = AtSelect
    /\ UNCHANGED <<clients, broadcast, done, chanVars, pumpVars, events, histVars>>

(* case <-h.done *)
RunStop ==
    /\ run.pc = "select"
    /\ done
    /\ drop(clients)
    /\ run' = [run EXCEPT !.pc = "returned"]
    /\ UNCHANGED <<broadcast, done, send, pumpVars, events, histVars>>

-----------------------------------------------------------------------------
(* The calls of other goroutines. *)

Stop ==
    /\ ~done
    /\ done' = TRUE
    /\ UNCHANGED <<clients, broadcast, run, chanVars, pumpVars, events, histVars>>

(* Mutant: one event too many. *)
BroadcastOverfull ==
    /\ events < MaxEvent
    /\ events' = events + 1
    /\ broadcast' = IF Len(broadcast) <= CastCap THEN Append(broadcast, events + 1)
                                                 ELSE broadcast
    /\ UNCHANGED <<clients, done, run, chanVars, pumpVars, histVars>>

(* An event the channel has no room for is dropped: no caller blocks. *)
Broadcast ==
    /\ events < MaxEvent
    /\ events' = events + 1
    /\ broadcast' = IF Len(broadcast) < CastCap THEN Append(broadcast, events + 1)
                                                ELSE broadcast
    /\ UNCHANGED <<clients, done, run, chanVars, pumpVars, histVars>>

(* Needs the write lock, which Run's range holds off. *)
DisconnectUser(u) ==
    /\ u # ""
    /\ run.pc # "range"
    /\ drop({c \in clients : UserOf[c] = u})
    /\ UNCHANGED <<broadcast, done, run, send, pumpVars, events, histVars>>

-----------------------------------------------------------------------------
(* The pumps. *)

(* The peer goes away, or lets a deadline pass. *)
PeerGone(c) ==
    /\ conn[c] = "open"
    /\ conn' = [conn EXCEPT ![c] = "broken"]
    /\ UNCHANGED <<hubVars, chanVars, reader, writer, events, histVars>>

(* ReadMessage fails; the deferred h.unregister <- c blocks until Run takes it. *)
ReadFails(c) ==
    /\ reader[c] = "reading"
    /\ conn[c] # "open"
    /\ reader' = [reader EXCEPT ![c] = "leaving"]
    /\ UNCHANGED <<hubVars, chanVars, conn, writer, events, histVars>>

ReaderCloses(c) ==
    /\ reader[c] = "closing"
    /\ reader' = [reader EXCEPT ![c] = "gone"]
    /\ conn' = [conn EXCEPT ![c] = "closed"]
    /\ UNCHANGED <<hubVars, chanVars, writer, events, histVars>>

(* Mutant: the write pump leaves the socket to the read pump. *)
WriterLeavesOpen(c) ==
    /\ writer' = [writer EXCEPT ![c] = "gone"]
    /\ UNCHANGED conn

WriterLeaves(c) ==
    /\ writer' = [writer EXCEPT ![c] = "gone"]
    /\ conn' = [conn EXCEPT ![c] = "closed"]

(* A write to a broken socket may still succeed; one to a closed socket fails. *)
WriteMessage(c) ==
    /\ writer[c] = "running"
    /\ send[c] # <<>>
    /\ send' = [send EXCEPT ![c] = Tail(@)]
    /\ wire' = [wire EXCEPT ![c] = Append(@, Head(send[c]))]
    /\ \/ conn[c] # "closed" /\ UNCHANGED <<conn, writer>>
       \/ conn[c] # "open" /\ WriterLeaves(c)
    /\ UNCHANGED <<hubVars, closed, reader, events, taken, since>>

(* The hub closed the channel, and everything buffered in it was taken. *)
WriteClose(c) ==
    /\ writer[c] = "running"
    /\ send[c] = <<>> /\ closed[c] > 0
    /\ WriterLeaves(c)
    /\ UNCHANGED <<hubVars, chanVars, reader, events, histVars>>

(* A ping that fails. *)
PingFails(c) ==
    /\ writer[c] = "running"
    /\ conn[c] # "open"
    /\ WriterLeaves(c)
    /\ UNCHANGED <<hubVars, chanVars, reader, events, histVars>>

-----------------------------------------------------------------------------
Run ==
    \/ \E c \in Client : RunRegister(c) \/ RunUnregister(c) \/ RunSend(c)
    \/ RunTake \/ RunDropSlow \/ RunRanged \/ RunStop

Pumps(c) ==
    \/ StartPumps(c) \/ ReadFails(c) \/ ReaderCloses(c)
    \/ WriteMessage(c) \/ WriteClose(c)

Next ==
    \/ Run
    \/ Stop \/ Broadcast
    \/ \E u \in User : DisconnectUser(u)
    \/ \E c \in Client : upgradeAndRun(c) \/ Pumps(c) \/ PeerGone(c) \/ PingFails(c)

(* Goroutines that can go on do so.  Select takes each ready case again and *)
(* again, so a client that waits to register or to unregister is taken.     *)
Fairness ==
    /\ WF_vars(Run)
    /\ \A c \in Client : /\ WF_vars(Pumps(c))
                         /\ SF_vars(RunRegister(c))
                         /\ SF_vars(RunUnregister(c))

Spec == Init /\ [][Next]_vars /\ Fairness

-----------------------------------------------------------------------------
TypeOK ==
    /\ clients \subseteq Client
    /\ broadcast \in Seq(1..MaxEvent) /\ Len(broadcast) <= CastCap
    /\ done \in BOOLEAN
    /\ run \in [pc : {"select", "range", "full", "returned"},
                left : SUBSET Client, full : SUBSET Client]
    /\ send \in [Client -> Seq(1..MaxEvent)]
    /\ \A c \in Client : Len(send[c]) <= SendCap
    /\ closed \in [Client -> Nat]
    /\ conn \in [Client -> {"none", "open", "broken", "closed"}]
    /\ reader \in [Client -> {"none", "registering", "registered", "reading",
                              "leaving", "closing", "gone"}]
    /\ writer \in [Client -> {"none", "running", "gone"}]
    /\ events \in 0..MaxEvent
    /\ taken \in Seq(1..MaxEvent)
    /\ since \in [Client -> Nat]
    /\ wire \in [Client -> Seq(1..MaxEvent)]

(* Run never sends on a closed channel and nobody closes one twice (either   *)
(* panics the server): a listed client's channel is open and an unlisted     *)
(* one's was closed once, though Run lets go of the lock in the middle of    *)
(* its range to drop a slow client while DisconnectUser deletes clients.     *)
ClosedOnce ==
    \A c \in Client :
        closed[c] = IF reader[c] \in {"none", "registering"} \/ c \in clients
                    THEN 0 ELSE 1

(* A client sees no gap: what it was sent is what Run took from the         *)
(* broadcast channel since it was registered, in that order and without a   *)
(* hole, up to the point where it was dropped.  A slow client loses its     *)
(* connection, never an event in the middle.                                *)
NoGap ==
    \A c \in Client :
        LET got == wire[c] \o send[c]
            due == SubSeq(taken, since[c] + 1, Len(taken))
        IN  /\ Len(got) <= Len(due)
            /\ got = SubSeq(due, 1, Len(got))
            /\ c \in clients \ (run.left \cup run.full) => got = due

(* The stream of every client is whole and within its channel's capacity.   *)
StreamsWhole == TypeOK /\ NoGap

(* Whoever was disconnected, dropped or lost the peer has both pumps return  *)
(* and the socket closed, unless the hub itself is stopped (Run no longer    *)
(* receives from unregister then).                                           *)
PumpsReturn ==
    \A c \in Client :
        (closed[c] > 0 \/ (conn[c] = "broken" /\ reader[c] # "registering"))
            ~> \/ done
               \/ reader[c] = "gone" /\ writer[c] = "gone" /\ conn[c] = "closed"
=============================================================================
