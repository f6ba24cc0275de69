---------------------------- MODULE TcpOutClient ----------------------------
(***************************************************************************)
(* The client mode of tcp-out with a kept connection                       *)
(* (internal/nodes/network/tcp_out.go): HandleMessage puts each message    *)
(* into a bounded channel, clientKeepWorker dials, writes and redials, and *)
(* the engine calls Stop from a third goroutine.  (Without keepConnection  *)
(* a message dials, writes and closes on its own: dialAndSend.)            *)
(*                                                                         *)
(* A message is its number, with the address it resolves to and whether    *)
(* the connection is closed after it; the two are chosen when it arrives.  *)
(* Backoff delays are not modelled: a sleep may end at any moment.         *)
(***************************************************************************)
EXTENDS Naturals, Sequences

CONSTANTS ToAddrs,   \* addresses; host and port of the message or the node
          ToConfigs, \* configured addresses; ToNone where host or port is empty
          ToNone,
          ToMsgs,    \* bound: messages handled
          ToQueue,   \* outboundQueueSize
          ToFaults   \* bound: failed dials and writes

ASSUME ToAssumption ==
  /\ ToConfigs \subseteq ToAddrs \cup {ToNone} /\ ToNone \notin ToAddrs
  /\ ToMsgs \in Nat /\ ToQueue \in Nat /\ ToFaults \in Nat

VARIABLES toConfig, toQueue, toHandled,
          toConns,   \* connections dialled: address and whether still open
          toConn,    \* clientConn (0: nil)
          toWorker,  \* where clientKeepWorker is, its connection and message
          toStop,    \* "no", "closing" (clientStop closed), "waiting", "returned"
          toSent,    \* what was written: message and connection
          toReported, toFaults

toVars == <<toConfig, toQueue, toHandled, toConns, toConn, toWorker, toStop, toSent,
            toReported, toFaults>>

ToMsg == [id : 1 .. ToMsgs, addr : ToAddrs, close : BOOLEAN]
ToNoMsg == [id |-> 0]
ToAt(at, c, m) == [at |-> at, conn |-> c, msg |-> m]

ToTypeOK ==
  /\ toConfig \in ToConfigs /\ toQueue \in Seq(ToMsg) /\ Len(toQueue) <= ToQueue
  /\ toHandled \in 0 .. ToMsgs
  /\ toConns \in Seq([addr : ToAddrs, open : BOOLEAN]) /\ toConn \in 0 .. Len(toConns)
  /\ toWorker.at \in {"top", "dial", "store", "drain", "write", "failed", "sleep", "gone"}
  /\ toWorker.conn \in 0 .. Len(toConns) /\ toWorker.msg \in ToMsg \cup {ToNoMsg}
  /\ toStop \in {"no", "closing", "waiting", "returned"}
  /\ toSent \in Seq([id : 1 .. ToMsgs, conn : 1 .. Len(toConns)])
  /\ toReported \subseteq 1 .. ToMsgs /\ toFaults \in 0 .. ToFaults

\* Init and Start: the queue is made, the worker started.
ToInit ==
  /\ toConfig \in ToConfigs
  /\ toQueue = <<>> /\ toHandled = 0 /\ toConns = <<>> /\ toConn = 0
  /\ toWorker = ToAt("top", 0, ToNoMsg)
  /\ toStop = "no" /\ toSent = <<>> /\ toReported = {} /\ toFaults = ToFaults

\* handleClient: resolveClientAddr takes the message's address or the node's;
\* a full queue is an error of the message.
handleClient(addr, close) ==
  /\ toHandled < ToMsgs
  /\ toHandled' = toHandled + 1
  /\ IF Len(toQueue) < ToQueue
     THEN toQueue' = Append(toQueue, [id |-> toHandled + 1, addr |-> addr, close |-> close])
          /\ UNCHANGED toReported
     ELSE toReported' = toReported \cup {toHandled + 1} /\ UNCHANGED toQueue
  /\ UNCHANGED <<toConfig, toConns, toConn, toWorker, toStop, toSent, toFaults>>

-----------------------------------------------------------------------------
\* The head of the worker's loop.  Without a configured address the first
\* message gives it; with one, the worker dials before it takes a message.
ToTop ==
  /\ toWorker.at = "top"
  /\ \/ toStop # "no" /\ toWorker' = ToAt("gone", 0, ToNoMsg) /\ UNCHANGED toQueue
     \/ toConfig # ToNone /\ toStop = "no" /\ toWorker' = ToAt("dial", 0, ToNoMsg) /\ UNCHANGED toQueue
     \/ /\ toConfig = ToNone /\ toQueue # <<>>
        /\ toWorker' = ToAt("dial", 0, Head(toQueue))
        /\ toQueue' = Tail(toQueue)
  /\ UNCHANGED <<toConfig, toHandled, toConns, toConn, toStop, toSent, toReported, toFaults>>

\* dial; a failure is reported against the message, if there is one, and slept off.
ToDial ==
  LET m == toWorker.msg
  IN  /\ toWorker.at = "dial"
      /\ \/ /\ toConns' = Append(toConns, [addr |-> IF m = ToNoMsg THEN toConfig ELSE m.addr,
                                           open |-> TRUE])
            /\ toWorker' = ToAt("store", Len(toConns) + 1, m)
            /\ UNCHANGED <<toReported, toFaults>>
         \/ /\ toFaults > 0 /\ toFaults' = toFaults - 1
            /\ toReported' = IF m = ToNoMsg THEN toReported ELSE toReported \cup {m.id}
            /\ toWorker' = ToAt("sleep", 0, ToNoMsg)
            /\ UNCHANGED toConns
      /\ UNCHANGED <<toConfig, toQueue, toHandled, toConn, toStop, toSent>>

\* Mutant: the connection that is replaced is not closed.
setClientConnKeepsOld(c) == toConn' = c /\ UNCHANGED toConns

\* setClientConn closes the connection it replaces; Stop is not looked at.
setClientConn(c) ==
  /\ toConns' = IF toConn = 0 THEN toConns ELSE [toConns EXCEPT ![toConn].open = FALSE]
  /\ toConn' = c

ToStore ==
  /\ toWorker.at = "store"
  /\ setClientConn(toWorker.conn)
  /\ toWorker' = [toWorker EXCEPT !.at = IF toWorker.msg = ToNoMsg THEN "drain" ELSE "write"]
  /\ UNCHANGED <<toConfig, toQueue, toHandled, toStop, toSent, toReported, toFaults>>

\* The inner loop: the next message, or clientStop.
ToDrain ==
  /\ toWorker.at = "drain"
  /\ \/ /\ toStop # "no"
        /\ toWorker' = ToAt("gone", 0, ToNoMsg)
        /\ UNCHANGED toQueue
     \/ /\ toQueue # <<>>
        /\ toWorker' = ToAt("write", toWorker.conn, Head(toQueue))
        /\ toQueue' = Tail(toQueue)
  /\ UNCHANGED <<toConfig, toHandled, toConns, toConn, toStop, toSent, toReported, toFaults>>

\* writeWithDeadline, then closeAfter or handleWriteFailure; both close the
\* kept connection.  The worker goes on to drain, to sleep or to the top.
closeClientConn ==
  /\ toConns' = IF toConn = 0 THEN toConns ELSE [toConns EXCEPT ![toConn].open = FALSE]
  /\ toConn' = 0

ToWrite ==
  LET m == toWorker.msg
      next == IF toConfig = ToNone THEN "top" ELSE "sleep"
  IN  /\ toWorker.at = "write"
      /\ \/ /\ toConns[toWorker.conn].open
            /\ toSent' = Append(toSent, [id |-> m.id, conn |-> toWorker.conn])
            /\ IF m.close THEN closeClientConn ELSE UNCHANGED <<toConns, toConn>>
            /\ toWorker' = IF m.close \/ toConfig = ToNone THEN ToAt(next, 0, ToNoMsg)
                           ELSE ToAt("drain", toWorker.conn, ToNoMsg)
            /\ UNCHANGED <<toReported, toFaults>>
         \/ /\ ~toConns[toWorker.conn].open \/ toFaults > 0
            /\ toFaults' = IF toConns[toWorker.conn].open THEN toFaults - 1 ELSE toFaults
            /\ toReported' = toReported \cup {m.id}
            /\ closeClientConn
            /\ toWorker' = ToAt(next, 0, ToNoMsg)
            /\ UNCHANGED toSent
      /\ UNCHANGED <<toConfig, toQueue, toHandled, toStop>>

\* sleepOrStop.
ToSleep ==
  /\ toWorker.at = "sleep"
  /\ \/ toWorker' = ToAt("top", 0, ToNoMsg)
     \/ toStop # "no" /\ toWorker' = ToAt("gone", 0, ToNoMsg)
  /\ UNCHANGED <<toConfig, toQueue, toHandled, toConns, toConn, toStop, toSent, toReported, toFaults>>

\* Stop: close clientStop, close the stored connection, wait for the worker.
ToStops ==
  /\ \/ toStop = "no" /\ toStop' = "closing" /\ UNCHANGED toConns
     \/ /\ toStop = "closing" /\ toStop' = "waiting"
        /\ toConns' = IF toConn = 0 THEN toConns ELSE [toConns EXCEPT ![toConn].open = FALSE]
     \/ toStop = "waiting" /\ toWorker.at = "gone" /\ toStop' = "returned" /\ UNCHANGED toConns
  /\ UNCHANGED <<toConfig, toQueue, toHandled, toConn, toWorker, toSent, toReported, toFaults>>

ToWork == ToTop \/ ToDial \/ ToStore \/ ToDrain \/ ToWrite \/ ToSleep

ToNext ==
  \/ \E a \in ToAddrs, c \in BOOLEAN : handleClient(a, c)
  \/ ToWork \/ ToStops

ToProgress == ToWork \/ (toStop # "no" /\ ToStops)

-----------------------------------------------------------------------------
\* The worker runs, dials and writes end at their deadline, and Stop goes on.
ToSpec == ToInit /\ [][ToNext]_toVars /\ WF_toVars(ToProgress)

(***************************************************************************)
(* Every message the node accepted is in the queue, in the worker's hands, *)
(* written or reported, and in one of these only; messages are written in  *)
(* the order of arrival; and whatever dialling, failing and closing came   *)
(* together, the only socket open is the one in clientConn, or the one     *)
(* about to be stored there.  It is not said to which peer a message was   *)
(* written (ToOverride), nor that the socket is closed after Stop          *)
(* (ToStopCloses).                                                         *)
(***************************************************************************)
ToAccounted ==
  LET written == {toSent[i].id : i \in 1 .. Len(toSent)}
      queued == {toQueue[i].id : i \in 1 .. Len(toQueue)}
      held == IF toWorker.msg = ToNoMsg THEN {} ELSE {toWorker.msg.id}
  IN  /\ written \cup queued \cup held \cup toReported = 1 .. toHandled
      /\ written \cap (queued \cup held \cup toReported) = {}
      /\ queued \cap (held \cup toReported) = {} /\ held \cap toReported = {}
      /\ \A i, j \in 1 .. Len(toSent) : i < j => toSent[i].id < toSent[j].id
      /\ \A c \in 1 .. Len(toConns) : toConns[c].open => c \in {toConn, toWorker.conn}

\* Stop has begun: it must return, whatever the worker waits for.
ToPending == toStop \in {"closing", "waiting"}

\* Once Stop returned no socket is open.  Refuted: a dial that ends after
\* Stop closed the stored connection is stored and never closed.
ToStopCloses == toStop = "returned" => \A c \in 1 .. Len(toConns) : ~toConns[c].open

\* A message goes to its own host and port where it has them ("msg.host /
\* msg.port override", tcp-out.md).  Refuted: with a configured address the
\* worker writes every message of the queue to the connection it has.
ToOverride ==
  toWorker.at = "write" => toConns[toWorker.conn].addr = toWorker.msg.addr
=============================================================================
