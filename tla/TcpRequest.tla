----------------------------- MODULE TcpRequest -----------------------------
(***************************************************************************)
(* The tcp-request node (internal/nodes/network/tcp_request.go): one call  *)
(* at a time dials or reuses a connection, writes the request, reads the   *)
(* response up to its terminator and gives the connection back; a call     *)
(* that fails on a reused connection is tried once more on a new one.  The *)
(* peer answers late or closes, and the engine calls Stop, at any moment.  *)
(*                                                                         *)
(* A request is the number of its call; the peer answers it with one       *)
(* response carrying that number.  Bodies, templates, encodings and the    *)
(* message fields are left out, and every body is non-empty.  A deadline   *)
(* may pass at any moment.                                                 *)
(***************************************************************************)
EXTENDS Naturals, Sequences

CONSTANTS TrDests,   \* addresses a message may resolve to
          TrTerms,   \* terminators; "exact" is length and length-prefix
          TrCalls,   \* bound: calls of HandleMessage
          TrFaults   \* bound: failed dials and connections the peer closes

ASSUME TrAssumption ==
  /\ TrDests # {} /\ TrTerms \subseteq {"time", "close", "exact", "delimiter"}
  /\ TrCalls \in Nat /\ TrFaults \in Nat

VARIABLES trKeep,    \* keepConnection
          trTerm,    \* terminator
          trConns,   \* the connections dialled so far
          trCached,  \* n.conn (0: nil); its address is connHost and connPort
          trCall,    \* the call in progress
          trCount,   \* calls so far
          trStopped, \* Stop has run
          trOut,     \* per call: how it ended and whose answers it returned
          trBudget   \* faults left, and whether a second attempt ever failed

trVars == <<trKeep, trTerm, trConns, trCached, trCall, trCount, trStopped, trOut, trBudget>>

TrIds == 1 .. TrCalls
TrNoCall == [pc |-> "idle", dest |-> CHOOSE d \in TrDests : TRUE, conn |-> 0,
             outer |-> 0, reused |-> FALSE, second |-> FALSE, got |-> <<>>]

TrTypeOK ==
  /\ trKeep \in BOOLEAN /\ trTerm \in TrTerms
  /\ trConns \in Seq([dest : TrDests, open : BOOLEAN, peer : BOOLEAN,
                      in : Seq(TrIds), owed : Seq(TrIds)])
  /\ trCached \in 0 .. Len(trConns)
  /\ trCall \in [pc : {"idle", "acquire", "dial", "store", "write", "read", "good", "bad"},
                 dest : TrDests, conn : 0 .. Len(trConns), outer : 0 .. Len(trConns),
                 reused : BOOLEAN, second : BOOLEAN, got : Seq(TrIds)]
  /\ trCount \in 0 .. TrCalls /\ trStopped \in BOOLEAN
  /\ trOut \in [TrIds -> [end : {"none", "ok", "error"}, from : Seq(TrIds)]]
  /\ trBudget \in [faults : 0 .. TrFaults, secondFailed : BOOLEAN]

\* Init rejects terminator "close" with keepConnection.
TrInit ==
  /\ trKeep \in BOOLEAN
  /\ trTerm \in TrTerms
  /\ ~(trKeep /\ trTerm = "close")
  /\ trConns = <<>> /\ trCached = 0
  /\ trCall = TrNoCall /\ trCount = 0
  /\ trStopped = FALSE
  /\ trOut = [i \in TrIds |-> [end |-> "none", from |-> <<>>]]
  /\ trBudget = [faults |-> TrFaults, secondFailed |-> FALSE]

TrEnd(how, from) ==
  /\ trOut' = [trOut EXCEPT ![trCount] = [end |-> how, from |-> from]]
  /\ trCall' = TrNoCall

TrClose(conns, c) == IF c = 0 THEN conns ELSE [conns EXCEPT ![c].open = FALSE]

-----------------------------------------------------------------------------
\* HandleMessage up to acquireConn.  resolveHostPort or the encoding of the
\* body may fail, before any connection is touched.
TrHandleMessage(dest) ==
  /\ trCall.pc = "idle" /\ trCount < TrCalls
  /\ trCount' = trCount + 1
  /\ trCall' = [TrNoCall EXCEPT !.pc = "acquire", !.dest = dest]
  /\ UNCHANGED <<trKeep, trTerm, trConns, trCached, trStopped, trOut, trBudget>>

TrRejected ==
  /\ trCall.pc = "idle" /\ trCount < TrCalls
  /\ trCount' = trCount + 1
  /\ trOut' = [trOut EXCEPT ![trCount + 1].end = "error"]
  /\ UNCHANGED <<trKeep, trTerm, trConns, trCached, trCall, trStopped, trBudget>>

\* acquireConn under connMu: a connection to another address is dropped.
acquireConn ==
  LET hit == trCached # 0 /\ trConns[trCached].dest = trCall.dest
  IN  /\ trCall.pc = "acquire"
      /\ IF trKeep /\ hit
         THEN /\ trCall' = [trCall EXCEPT !.pc = "write", !.conn = trCached, !.reused = TRUE]
              /\ UNCHANGED <<trConns, trCached>>
         ELSE /\ trCall' = [trCall EXCEPT !.pc = "dial"]
              /\ trConns' = TrClose(trConns, trCached)
              /\ trCached' = 0
      /\ UNCHANGED <<trKeep, trTerm, trCount, trStopped, trOut, trBudget>>

\* dial, outside connMu.
TrDial ==
  /\ trCall.pc = "dial"
  /\ \/ /\ trConns' = Append(trConns, [dest |-> trCall.dest, open |-> TRUE, peer |-> TRUE,
                                       in |-> <<>>, owed |-> <<>>])
        /\ trCall' = [trCall EXCEPT !.pc = IF trKeep THEN "store" ELSE "write",
                                    !.conn = Len(trConns) + 1]
        /\ UNCHANGED <<trOut, trBudget>>
     \/ /\ trBudget.faults > 0
        /\ trBudget' = [trBudget EXCEPT !.faults = @ - 1]
        /\ TrEnd("error", <<>>)
        /\ UNCHANGED trConns
  /\ UNCHANGED <<trKeep, trTerm, trCached, trCount, trStopped>>

\* The rest of acquireConn: whether Stop has run meanwhile is not looked at.
TrStore ==
  /\ trCall.pc = "store"
  /\ trCached' = trCall.conn
  /\ trCall' = [trCall EXCEPT !.pc = "write"]
  /\ UNCHANGED <<trKeep, trTerm, trConns, trCount, trStopped, trOut, trBudget>>

\* runRoundTrip: the write.  It may still succeed after the peer closed.
TrWrite ==
  LET c == trConns[trCall.conn]
  IN  /\ trCall.pc = "write"
      /\ \/ /\ c.open
            /\ trConns' = IF c.peer THEN [trConns EXCEPT ![trCall.conn].owed = Append(@, trCount)]
                                    ELSE trConns
            /\ trCall' = [trCall EXCEPT !.pc = "read"]
         \/ /\ ~c.open \/ ~c.peer
            /\ trCall' = [trCall EXCEPT !.pc = "bad"]
            /\ UNCHANGED trConns
      /\ UNCHANGED <<trKeep, trTerm, trCached, trCount, trStopped, trOut, trBudget>>

\* What a read of the terminator may return and leave in the socket.
\* readUntilDelimiter drops what it read beyond the delimiter.
readResponse(in, peer) ==
  CASE trTerm = "time"      -> {[got |-> in, rest |-> <<>>]}
    [] trTerm = "close"     -> IF peer THEN {} ELSE {[got |-> in, rest |-> <<>>]}
    [] trTerm = "exact"     -> IF in = <<>> THEN {} ELSE {[got |-> <<in[1]>>, rest |-> Tail(in)]}
    [] trTerm = "delimiter" -> IF in = <<>> THEN {}
                               ELSE {[got |-> <<in[1]>>, rest |-> r] : r \in {Tail(in), <<>>}}

\* The read.  With every terminator but "time" a passed deadline is an error.
TrRead ==
  LET c == trConns[trCall.conn]
  IN  /\ trCall.pc = "read"
      /\ \/ /\ c.open
            /\ \E r \in readResponse(c.in, c.peer) :
                 /\ trConns' = [trConns EXCEPT ![trCall.conn].in = r.rest]
                 /\ trCall' = [trCall EXCEPT !.pc = "good", !.got = r.got]
         \/ /\ ~c.open \/ (trTerm = "close" /\ c.peer)
               \/ (trTerm \in {"exact", "delimiter"} /\ c.in = <<>>)
            /\ trCall' = [trCall EXCEPT !.pc = "bad"]
            /\ UNCHANGED trConns
      /\ UNCHANGED <<trKeep, trTerm, trCached, trCount, trStopped, trOut, trBudget>>

\* Mutant: a connection that failed is kept for the next request.
releaseKeepsFaulty(c, faulty) == UNCHANGED <<trConns, trCached>>

\* releaseConn.
releaseConn(c, faulty) ==
  /\ trConns' = IF ~trKeep \/ faulty THEN TrClose(trConns, c) ELSE trConns
  /\ trCached' = IF faulty /\ trCached = c THEN 0 ELSE trCached

(***************************************************************************)
(* The end of a round trip.  The second attempt has its connection in a    *)
(* variable of its own, declared inside the if: what is released after it  *)
(* is the connection of the first attempt.                                 *)
(***************************************************************************)
TrRetry ==
  /\ trCall.pc = "bad" /\ trCall.reused /\ ~trCall.second
  /\ releaseConn(trCall.conn, TRUE)
  /\ trCall' = [trCall EXCEPT !.pc = "acquire", !.outer = trCall.conn, !.second = TRUE]
  /\ UNCHANGED <<trKeep, trTerm, trCount, trStopped, trOut, trBudget>>

TrReturn ==
  LET c == IF trCall.second THEN trCall.outer ELSE trCall.conn
  IN  /\ \/ trCall.pc = "good" /\ releaseConn(c, FALSE) /\ TrEnd("ok", trCall.got)
         \/ /\ trCall.pc = "bad" /\ (trCall.second \/ ~trCall.reused)
            /\ releaseConn(c, TRUE)
            /\ TrEnd("error", <<>>)
      /\ trBudget' = [trBudget EXCEPT !.secondFailed = @ \/ (trCall.second /\ trCall.pc = "bad")]
      /\ UNCHANGED <<trKeep, trTerm, trCount, trStopped>>

-----------------------------------------------------------------------------
\* The peer: external.  It answers in order, at any time, or closes.
TrAnswer(c) ==
  /\ trConns[c].open /\ trConns[c].peer /\ trConns[c].owed # <<>>
  /\ trConns' = [trConns EXCEPT ![c].in = Append(@, Head(trConns[c].owed)),
                                ![c].owed = Tail(@)]
  /\ UNCHANGED <<trKeep, trTerm, trCached, trCall, trCount, trStopped, trOut, trBudget>>

TrPeerCloses(c) ==
  /\ trConns[c].open /\ trConns[c].peer /\ trBudget.faults > 0
  /\ trBudget' = [trBudget EXCEPT !.faults = @ - 1]
  /\ trConns' = [trConns EXCEPT ![c].peer = FALSE]
  /\ UNCHANGED <<trKeep, trTerm, trCached, trCall, trCount, trStopped, trOut>>

\* Stop: closePersistentConn.
TrStop ==
  /\ ~trStopped
  /\ trStopped' = TRUE
  /\ trConns' = TrClose(trConns, trCached)
  /\ trCached' = 0
  /\ UNCHANGED <<trKeep, trTerm, trCall, trCount, trOut, trBudget>>

TrProgress == acquireConn \/ TrDial \/ TrStore \/ TrWrite \/ TrRead \/ TrRetry \/ TrReturn

TrNext ==
  \/ \E d \in TrDests : TrHandleMessage(d)
  \/ TrRejected \/ TrStop \/ TrProgress
  \/ \E c \in 1 .. Len(trConns) : TrAnswer(c) \/ TrPeerCloses(c)

\* The loop runs and every step of a call ends at its deadline at the latest.
TrSpec == TrInit /\ [][TrNext]_trVars /\ WF_trVars(TrProgress)

-----------------------------------------------------------------------------
\* Between calls the node holds no socket but the one it has cached, however
\* dialling, failing, retrying, a change of address and Stop came together
\* (releaseConn and acquireConn).
TrSocketsHeld ==
  trCall.pc = "idle" => \A c \in 1 .. Len(trConns) : trConns[c].open => c = trCached

\* Whose answers a call returned, where the terminator ends the response.
TrForeign(i) ==
  /\ trTerm # "time"
  /\ \E k \in 1 .. Len(trOut[i].from) : trOut[i].from[k] # i

\* As long as no second attempt has failed, the answer a call returns is the
\* answer to its own request: a connection on which a response is still to
\* come is never used again (releaseConn with faulty).
TrOwnAnswer == ~trBudget.secondFailed => \A i \in TrIds : ~TrForeign(i)

\* The same without the exception.  Refuted: when the second attempt times
\* out, its connection stays cached and the next call reads the late answer.
TrAlwaysOwnAnswer == \A i \in TrIds : ~TrForeign(i)

\* A call is under way, which must end.
TrPending == trCall.pc # "idle"

(***************************************************************************)
(* The tcp-request node: no socket is left behind, and an answer goes to   *)
(* the request it belongs to.                                              *)
(***************************************************************************)
TrSound == TrSocketsHeld /\ TrOwnAnswer
=============================================================================
