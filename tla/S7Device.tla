------------------------------ MODULE S7Device ------------------------------
(***************************************************************************)
(* An S7 connection (internal/nodes/s7/plc.go) with an s7-read node        *)
(* (read.go) and an s7-write node (write.go).  Three goroutines call the   *)
(* connection: the poll loop and the message loop of the read node and the *)
(* message loop of the write node.  The mutex of the connection is held    *)
(* over a whole call, that is over connect and all chunks of it; the PLC   *)
(* (external) changes its memory whenever it likes, refuses items, and the *)
(* socket may be closed behind the node's back (peer, idle timeout).       *)
(*                                                                         *)
(* Addresses, data types and scaling are not modelled: a variable is a     *)
(* name, a value read is "0", "1" or "err".                                *)
(***************************************************************************)
EXTENDS Naturals, Sequences, FiniteSets, SequencesExt

CONSTANTS S7Vars,     \* the variables of the PLC's memory
          S7Props,    \* configurations of the read node, good and bad
          S7Lists,    \* lists of variables a message may name
          S7Budgets   \* bounds, of which a behaviour has one: reads, writes, changes the
                      \* PLC makes by itself, failing wire calls and connects

VARIABLES s7Cfg,     \* the configuration of the read node, as Init accepts it
          s7Conn,    \* S7PLC.connected
          s7Sock,    \* the transport has a socket
          s7Window,  \* lastReconnectAttempt: "none", "closed" (recent), "open"
          s7Fill,    \* the status of the connection
          s7Plc,     \* "new", "started", "stopped"
          s7Mem,     \* the memory of the PLC
          s7Mu,      \* the goroutine that holds the mutex
          s7Call,    \* the call each goroutine is in
          s7Last,    \* lastPayload
          s7Out,     \* the messages the read node sent: payloads and errors
          s7Stop,    \* Stop of the read node: "running", "waiting", "returned"
          s7Applied, \* the variables the PLC stored in the last write
          s7Ack,     \* the rows the last write reported
          s7Left     \* what the bounds have left

s7Vars == <<s7Cfg, s7Conn, s7Sock, s7Window, s7Fill, s7Plc, s7Mem, s7Mu, s7Call,
            s7Last, s7Out, s7Stop, s7Applied, s7Ack, s7Left>>

S7Callers == {"poll", "loop", "write"}
S7Nobody == "nobody"

\* Configurations and messages name variables of the PLC; the bounds are numbers.
ASSUME S7Assumption ==
  /\ S7Props \subseteq [mode : {"static", "dynamic", "block"}, vars : Seq(S7Vars), trigger : BOOLEAN,
                       shape : {"single", "array", "object", "block"}, onChange : BOOLEAN]
  /\ S7Lists \subseteq Seq(S7Vars)
  /\ S7Budgets \subseteq [reads : Nat, writes : Nat, changes : Nat, fails : Nat]

NilPayload == [shape |-> "nil", val |-> <<>>]
S7NoCall == [step |-> "idle", todo |-> <<>>, got |-> <<>>, vars |-> <<>>, idx |-> <<>>]

\* S7ReadNode.Init: the mode decides what must be configured; outputShape
\* means nothing in block mode and defaults to the number of variables.
S7ReadInit(c) ==
  IF c.mode = "block"
  THEN c.shape = "block" /\ Len(c.vars) = 1
  ELSE /\ ~c.trigger
       /\ c.mode = "static" => Len(c.vars) > 0
       /\ c.shape \in IF Len(c.vars) <= 1 THEN {"single"} ELSE {"array", "object"}

S7Configs == {c \in S7Props : S7ReadInit(c)}

S7Calls ==
  [step : {"idle", "want", "wire", "got", "send"}, todo : Seq(Seq(S7Vars)), vars : Seq(S7Vars),
   got : Seq({"0", "1", "ok", "err", "failed"}), idx : Seq(Nat)]

S7TypeOK ==
  /\ s7Cfg \in S7Configs
  /\ s7Conn \in BOOLEAN /\ s7Sock \in BOOLEAN
  /\ s7Window \in {"none", "closed", "open"}
  /\ s7Fill \in {"grey", "yellow", "green", "red"}
  /\ s7Plc \in {"new", "started", "stopped"}
  /\ s7Mem \in [S7Vars -> {"0", "1"}]
  /\ s7Mu \in S7Callers \cup {S7Nobody}
  /\ s7Call \in [S7Callers -> S7Calls]
  /\ s7Applied \subseteq S7Vars
  /\ s7Stop \in {"running", "waiting", "returned"}

S7Init ==
  /\ s7Cfg \in S7Configs
  /\ s7Conn = FALSE /\ s7Sock = FALSE /\ s7Window = "none" /\ s7Fill = "grey" /\ s7Plc = "new"
  /\ s7Mem = [v \in S7Vars |-> "0"]
  /\ s7Mu = S7Nobody
  /\ s7Call = [c \in S7Callers |-> S7NoCall]
  /\ s7Last = NilPayload
  /\ s7Out = <<>>
  /\ s7Stop = "running"
  /\ s7Applied = {} /\ s7Ack = <<>>
  /\ s7Left \in S7Budgets

-----------------------------------------------------------------------------
(***************************************************************************)
(* The connection.  The conjuncts of connectLocked, markFailedLocked and   *)
(* markOkLocked, used by the actions below.                                *)
(***************************************************************************)
ConnectLocked ==
  s7Conn' = TRUE /\ s7Sock' = TRUE /\ s7Window' = "none" /\ s7Fill' = "green"

\* Errors are told apart by their type and their text: a net.Error, EOF, a
\* reset or refused connection are taken for the transport's.  "other" is what
\* the PLC or the library refuses, and a failure of the socket with a text that
\* is not in the list.
S7Errors == {"net", "other"}
isS7TransportError(err) == err = "net"

\* It decides whether the connection is given up.
MarkFailed(transport) ==
  /\ s7Conn' = (s7Conn /\ ~transport)
  /\ s7Sock' = (s7Sock /\ ~transport)
  /\ s7Fill' = "red"
  /\ UNCHANGED s7Window

S7Failing == s7Left.fails > 0 /\ s7Left' = [s7Left EXCEPT !.fails = @ - 1]

\* Start connects eagerly; a failure is only shown.
S7Start ==
  /\ s7Plc = "new" /\ s7Mu = S7Nobody
  /\ s7Plc' = "started"
  /\ \/ ConnectLocked /\ UNCHANGED s7Left
     \/ S7Failing /\ s7Fill' = "red" /\ UNCHANGED <<s7Conn, s7Sock, s7Window>>
  /\ UNCHANGED <<s7Cfg, s7Mem, s7Mu, s7Call, s7Last, s7Out, s7Stop, s7Applied, s7Ack>>

\* Stop waits for the mutex and for nothing else.  A partial deploy stops the
\* config instances before the nodes that use them, which go on calling: the
\* next call finds the connection closed and connects again.
S7PlcStop ==
  /\ s7Plc = "started" /\ s7Mu = S7Nobody
  /\ s7Plc' = "stopped"
  /\ s7Conn' = FALSE /\ s7Sock' = FALSE /\ s7Fill' = "grey"
  /\ UNCHANGED <<s7Cfg, s7Window, s7Mem, s7Mu, s7Call, s7Last, s7Out, s7Stop, s7Applied, s7Ack, s7Left>>

\* The environment: the memory changes, the socket is closed by the peer or by
\* the idle timer of the transport, the reconnect window opens.
S7MemChange(v) ==
  /\ s7Left.changes > 0
  /\ s7Left' = [s7Left EXCEPT !.changes = @ - 1]
  /\ s7Mem' = [s7Mem EXCEPT ![v] = IF @ = "0" THEN "1" ELSE "0"]
  /\ UNCHANGED <<s7Cfg, s7Conn, s7Sock, s7Window, s7Fill, s7Plc, s7Mu, s7Call, s7Last, s7Out, s7Stop, s7Applied, s7Ack>>

S7SocketClosed ==
  /\ s7Sock /\ S7Failing
  /\ s7Sock' = FALSE
  /\ UNCHANGED <<s7Cfg, s7Conn, s7Window, s7Fill, s7Plc, s7Mem, s7Mu, s7Call, s7Last, s7Out, s7Stop, s7Applied, s7Ack>>

S7WindowOpens ==
  /\ s7Window = "closed"
  /\ s7Window' = "open"
  /\ UNCHANGED <<s7Cfg, s7Conn, s7Sock, s7Fill, s7Plc, s7Mem, s7Mu, s7Call, s7Last, s7Out, s7Stop, s7Applied, s7Ack, s7Left>>

-----------------------------------------------------------------------------
(***************************************************************************)
(* One call of ReadItems, ReadArea, WriteItems or WriteArea by goroutine   *)
(* c.  The list is cut into chunks by the split planner; an area is one.   *)
(***************************************************************************)
Chunkings(vars) ==
  {<<vars>>} \cup (IF Len(vars) = 2 /\ s7Cfg.shape # "block" THEN {<<<<vars[1]>>, <<vars[2]>>>>} ELSE {})

Enter(c, vars, idx) ==
  \E chunks \in Chunkings(vars) :
    s7Call' = [s7Call EXCEPT ![c] = [step |-> "want", todo |-> chunks, got |-> <<>>,
                                     vars |-> vars, idx |-> idx]]

\* Lock, then connectIfNeededLocked: connected already, refused inside the
\* back-off window, or one attempt.
S7Lock(c) ==
  /\ s7Call[c].step = "want" /\ s7Mu = S7Nobody
  /\ \/ /\ s7Conn
        /\ s7Mu' = c
        /\ s7Call' = [s7Call EXCEPT ![c].step = "wire"]
        /\ UNCHANGED <<s7Conn, s7Sock, s7Window, s7Fill, s7Left>>
     \/ /\ ~s7Conn /\ s7Window = "closed"
        /\ s7Call' = [s7Call EXCEPT ![c].step = "got", ![c].got = <<"failed">>]
        /\ UNCHANGED <<s7Conn, s7Sock, s7Window, s7Fill, s7Mu, s7Left>>
     \/ /\ ~s7Conn /\ s7Window # "closed"
        /\ ConnectLocked
        /\ s7Mu' = c
        /\ s7Call' = [s7Call EXCEPT ![c].step = "wire"]
        /\ UNCHANGED s7Left
     \/ /\ ~s7Conn /\ s7Window # "closed" /\ S7Failing
        /\ s7Window' = "closed" /\ s7Fill' = "red"
        /\ s7Call' = [s7Call EXCEPT ![c].step = "got", ![c].got = <<"failed">>]
        /\ UNCHANGED <<s7Conn, s7Sock, s7Mu>>
  /\ UNCHANGED <<s7Cfg, s7Plc, s7Mem, s7Last, s7Out, s7Stop, s7Applied, s7Ack>>

\* A chunk that the PLC answers.  A read returns a value or an error for each
\* item; a write stores or refuses each item.
S7Chunk(c) ==
  LET chunk == Head(s7Call[c].todo) IN
  /\ s7Call[c].step = "wire" /\ s7Call[c].todo # <<>> /\ s7Sock
  /\ \E bad \in SUBSET ToSet(chunk) :
       /\ IF bad = {} THEN UNCHANGED s7Left
                      ELSE s7Cfg.shape # "block" /\ S7Failing
       /\ LET res == [i \in DOMAIN chunk |->
                        IF chunk[i] \in bad THEN "err"
                        ELSE IF c = "write" THEN "ok" ELSE s7Mem[chunk[i]]]
          IN s7Call' = [s7Call EXCEPT ![c].todo = Tail(@), ![c].got = @ \o res]
       /\ IF c = "write"
          THEN /\ s7Mem' = [v \in S7Vars |-> IF v \in ToSet(chunk) \ bad THEN "1" ELSE s7Mem[v]]
               /\ s7Applied' = s7Applied \cup (ToSet(chunk) \ bad)
          ELSE UNCHANGED <<s7Mem, s7Applied>>
  /\ UNCHANGED <<s7Cfg, s7Conn, s7Sock, s7Window, s7Fill, s7Plc, s7Mu, s7Last, s7Out, s7Stop, s7Ack>>

\* Mutant: the error path returns with the mutex held.
S7ChunkFailsLocked(c) ==
  /\ s7Call[c].step = "wire" /\ s7Call[c].todo # <<>>
  /\ IF s7Sock THEN S7Failing ELSE UNCHANGED s7Left
  /\ \E err \in S7Errors : MarkFailed(isS7TransportError(err))
  /\ s7Call' = [s7Call EXCEPT ![c].step = "got", ![c].got = <<"failed">>]
  /\ UNCHANGED <<s7Mu, s7Cfg, s7Plc, s7Mem, s7Last, s7Out, s7Stop, s7Applied, s7Ack>>

\* A chunk that fails, on the transport or in the PLC, ends the call; earlier
\* chunks have been read or written.
S7ChunkFails(c) ==
  /\ s7Call[c].step = "wire" /\ s7Call[c].todo # <<>>
  /\ IF s7Sock THEN S7Failing ELSE UNCHANGED s7Left
  /\ \E err \in S7Errors : MarkFailed(isS7TransportError(err))
  /\ s7Mu' = S7Nobody
  /\ s7Call' = [s7Call EXCEPT ![c].step = "got", ![c].got = <<"failed">>]
  /\ UNCHANGED <<s7Cfg, s7Plc, s7Mem, s7Last, s7Out, s7Stop, s7Applied, s7Ack>>

S7CallOk(c) ==
  /\ s7Call[c].step = "wire" /\ s7Call[c].todo = <<>>
  /\ s7Fill' = "green"
  /\ s7Mu' = S7Nobody
  /\ s7Call' = [s7Call EXCEPT ![c].step = "got"]
  /\ UNCHANGED <<s7Cfg, s7Conn, s7Sock, s7Window, s7Plc, s7Mem, s7Last, s7Out, s7Stop, s7Applied, s7Ack, s7Left>>

-----------------------------------------------------------------------------
(***************************************************************************)
(* The read node.                                                          *)
(***************************************************************************)
\* A tick of pollLoop (static and block mode); the first one comes at once.
S7Tick ==
  /\ s7Cfg.mode # "dynamic" /\ s7Plc # "new"
  /\ s7Stop = "running" /\ s7Call["poll"].step = "idle" /\ s7Left.reads > 0
  /\ s7Left' = [s7Left EXCEPT !.reads = @ - 1]
  /\ Enter("poll", s7Cfg.vars, <<>>)
  /\ UNCHANGED <<s7Cfg, s7Conn, s7Sock, s7Window, s7Fill, s7Plc, s7Mem, s7Mu, s7Last, s7Out, s7Stop, s7Applied, s7Ack>>

\* HandleMessage reads in dynamic mode, what the message or the configuration
\* names, and in block mode with triggerOnInput, where the message may name
\* another block.  It may run until Stop has returned.
S7HandleMessage ==
  /\ s7Plc # "new" /\ s7Stop # "returned" /\ s7Call["loop"].step = "idle" /\ s7Left.reads > 0
  /\ s7Left' = [s7Left EXCEPT !.reads = @ - 1]
  /\ \E vars \in S7Lists \cup {s7Cfg.vars} :
       /\ \/ s7Cfg.mode = "dynamic" /\ vars # <<>>
          \/ s7Cfg.mode = "block" /\ s7Cfg.trigger /\ Len(vars) = 1
       /\ Enter("loop", vars, <<>>)
  /\ UNCHANGED <<s7Cfg, s7Conn, s7Sock, s7Window, s7Fill, s7Plc, s7Mem, s7Mu, s7Last, s7Out, s7Stop, s7Applied, s7Ack>>

\* buildS7ReadPayload: the first value, all entries with their errors, or the
\* values that were read, by name; a block is its bytes.
BuildPayload(vars, got) ==
  CASE s7Cfg.shape = "single" -> IF got[1] = "err" THEN NilPayload
                                 ELSE [shape |-> "single", val |-> <<got[1]>>]
    [] s7Cfg.shape = "array" -> [shape |-> "array", val |-> [i \in DOMAIN vars |-> <<vars[i], got[i]>>]]
    [] s7Cfg.shape = "block" -> [shape |-> "block", val |-> got]
    [] OTHER -> [shape |-> "object",
                 val |-> {<<vars[i], got[i]>> : i \in {j \in DOMAIN vars : got[j] # "err"}}]

\* emitOnChange: nothing is sent for a payload, or a block, like the last one.
Suppressed(payload) == s7Cfg.onChange /\ payload = s7Last

\* The end of doRead and doBlockRead: with emitOnChange the payload is
\* compared with, and stored as, lastPayload under the node's mutex ...
S7Compare(c) ==
  LET call == s7Call[c]  payload == BuildPayload(call.vars, call.got) IN
  /\ c # "write" /\ call.step = "got"
  /\ IF call.got = <<"failed">>
     THEN s7Call' = [s7Call EXCEPT ![c].step = "send"] /\ UNCHANGED s7Last
     ELSE IF Suppressed(payload)
     THEN s7Call' = [s7Call EXCEPT ![c] = S7NoCall] /\ UNCHANGED s7Last
     ELSE /\ s7Call' = [s7Call EXCEPT ![c].step = "send"]
          /\ s7Last' = IF s7Cfg.onChange THEN payload ELSE s7Last
  /\ UNCHANGED <<s7Cfg, s7Conn, s7Sock, s7Window, s7Fill, s7Plc, s7Mem, s7Mu, s7Out, s7Stop, s7Applied, s7Ack, s7Left>>

\* ... and sent afterwards, by tick itself or by the loop that called
\* HandleMessage; an error goes to the catch nodes.
S7Send(c) ==
  LET call == s7Call[c] IN
  /\ c # "write" /\ call.step = "send"
  /\ s7Out' = IF call.got = <<"failed">> THEN s7Out
              ELSE Append(s7Out, BuildPayload(call.vars, call.got))
  /\ s7Call' = [s7Call EXCEPT ![c] = S7NoCall]
  /\ UNCHANGED <<s7Cfg, s7Conn, s7Sock, s7Window, s7Fill, s7Plc, s7Mem, s7Mu, s7Last, s7Stop, s7Applied, s7Ack, s7Left>>

\* Stop: close(done), then wait for the poll loop.
S7NodeStop ==
  /\ s7Plc # "new" /\ s7Stop = "running"
  /\ s7Stop' = "waiting"
  /\ UNCHANGED <<s7Cfg, s7Conn, s7Sock, s7Window, s7Fill, s7Plc, s7Mem, s7Mu, s7Call, s7Last, s7Out, s7Applied, s7Ack, s7Left>>

S7NodeStopped ==
  /\ s7Stop = "waiting" /\ s7Call["poll"].step = "idle"
  /\ s7Stop' = "returned"
  /\ UNCHANGED <<s7Cfg, s7Conn, s7Sock, s7Window, s7Fill, s7Plc, s7Mem, s7Mu, s7Call, s7Last, s7Out, s7Applied, s7Ack, s7Left>>

-----------------------------------------------------------------------------
(***************************************************************************)
(* The write node.  Variables that cannot be resolved or encoded are left  *)
(* out of the request and reported as errors in their rows.                *)
(***************************************************************************)
\* resolveAndEncode: any of the variables may miss its value or not encode.
\* The rows that are left keep their order.
resolveAndEncode(vars) ==
  {idx \in UNION {[1 .. n -> DOMAIN vars] : n \in 0 .. Len(vars)} :
     \A j, k \in DOMAIN idx : j < k => idx[j] < idx[k]}

S7Write ==
  /\ s7Plc # "new" /\ s7Stop # "returned" /\ s7Call["write"].step = "idle" /\ s7Left.writes > 0
  /\ s7Left' = [s7Left EXCEPT !.writes = @ - 1]
  /\ \E vars \in S7Lists : \E idx \in resolveAndEncode(vars) :
       /\ idx # <<>>
       /\ Enter("write", [j \in DOMAIN idx |-> vars[idx[j]]], idx)
       /\ s7Ack' = [i \in DOMAIN vars |-> [var |-> vars[i],
                                           ok |-> IF i \in ToSet(idx) THEN "pending" ELSE "no"]]
  /\ s7Applied' = {}
  /\ UNCHANGED <<s7Cfg, s7Conn, s7Sock, s7Window, s7Fill, s7Plc, s7Mem, s7Mu, s7Last, s7Out, s7Stop>>

\* Mutant: the results are taken to be in the order of the rows.
S7WriteDoneByPosition ==
  LET call == s7Call["write"] IN
  /\ call.step = "got"
  /\ s7Ack' = IF call.got = <<"failed">> THEN <<>>
              ELSE [i \in DOMAIN s7Ack |->
                      [s7Ack[i] EXCEPT !.ok = IF i \in DOMAIN call.got /\ call.got[i] = "ok" THEN "yes" ELSE "no"]]
  /\ s7Call' = [s7Call EXCEPT !["write"] = S7NoCall]
  /\ UNCHANGED <<s7Cfg, s7Conn, s7Sock, s7Window, s7Fill, s7Plc, s7Mem, s7Mu, s7Last, s7Out, s7Stop, s7Applied, s7Left>>

\* The results of the request are mapped back to the rows; a failed request
\* is an error of the whole message and reports no rows.
S7WriteDone ==
  LET call == s7Call["write"] IN
  /\ call.step = "got"
  /\ s7Ack' = IF call.got = <<"failed">> THEN <<>>
              ELSE [i \in DOMAIN s7Ack |->
                      IF \E j \in DOMAIN call.idx : call.idx[j] = i
                      THEN LET j == CHOOSE k \in DOMAIN call.idx : call.idx[k] = i
                           IN [s7Ack[i] EXCEPT !.ok = IF call.got[j] = "ok" THEN "yes" ELSE "no"]
                      ELSE s7Ack[i]]
  /\ s7Call' = [s7Call EXCEPT !["write"] = S7NoCall]
  /\ UNCHANGED <<s7Cfg, s7Conn, s7Sock, s7Window, s7Fill, s7Plc, s7Mem, s7Mu, s7Last, s7Out, s7Stop, s7Applied, s7Left>>

-----------------------------------------------------------------------------
\* A goroutine inside a call goes on: every wire call has a timeout.
S7CallStep(c) ==
  \/ S7Lock(c) \/ S7Chunk(c) \/ S7ChunkFails(c) \/ S7CallOk(c)
  \/ S7Compare(c) \/ S7Send(c) \/ (c = "write" /\ S7WriteDone)

S7Next ==
  \/ S7Start \/ S7PlcStop \/ S7SocketClosed \/ S7WindowOpens \/ \E v \in S7Vars : S7MemChange(v)
  \/ S7Tick \/ S7HandleMessage \/ S7Write \/ S7NodeStop \/ S7NodeStopped
  \/ \E c \in S7Callers : S7CallStep(c)

S7Progress == S7NodeStopped \/ \E c \in S7Callers : S7CallStep(c)

\* A goroutine inside a call goes on, and a Stop that may return does.
S7Spec == S7Init /\ [][S7Next]_s7Vars /\ WF_s7Vars(S7Progress)

-----------------------------------------------------------------------------
(***************************************************************************)
(* The socket, the flag and the status belong together: whenever no call   *)
(* is under way, a socket is open only if the connection counts as         *)
(* connected, so that the next reconnect cannot leave it behind, green is  *)
(* shown only for a connection, and grey, which Stop shows, only as long   *)
(* as there is no socket: one that a call opens again after Stop is seen.  *)
(***************************************************************************)
S7ConnSound ==
  s7Mu = S7Nobody => /\ s7Sock => s7Conn
                     /\ s7Fill = "green" => s7Conn
                     /\ s7Fill = "grey" => ~s7Sock /\ ~s7Conn

(***************************************************************************)
(* Refuted: a stopped PLC has no socket ("Stop closes the connection",     *)
(* plc.go:242).  A call of a node that has not been stopped yet connects   *)
(* again, and nobody closes that socket any more.                          *)
(***************************************************************************)
S7StoppedQuiet == s7Plc = "stopped" => ~s7Sock

(***************************************************************************)
(* emitOnChange loses no change: with one reading goroutine, what the flow *)
(* received last is the payload later reads are compared with, and no two  *)
(* messages in a row are the same.  (With triggerOnInput the poll loop and *)
(* the message loop send in either order: the newer value may be           *)
(* overtaken by the older and is then suppressed for ever.)                *)
(***************************************************************************)
S7EmitsChanges ==
  (s7Cfg.onChange /\ ~s7Cfg.trigger) =>
    /\ (s7Call["poll"].step # "send" /\ s7Call["loop"].step # "send" /\ s7Out # <<>>)
         => s7Out[Len(s7Out)] = s7Last
    /\ \A i \in 2 .. Len(s7Out) : s7Out[i - 1] # s7Out[i]

(***************************************************************************)
(* The rows of a write are truthful: exactly the variables reported ok     *)
(* were written, in whichever chunk, whichever others could not be encoded *)
(* or were refused.                                                        *)
(***************************************************************************)
S7AckTruthful ==
  (s7Call["write"].step = "idle" /\ s7Ack # <<>>) =>
    {s7Ack[i].var : i \in {j \in DOMAIN s7Ack : s7Ack[j].ok = "yes"}} = s7Applied

\* Stop of the read node is waiting: the poll loop must get the mutex, and
\* every call it makes must end.
S7Pending == s7Stop = "waiting"

(***************************************************************************)
(* The S7 nodes: the connection's state is consistent, no change is lost,  *)
(* and what a write reports is what it did.                                *)
(***************************************************************************)
S7Sound == S7ConnSound /\ S7EmitsChanges /\ S7AckTruthful
=============================================================================
