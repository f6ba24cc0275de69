---------------------------- MODULE ModbusDevice ----------------------------
(***************************************************************************)
(* A Modbus connection (internal/nodes/modbus/server.go) shared by         *)
(* modbus-read nodes (read.go) and modbus-write nodes (write.go).  The     *)
(* unit a request is for is a field of the transport: setting it and the   *)
(* wire call are one critical section.  The transport (external) connects  *)
(* by itself when it must.  A device answers, answers with an exception,   *)
(* or does not answer; behind one connection there are several units.      *)
(***************************************************************************)
EXTENDS Naturals, Sequences, FiniteSets

CONSTANTS MbReaders,   \* modbus-read nodes
          MbWriters,   \* modbus-write nodes
          MbUnits,     \* unit ids; 0 in a configuration means the default
          MbDefault,   \* defaultUnitId
          MbProps,     \* configurations of the nodes, good and bad
          MbCalls,     \* bound: calls made
          MbFails      \* bound: exceptions and transport errors

VARIABLES mbCfg,     \* the configuration of each node
          mbServer,  \* "new", "started", "stopped"
          mbFill,    \* currentFill of the server
          mbShown,   \* the status each node shows
          mbMu,      \* the node inside the critical section
          mbSlave,   \* SlaveId of the transport
          mbMem,     \* the registers of each unit
          mbCall,    \* the call each node's goroutine is in
          mbLast,    \* lastPayload of each reader
          mbOut,     \* the messages each reader sent: <<unit, payload>>
          mbGood,    \* whether the node's last call succeeded
          mbStop,    \* Stop of each node
          mbLeft     \* what the bounds have left

mbVars == <<mbCfg, mbServer, mbFill, mbShown, mbMu, mbSlave, mbMem, mbCall, mbLast,
            mbOut, mbGood, mbStop, mbLeft>>

MbNodes == MbReaders \cup MbWriters
MbFree == "free"
MbIdle == [step |-> "idle", unit |-> 0, got |-> <<>>]

\* A node reads or writes, unit ids are positive, 0 asks for the default.
ASSUME MbAssumption ==
  /\ MbReaders \cap MbWriters = {} /\ MbFree \notin MbNodes
  /\ 0 \notin MbUnits /\ MbDefault \in MbUnits
  /\ \A c \in MbProps : c.unit \in MbUnits \cup {0}

\* Init of a reader, which polls (static) or waits for messages (dynamic),
\* and of a writer, which only has messages: coils and registers have function
\* codes of their own, and a bool can be read only from coils.
MbReadInit(c) ==
  /\ c.mode \in {"static", "dynamic"} /\ c.fc \in 1 .. 4
  /\ c.dataType = "bool" => c.fc \in 1 .. 2
MbWriteInit(c) == c.fc \in {5, 6, 15, 16}

MbConfigs(n) == {c \in MbProps : IF n \in MbReaders THEN MbReadInit(c) ELSE MbWriteInit(c)}

MbPolls(n) == n \in MbReaders /\ mbCfg[n].mode = "static"

MbTypeOK ==
  /\ \A n \in MbNodes : mbCfg[n] \in MbConfigs(n)
  /\ mbServer \in {"new", "started", "stopped"}
  /\ mbFill \in {"grey", "yellow", "green", "red"}
  /\ mbShown \in [MbNodes -> {"none", "grey", "yellow", "green", "red"}]
  /\ mbMu \in MbNodes \cup {MbFree}
  /\ mbSlave \in MbUnits \cup {0}
  /\ mbMem \in [MbUnits -> 0 .. 1]
  /\ \A n \in MbNodes : /\ mbCall[n].step \in {"idle", "want", "set", "wire", "got", "send"}
                         /\ mbCall[n] # MbIdle => mbCall[n].unit \in MbUnits
  /\ mbStop \in [MbNodes -> {"new", "running", "waiting", "returned"}]

MbInit ==
  /\ mbCfg \in [MbNodes -> MbProps] /\ \A n \in MbNodes : mbCfg[n] \in MbConfigs(n)
  /\ mbServer = "new" /\ mbFill = "grey"
  /\ mbShown = [n \in MbNodes |-> "none"]
  /\ mbMu = MbFree /\ mbSlave = 0
  /\ mbMem = [u \in MbUnits |-> 0]
  /\ mbCall = [n \in MbNodes |-> MbIdle]
  /\ mbLast = [n \in MbReaders |-> <<>>]
  /\ mbOut = [n \in MbReaders |-> <<>>]
  /\ mbGood = [n \in MbNodes |-> FALSE]
  /\ mbStop = [n \in MbNodes |-> "new"]
  /\ mbLeft = [calls |-> MbCalls, fails |-> MbFails]

\* setStatusLocked: the registered nodes hear of a change, and only of one.
SetStatus(fill) ==
  /\ mbFill' = fill
  /\ mbShown' = IF fill = mbFill THEN mbShown
                ELSE [n \in MbNodes |-> IF mbStop[n] = "new" THEN mbShown[n] ELSE fill]

\* Start connects before any node runs; a failure is only shown.
MbServerStart ==
  /\ mbServer = "new" /\ mbServer' = "started"
  /\ \E fill \in {"green", "red"} : SetStatus(fill)
  /\ UNCHANGED <<mbCfg, mbMu, mbSlave, mbMem, mbCall, mbLast, mbOut, mbGood, mbStop, mbLeft>>

\* Stop needs the mutex.  Nodes that still run go on calling, and the handler
\* connects again by itself.
MbServerStop ==
  /\ mbServer = "started" /\ mbMu = MbFree
  /\ mbServer' = "stopped"
  /\ SetStatus("grey")
  /\ UNCHANGED <<mbCfg, mbMu, mbSlave, mbMem, mbCall, mbLast, mbOut, mbGood, mbStop, mbLeft>>

\* Start of a node: RegisterStatusFunc delivers the current status at once.
MbNodeStart(n) ==
  /\ mbServer = "started" /\ mbStop[n] = "new"
  /\ mbStop' = [mbStop EXCEPT ![n] = "running"]
  /\ mbShown' = [mbShown EXCEPT ![n] = mbFill]
  /\ UNCHANGED <<mbCfg, mbServer, mbFill, mbMu, mbSlave, mbMem, mbCall, mbLast, mbOut, mbGood, mbLeft>>

\* Stop of a node: a reader waits for its poll loop.
MbNodeStop(n) ==
  /\ mbStop[n] = "running"
  /\ mbStop' = [mbStop EXCEPT ![n] = "waiting"]
  /\ UNCHANGED <<mbCfg, mbServer, mbFill, mbShown, mbMu, mbSlave, mbMem, mbCall, mbLast, mbOut, mbGood, mbLeft>>

MbNodeStopped(n) ==
  /\ mbStop[n] = "waiting"
  /\ MbPolls(n) => mbCall[n] = MbIdle
  /\ mbStop' = [mbStop EXCEPT ![n] = "returned"]
  /\ UNCHANGED <<mbCfg, mbServer, mbFill, mbShown, mbMu, mbSlave, mbMem, mbCall, mbLast, mbOut, mbGood, mbLeft>>

-----------------------------------------------------------------------------
\* Mutant: unit 0 is not replaced by the default.
EffectiveUnitRaw(n, override) == IF override # 0 THEN override ELSE mbCfg[n].unit

\* The unit of a call: msg.unitId, else the node's, else the default.
EffectiveUnit(n, override) ==
  IF override # 0 THEN override ELSE IF mbCfg[n].unit # 0 THEN mbCfg[n].unit ELSE MbDefault

\* tick of a polling reader.
MbTick(n) ==
  /\ MbPolls(n)
  /\ mbStop[n] = "running" /\ mbCall[n] = MbIdle /\ mbLeft.calls > 0
  /\ mbCall' = [mbCall EXCEPT ![n] = [step |-> "want", unit |-> EffectiveUnit(n, 0), got |-> <<>>]]
  /\ mbLeft' = [mbLeft EXCEPT !.calls = @ - 1]
  /\ UNCHANGED <<mbCfg, mbServer, mbFill, mbShown, mbMu, mbSlave, mbMem, mbLast, mbOut, mbGood, mbStop>>

\* HandleMessage of a dynamic reader or of a writer.  A payload that cannot be
\* encoded ends a write before the server is called and leaves no trace.
MbHandleMessage(n) ==
  /\ ~MbPolls(n)
  /\ mbStop[n] \in {"running", "waiting"} /\ mbCall[n] = MbIdle /\ mbLeft.calls > 0
  /\ \E override \in MbUnits \cup {0} :
       mbCall' = [mbCall EXCEPT ![n] = [step |-> "want", unit |-> EffectiveUnit(n, override), got |-> <<>>]]
  /\ mbLeft' = [mbLeft EXCEPT !.calls = @ - 1]
  /\ UNCHANGED <<mbCfg, mbServer, mbFill, mbShown, mbMu, mbSlave, mbMem, mbLast, mbOut, mbGood, mbStop>>

\* Mutant: the unit is set before the mutex is taken.
MbLockLate(n) ==
  /\ mbCall[n].step = "want"
  /\ mbMu' = n
  /\ mbCall' = [mbCall EXCEPT ![n].step = "set"]
  /\ UNCHANGED <<mbCfg, mbServer, mbFill, mbShown, mbSlave, mbMem, mbLast, mbOut, mbGood, mbStop, mbLeft>>

(***************************************************************************)
(* Read and the four writes of the server: lock, set the unit, call,       *)
(* record the result, unlock.                                              *)
(***************************************************************************)
MbLock(n) ==
  /\ mbCall[n].step = "want" /\ mbMu = MbFree
  /\ mbMu' = n
  /\ mbCall' = [mbCall EXCEPT ![n].step = "set"]
  /\ UNCHANGED <<mbCfg, mbServer, mbFill, mbShown, mbSlave, mbMem, mbLast, mbOut, mbGood, mbStop, mbLeft>>

MbSetSlaveID(n) ==
  /\ mbCall[n].step = "set"
  /\ mbSlave' = mbCall[n].unit
  /\ mbCall' = [mbCall EXCEPT ![n].step = "wire"]
  /\ UNCHANGED <<mbCfg, mbServer, mbFill, mbShown, mbMu, mbMem, mbLast, mbOut, mbGood, mbStop, mbLeft>>

\* The device answers: the unit the transport addresses is read or written.
MbWire(n) ==
  /\ mbCall[n].step = "wire"
  /\ mbMem' = IF n \in MbWriters THEN [mbMem EXCEPT ![mbSlave] = 1 - @] ELSE mbMem
  /\ mbCall' = [mbCall EXCEPT ![n].step = "got", ![n].got = <<mbSlave, mbMem'[mbSlave]>>]
  /\ mbGood' = [mbGood EXCEPT ![n] = TRUE]
  /\ SetStatus("green")
  /\ mbMu' = MbFree
  /\ UNCHANGED <<mbCfg, mbServer, mbSlave, mbLast, mbOut, mbStop, mbLeft>>

\* recordResultLocked for an error: an exception leaves the status alone.
MbWireFails(n) ==
  /\ mbCall[n].step = "wire" /\ mbLeft.fails > 0
  /\ mbLeft' = [mbLeft EXCEPT !.fails = @ - 1]
  /\ \/ SetStatus("red")
     \/ UNCHANGED <<mbFill, mbShown>>
  /\ mbCall' = [mbCall EXCEPT ![n].step = "got", ![n].got = <<>>]
  /\ mbGood' = [mbGood EXCEPT ![n] = FALSE]
  /\ mbMu' = MbFree
  /\ UNCHANGED <<mbCfg, mbServer, mbSlave, mbMem, mbLast, mbOut, mbStop>>

\* After the call: an error turns the node red; a reader compares the payload
\* with the last one (emitOnChange), of whichever unit, a writer is done.
MbAfter(n) ==
  LET got == mbCall[n].got IN
  /\ mbCall[n].step = "got"
  /\ IF got = <<>>
     THEN mbShown' = [mbShown EXCEPT ![n] = "red"] ELSE UNCHANGED mbShown
  /\ IF got # <<>> /\ n \in MbReaders /\ ~(mbCfg[n].onChange /\ mbLast[n] = <<got[2]>>)
     THEN /\ mbLast' = [mbLast EXCEPT ![n] = IF mbCfg[n].onChange THEN <<got[2]>> ELSE @]
          /\ mbCall' = [mbCall EXCEPT ![n].step = "send"]
     ELSE /\ mbCall' = [mbCall EXCEPT ![n] = MbIdle]
          /\ UNCHANGED mbLast
  /\ UNCHANGED <<mbCfg, mbServer, mbFill, mbMu, mbSlave, mbMem, mbOut, mbGood, mbStop, mbLeft>>

MbSend(n) ==
  /\ mbCall[n].step = "send"
  /\ mbOut' = [mbOut EXCEPT ![n] = Append(@, mbCall[n].got)]
  /\ mbCall' = [mbCall EXCEPT ![n] = MbIdle]
  /\ UNCHANGED <<mbCfg, mbServer, mbFill, mbShown, mbMu, mbSlave, mbMem, mbLast, mbGood, mbStop, mbLeft>>

MbCallStep(n) == MbLock(n) \/ MbSetSlaveID(n) \/ MbWire(n) \/ MbWireFails(n) \/ MbAfter(n) \/ MbSend(n)

MbNext ==
  \/ MbServerStart \/ MbServerStop
  \/ \E n \in MbNodes : \/ MbNodeStart(n) \/ MbNodeStop(n) \/ MbNodeStopped(n)
                        \/ MbTick(n) \/ MbHandleMessage(n) \/ MbCallStep(n)

MbProgress == \E n \in MbNodes : MbCallStep(n) \/ MbNodeStopped(n)

\* A goroutine inside a call goes on, and a Stop that may return does.
MbSpec == MbInit /\ [][MbNext]_mbVars /\ WF_mbVars(MbProgress)

-----------------------------------------------------------------------------
(***************************************************************************)
(* Requests of several nodes never get mixed up: whatever a node reads or  *)
(* writes, and whatever it sent on, is of the unit it asked for; and the   *)
(* message a reader sent last is the payload later reads are compared      *)
(* with.                                                                   *)
(***************************************************************************)
MbRightUnit ==
  /\ \A n \in MbNodes : mbCall[n].got # <<>> => mbCall[n].got[1] = mbCall[n].unit
  /\ \A n \in MbReaders : (mbCfg[n].onChange /\ mbCall[n].step # "send" /\ mbOut[n] # <<>>)
                            => mbLast[n] = <<mbOut[n][Len(mbOut[n])][2]>>

\* Stop of a reader is waiting: it must return although other nodes use the
\* connection.
MbPending == \E n \in MbReaders : mbStop[n] = "waiting"

(***************************************************************************)
(* NODE_MODBUS.md: after a successful read the node sets its status to ok: *)
(* a reader whose last read succeeded, and which is idle, is not red while *)
(* the connection is green.                                                *)
(***************************************************************************)
MbStatusRecovers ==
  \A n \in MbReaders :
    (mbStop[n] = "running" /\ mbCall[n] = MbIdle /\ mbGood[n] /\ mbFill = "green")
      => mbShown[n] # "red"
=============================================================================
