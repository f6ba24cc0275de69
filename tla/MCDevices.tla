------------------------------ MODULE MCDevices ------------------------------
(***************************************************************************)
(* Model checking of the nodes that talk to devices and brokers: MQTT, S7, *)
(* Modbus and OPC UA.  Each kind has a connection of its own, so a         *)
(* behaviour is one of one part, chosen initially; the others stay in an   *)
(* initial state.                                                          *)
(***************************************************************************)
EXTENDS MqttBroker, MqttRequest, S7Device, ModbusDevice, OpcuaSubscribe, OpcuaIo

VARIABLE part   \* the part this behaviour is of

devicesVars == <<part, mqVars, rqVars, s7Vars, mbVars, uaVars, ioVars>>

-----------------------------------------------------------------------------
\* s7-read: a single variable, two as an object, a dynamic node, a block that
\* may also be read by a message; and a configuration without variables,
\* which Init rejects.
S7Prop(mode, vars, shape, trigger) ==
  [mode |-> mode, vars |-> vars, shape |-> shape, trigger |-> trigger, onChange |-> TRUE]
MCS7Props ==
  {S7Prop("static", <<"a">>, "single", FALSE), S7Prop("static", <<"a", "b">>, "object", FALSE),
   S7Prop("static", <<>>, "single", FALSE), S7Prop("dynamic", <<>>, "single", FALSE),
   S7Prop("block", <<"a">>, "block", TRUE)}
MCS7Lists == {<<"b", "a">>}
\* Two reads, or a read and a write; the PLC changes once and one call fails.
MCS7Budgets == {[reads |-> 2, writes |-> 0, changes |-> 1, fails |-> 1],
                [reads |-> 1, writes |-> 1, changes |-> 1, fails |-> 1]}

\* modbus: a reader that polls, one that waits for messages, a writer, and a
\* bool of a register, which Init rejects.
MbProp(mode, fc, unit, onChange, dataType) ==
  [mode |-> mode, fc |-> fc, unit |-> unit, onChange |-> onChange, dataType |-> dataType]
MCMbProps ==
  {MbProp("static", 3, 0, TRUE, "uint16"), MbProp("dynamic", 3, 2, TRUE, "uint16"),
   MbProp("static", 3, 2, FALSE, "bool"), MbProp("dynamic", 16, 0, FALSE, "raw")}

\* opcua: entries of which each shows another way to fail, in lists that put
\* the failing ones first.
MCUaItems == <<"x">>
\* Two control messages on a quiet connection, or one and a fault.
MCUaBudgets == {[controls |-> 2, faults |-> 0, notes |-> 1], [controls |-> 1, faults |-> 1, notes |-> 1]}
MCIoKind ==
  [a |-> "plain", s |-> "struct", b |-> "badId", w |-> "readonly", v |-> "badValue", e |-> "badVariant",
   t |-> "typed", u |-> "badType"]
MCIoName ==
  [a |-> <<"n", 2>>, s |-> <<"n">>, b |-> <<"n">>, w |-> <<"w">>, v |-> <<"v">>, e |-> <<"e">>,
   t |-> <<"t">>, u |-> <<"u">>]
MCIoLists == {<<"b", "u", "s", "a">>, <<"e", "w", "v", "t">>}

-----------------------------------------------------------------------------
DevicesInit ==
  /\ part \in {"mqtt", "request", "s7", "modbus", "subscribe", "io"}
  /\ MqInit
  /\ RqInit /\ (part # "request" => rqTimeout)
  /\ S7Init /\ (part # "s7" => s7Cfg = S7Prop("static", <<"a">>, "single", FALSE) /\ s7Left.writes = 1)
  /\ MbInit /\ (part # "modbus" => \A n \in MbReaders : mbCfg[n].mode = "static")
  /\ UaInit /\ (part # "subscribe" => uaMode = "static" /\ uaLeft.controls = 1)
  /\ IoInit

\* The other parts do nothing.
Only(p) ==
  /\ part = p /\ part' = part
  /\ p # "mqtt" => UNCHANGED mqVars
  /\ p # "request" => UNCHANGED rqVars
  /\ p # "s7" => UNCHANGED s7Vars
  /\ p # "modbus" => UNCHANGED mbVars
  /\ p # "subscribe" => UNCHANGED uaVars
  /\ p # "io" => UNCHANGED ioVars

DevicesNext ==
  \/ Only("mqtt") /\ MqNext
  \/ Only("request") /\ RqNext
  \/ Only("s7") /\ S7Next
  \/ Only("modbus") /\ MbNext
  \/ Only("subscribe") /\ UaNext
  \/ Only("io") /\ IoNext

\* The steps of the module specifications' fairness.  One part moves, so that
\* one condition is the conjunction of theirs.
DevicesProgress ==
  \/ Only("request") /\ RqProgress
  \/ Only("s7") /\ S7Progress
  \/ Only("modbus") /\ MbProgress
  \/ Only("subscribe") /\ UaProgress
  \/ Only("io") /\ IoProgress

DevicesSpec ==
  /\ DevicesInit /\ [][DevicesNext]_devicesVars
  /\ WF_devicesVars(DevicesProgress) /\ WF_devicesVars(Only("request") /\ RqRouterStep)

-----------------------------------------------------------------------------
\* Every variable keeps its type.
DevicesTypeOK == MqTypeOK /\ RqTypeOK /\ S7TypeOK /\ MbTypeOK /\ UaTypeOK /\ IoTypeOK

(***************************************************************************)
(* Every request, read, write and Stop of these nodes comes to its end,    *)
(* although several goroutines share a connection that may be lost.        *)
(***************************************************************************)
DevicesReturn == []<>~(RqWaiting \/ S7Pending \/ MbPending \/ UaPending \/ IoPending)
=============================================================================
