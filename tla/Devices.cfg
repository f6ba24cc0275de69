SPECIFICATION DevicesSpec
CHECK_DEADLOCK FALSE
CONSTANTS
  MqNodes = {"d", "s"}
  MqStatic = {"s"}
  MqTopics = {"t"}
  MqOpts = {"o", "p"}
  MqFails = 1
  MqDrops = 1
  MqCtl = 1
  RqReqs = 2
  RqDrops = 1
  RqFails = 1
  S7Vars = {"a", "b"}
  S7Props <- MCS7Props
  S7Lists <- MCS7Lists
  S7Budgets <- MCS7Budgets
  MbReaders = {"r"}
  MbWriters = {"w"}
  MbUnits = {1, 2}
  MbDefault = 1
  MbProps <- MCMbProps
  MbCalls = 3
  MbFails = 1
  UaNodeIds = {"x", "y"}
  UaConfigItems <- MCUaItems
  UaModes = {"static", "dynamic"}
  UaBudgets <- MCUaBudgets
  IoReaders = {"r1", "r2"}
  IoKind <- MCIoKind
  IoName <- MCIoName
  IoLists <- MCIoLists
  IoShape = "array"
  IoCalls = 2
  IoFaults = 1
INVARIANTS
  DevicesTypeOK
  MqSound
  RqSound
  S7Sound
  MbRightUnit
  UaSound
  IoSound
PROPERTY DevicesReturn
