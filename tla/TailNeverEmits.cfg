SPECIFICATION NodesSpec
CHECK_DEADLOCK FALSE
CONSTANTS
  DelayMsgs = 2
  DelayQueueLen = 1
  DelayControls = 1
  SmStates = {"locked", "open", "alarm"}
  SmEvents = {"unlock", "lock"}
  SmDelays = {"t0", "t10", "x"}
  SmInitial = "locked"
  SmOn <- MCOn
  SmAfter <- MCAfter
  SmBadDelays = {"x"}
  SmGone = "gone"
  SmHistCap = 2
  SmMsgs = 2
  SmLate = 2
  ObReports = 1
  ObOps = 2
  ObGens = 1
  ObInbox = 1
  FtModes = {"append"}
  FtFromStarts = {TRUE, FALSE}
  FtDelims = {"line"}
  FtChunks <- MCFileChunks
  FtMaxLine = 3
  FtWrites = 2
  FtReads = 3
  FtCrashes = 0
  FwFiles = {"f", "g"}
  FwTimes <- MCTimes
  FwModes = {"read", "read+watch"}
  FwMasks = {{"create", "write", "remove"}, {"create", "write"}}
  FwReads = 2
  FwCrashes = 1
  FwFaults = 1
  TrDests = {"p", "q"}
  TrTerms = {"time", "exact", "delimiter", "close"}
  TrCalls = 2
  TrFaults = 2
  ToAddrs = {"p", "q"}
  ToConfigs = {"p", "none"}
  ToNone = "none"
  ToMsgs = 3
  ToQueue = 1
  ToFaults = 1
  UdReuses = {TRUE, FALSE}
  UdSends = 2
  UdDatagrams = 2
  FrChunks <- MCStreamChunks
  FrDelim <- MCDelim
  FrSize = 3
  FrMax = 3
  FrTotal = 7
  LbCap = 2
  LbLoggers = {"g", "h"}
  LbEntries = 4
INVARIANT FtTailFromEnd
