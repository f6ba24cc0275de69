CONSTANTS
    a = a  b = b  c = c  f = f  g = g  k = k
    NodeID = {a, b}
    FlowID = {f, g}
    ConfigID = {k}
    NoConfig = NoConfig
    NoWs = NoWs
    Gen = {1, 2}
    MaxLoops = 2
    Cap = 1
    Modes = {"full", "nodes"}
    Workspaces <- WsNodes
    Sources = {}
    HttpIn = {a}
    Timers = {}
    Flaky = {k}
SPECIFICATION Safety
CHECK_DEADLOCK FALSE
INVARIANTS
    GoroutinesAccounted
    RunsWhatWasDeployed
    NoStaleConfig
PROPERTIES
    UnchangedNodesKeepRunning
