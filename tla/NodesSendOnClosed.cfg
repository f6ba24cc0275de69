CONSTANTS
    a = a  b = b  c = c  f = f  g = g  k = k
    NodeID = {a, b, c}
    FlowID = {f, g}
    ConfigID = {k}
    NoConfig = NoConfig
    NoWs = NoWs
    Gen = {1, 2}
    MaxLoops = 1
    Cap = 1
    Modes = {"nodes"}
    Workspaces <- WsChain
    Sources = {a}
    HttpIn = {}
    Timers = {}
    Flaky = {}
SPECIFICATION Safety
CHECK_DEADLOCK FALSE
INVARIANTS
    NoSendOnClosed
