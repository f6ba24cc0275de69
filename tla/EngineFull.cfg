CONSTANTS
    a = a  b = b  c = c  f = f  g = g  k = k
    NodeID = {a, b, c}
    FlowID = {f, g}
    ConfigID = {k}
    NoConfig = NoConfig
    NoWs = NoWs
    Gen = {1, 2}
    MaxLoops = 1
    Cap = 1
    Modes = {"full"}
    Workspaces <- WsFull
    Sources = {a}
    HttpIn = {}
    Timers = {b}
    Flaky = {b}
SPECIFICATION Spec
CHECK_DEADLOCK FALSE
INVARIANTS
    TypeOK
    FullDeploySafe
    ConfigOutlivesUsers
PROPERTIES
    OperationReturns
