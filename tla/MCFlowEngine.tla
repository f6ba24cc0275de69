---------------------------- MODULE MCFlowEngine ----------------------------
(***************************************************************************)
(* Small instances of FlowEngine: the workspaces the runs deploy.          *)
(***************************************************************************)
EXTENDS FlowEngine

CONSTANTS a, b, c,  \* nodes
          f, g,     \* flows
          k         \* config node

N(flow, ver, ref, wires) ==
    [flow |-> flow, disabled |-> FALSE, ver |-> ver, ref |-> ref, wires |-> wires]
Tab(off) == [disabled |-> off, env |-> 0]
Ws(tabs, ns, cs) == [flows |-> tabs, nodes |-> ns, configs |-> cs]
At(x, y) == [i \in {x} |-> y]
Two(x, y, u, v) == [i \in {x, u} |-> IF i = x THEN y ELSE v]
Nothing == [i \in {} |-> 0]

\* One flow: the source a feeds b, and b feeds c.
Chain(vb, wb) ==
    [n \in {a, b, c} |-> CASE n = a -> N(f, 0, NoConfig, {b})
                           [] n = b -> N(f, vb, NoConfig, wb)
                           [] n = c -> N(f, 0, NoConfig, {})]
Plain     == Ws(At(f, Tab(FALSE)), Chain(0, {c}), Nothing)
\* b edited; b feeding itself and a node that does not exist; the tab disabled.
Edited    == Ws(At(f, Tab(FALSE)), Chain(1, {c}), Nothing)
SelfLoop  == Ws(At(f, Tab(FALSE)), Two(a, N(f, 0, NoConfig, {b}),
                                       b, N(f, 0, NoConfig, {b, c})), Nothing)
TabOff    == Ws(At(f, Tab(TRUE)), Chain(0, {c}), Nothing)

\* Two flows: a on f feeds b on g.  b edited; b moved to f and back.
Pair(fb, vb) == Two(a, N(f, 0, NoConfig, {b}), b, N(fb, vb, NoConfig, {}))
TwoTabs      == Two(f, Tab(FALSE), g, Tab(FALSE))
Cross        == Ws(TwoTabs, Pair(g, 0), Nothing)
CrossEdited  == Ws(TwoTabs, Pair(g, 1), Nothing)
CrossMoved   == Ws(TwoTabs, Pair(f, 0), Nothing)
CrossOff     == Ws(Two(f, Tab(FALSE), g, Tab(TRUE)), Pair(g, 0), Nothing)
OneTab       == Ws(At(f, Tab(FALSE)), At(a, N(f, 0, NoConfig, {b})), Nothing)

\* b uses config node k, with its two settings; k removed while b names it; a edited
\* and left without b and k.
Uses(cs) == Ws(At(f, Tab(FALSE)), Two(a, N(f, 0, NoConfig, {b}), b, N(f, 0, k, {})), cs)
Conf0 == Uses(At(k, 0))
Conf1 == Uses(At(k, 1))
Gone  == Uses(Nothing)
Alone == Ws(At(f, Tab(FALSE)), At(a, N(f, 1, NoConfig, {b})), Nothing)

WsFull   == {SelfLoop, Conf0, TabOff}
WsChain  == {Plain, Edited, SelfLoop}
WsNodes  == {Conf0, Conf1, Alone}
WsGone   == {Conf0, Gone}
WsFlows  == {Cross, CrossEdited, CrossOff, OneTab}
WsMove   == {Cross, CrossMoved, CrossEdited}
=============================================================================
