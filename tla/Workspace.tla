----------------------------- MODULE Workspace -----------------------------
(***************************************************************************)
(* The workspace an editor deploys, and the difference between two of      *)
(* them: internal/flow/diff.go and the definitions of                      *)
(* internal/flow/types.go.                                                 *)
(*                                                                         *)
(* A workspace is three finite maps: the flows (editor tabs), the nodes    *)
(* placed on them and the config nodes (shared brokers, connections).  A   *)
(* node's functional payload (Name and Config) is abstracted to a version  *)
(* number `ver', the one reference to a config node it may hold to `ref',  *)
(* and its output ports to the set of the node IDs they are wired to.      *)
(***************************************************************************)
EXTENDS Integers, FiniteSets

CONSTANTS NodeID,    \* the IDs of regular nodes
          FlowID,    \* the IDs of flows
          ConfigID,  \* the IDs of config nodes
          NoConfig   \* "this node references no config node"

Ver == Nat

Flow == [disabled : BOOLEAN, env : Ver]

Node == [flow     : FlowID,
         disabled : BOOLEAN,
         ver      : Ver,
         ref      : ConfigID \cup {NoConfig},
         wires    : SUBSET NodeID]

(* A workspace whose nodes all lie on one of its flows.                     *)
IsWorkspace(ws) ==
    /\ DOMAIN ws = {"flows", "nodes", "configs"}
    /\ ws.flows \in [DOMAIN ws.flows -> Flow]
    /\ ws.nodes \in [DOMAIN ws.nodes -> Node]
    /\ ws.configs \in [DOMAIN ws.configs -> Ver]
    /\ DOMAIN ws.flows \subseteq FlowID
    /\ DOMAIN ws.nodes \subseteq NodeID
    /\ DOMAIN ws.configs \subseteq ConfigID
    /\ \A n \in DOMAIN ws.nodes : ws.nodes[n].flow \in DOMAIN ws.flows

(* The nodes of ws that lie on flow f.                                      *)
NodesOf(ws, f) == {n \in DOMAIN ws.nodes : ws.nodes[n].flow = f}

(* The nodes a deployment of ws is to run: types.go says that a disabled    *)
(* flow "should be skipped during deployment", and a disabled node is.      *)
Enabled(ws) == {n \in DOMAIN ws.nodes : /\ ~ws.nodes[n].disabled
                                        /\ ~ws.flows[ws.nodes[n].flow].disabled}
-----------------------------------------------------------------------------
(* What counts as a change of a node: neither its position nor the flow it  *)
(* lies on.                                                                 *)
nodeRewired(old, new) == old.disabled # new.disabled \/ old.wires # new.wires
nodeChanged(old, new) ==
    \/ old.disabled # new.disabled
    \/ old.ver # new.ver
    \/ old.ref # new.ref
    \/ old.wires # new.wires

configNodeChanged(old, new) == old # new

AddedNodes(old, new)    == DOMAIN new.nodes \ DOMAIN old.nodes
RemovedNodes(old, new)  == DOMAIN old.nodes \ DOMAIN new.nodes
ModifiedNodes(old, new) ==
    {n \in DOMAIN old.nodes \cap DOMAIN new.nodes :
        nodeChanged(old.nodes[n], new.nodes[n])}

(* A flow changed when its own properties did, when a node joined or left   *)
(* it, or when one of its nodes was added, removed or modified.             *)
flowRecomposed(old, new, f) ==
    \/ old.flows[f] # new.flows[f]
    \/ NodesOf(old, f) # NodesOf(new, f)
flowChanged(old, new, f) ==
    \/ old.flows[f].disabled # new.flows[f].disabled
    \/ old.flows[f].env # new.flows[f].env
    \/ NodesOf(old, f) # NodesOf(new, f)
    \/ NodesOf(new, f) \cap (AddedNodes(old, new) \cup RemovedNodes(old, new)
                                \cup ModifiedNodes(old, new)) # {}

DiffWorkspaces(old, new) ==
    [addedFlows      |-> DOMAIN new.flows \ DOMAIN old.flows,
     removedFlows    |-> DOMAIN old.flows \ DOMAIN new.flows,
     modifiedFlows   |-> {f \in DOMAIN old.flows \cap DOMAIN new.flows :
                             flowChanged(old, new, f)},
     addedNodes      |-> AddedNodes(old, new),
     removedNodes    |-> RemovedNodes(old, new),
     modifiedNodes   |-> ModifiedNodes(old, new),
     addedConfigs    |-> DOMAIN new.configs \ DOMAIN old.configs,
     removedConfigs  |-> DOMAIN old.configs \ DOMAIN new.configs,
     modifiedConfigs |-> {c \in DOMAIN old.configs \cap DOMAIN new.configs :
                             configNodeChanged(old.configs[c], new.configs[c])}]

IsEmpty(diff) == \A field \in DOMAIN diff : diff[field] = {}

(* The nodes to restart because a config node they reference was modified.  *)
(* Removed and added config nodes do not cascade.                           *)
ConfigDependents(diff, ws) ==
    {n \in DOMAIN ws.nodes : ws.nodes[n].ref \in diff.modifiedConfigs}

notExpanded(diff, ws) == diff
ExpandConfigDependents(diff, ws) ==
    [diff EXCEPT !.modifiedNodes =
        @ \cup (ConfigDependents(diff, ws) \ diff.addedNodes)]

(* The flows a "flows" deploy stops and rebuilds.  When a config node was   *)
(* modified, the flow of every (expanded) modified node joins them: the     *)
(* flow its running instance was created on, given by running, and the one  *)
(* it lies on in the new workspace.                                         *)
AffectedFlows(diff, ws, running) ==
    LET changed == ExpandConfigDependents(diff, ws).modifiedNodes
    IN  diff.removedFlows \cup diff.modifiedFlows \cup diff.addedFlows
          \cup (IF diff.modifiedConfigs = {} THEN {}
                ELSE {running[n] : n \in changed \cap DOMAIN running}
                       \cup {ws.nodes[n].flow : n \in changed \cap DOMAIN ws.nodes})
=============================================================================
