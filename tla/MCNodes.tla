------------------------------- MODULE MCNodes -------------------------------
(***************************************************************************)
(* Model checking of the nodes that share no state with each other: delay, *)
(* state machine, catch and status, file, TCP and UDP nodes, the framers   *)
(* and the log buffer.  A behaviour is one of one part, chosen             *)
(* initially; the others stay in an initial state.                         *)
(***************************************************************************)
EXTENDS DelayNode, StateMachineNode, Observers, FileTail, FileWatch,
        TcpRequest, TcpOutClient, UdpNodes, Framing, LogBuffer

VARIABLE part   \* the part this behaviour is of

nodesVars == <<part, delayVars, smVars, obVars, ftVars, fwVars, trVars, toVars,
               udVars, frVars, lbVars>>

-----------------------------------------------------------------------------
\* A door that closes by itself and raises an alarm: guarded and unguarded
\* candidates, delays shared by two states, a delay that does not parse.
To(target, guarded) == [target |-> target, guarded |-> guarded]
MCOn ==
  [locked |-> [unlock |-> <<To("open", TRUE), To("locked", FALSE)>>, lock |-> <<>>],
   open |-> [unlock |-> <<To("alarm", TRUE)>>, lock |-> <<To("locked", FALSE)>>],
   alarm |-> [unlock |-> <<>>, lock |-> <<>>]]
MCAfter ==
  [locked |-> [t0 |-> <<To("alarm", TRUE)>>, t10 |-> <<>>, x |-> <<>>],
   open |-> [t0 |-> <<To("alarm", TRUE)>>, t10 |-> <<To("locked", FALSE)>>, x |-> <<>>],
   alarm |-> [t0 |-> <<>>, t10 |-> <<To("alarm", TRUE), To("open", FALSE)>>,
              x |-> <<To("open", FALSE)>>]]

\* Payloads with a newline at the end, inside, and without one.
MCFileChunks == {<<"c">>, <<"c", "n">>, <<"n", "c", "n">>}
\* Times a file may get, as the digits behind the second; ".1Z" is a later text
\* than ".15Z".
MCTimes == <<<<1>>, <<1, 5>>, <<2>>>>
\* Bytes 1, 2 are the delimiter; 2 and 3 are also headers of frames.
MCStreamChunks == {<<2>>, <<0, 1>>, <<1, 2>>, <<3, 1, 2, 1>>}
MCDelim == <<1, 2>>

-----------------------------------------------------------------------------
NodesInit ==
  /\ part \in {"delay", "machine", "observers", "tail", "watch", "request",
               "client", "udp", "framing", "log"}
  /\ DelayInit /\ (part # "delay" => dlMode = "timed")
  /\ SmInit /\ (part # "machine" => smPersist = "off" /\ smStored = NoState)
  /\ ObInit
  /\ FtInit /\ (part # "tail" => ftCfg = [mode |-> "append", fromStart |-> TRUE, delim |-> "line"])
  /\ FwInit /\ (part # "watch" => fwMode = "read" /\ fwFromStart
                                /\ fwMask = {"create", "write"})
  /\ TrInit /\ (part # "request" => ~trKeep /\ trTerm = "time")
  /\ ToInit /\ (part # "client" => toConfig = ToNone)
  /\ UdInit /\ (part # "udp" => uoReuse)
  /\ FrInit /\ (part # "framing" => frMode = "stream")
  /\ LbInit

\* The other parts do nothing.
Only(p) ==
  /\ part = p /\ part' = part
  /\ p # "delay" => UNCHANGED delayVars
  /\ p # "machine" => UNCHANGED smVars
  /\ p # "observers" => UNCHANGED obVars
  /\ p # "tail" => UNCHANGED ftVars
  /\ p # "watch" => UNCHANGED fwVars
  /\ p # "request" => UNCHANGED trVars
  /\ p # "client" => UNCHANGED toVars
  /\ p # "udp" => UNCHANGED udVars
  /\ p # "framing" => UNCHANGED frVars
  /\ p # "log" => UNCHANGED lbVars

NodesNext ==
  \/ Only("delay") /\ DelayNext
  \/ Only("machine") /\ SmNext
  \/ Only("observers") /\ ObNext
  \/ Only("tail") /\ FtNext
  \/ Only("watch") /\ FwNext
  \/ Only("request") /\ TrNext
  \/ Only("client") /\ ToNext
  \/ Only("udp") /\ UdNext
  \/ Only("framing") /\ FrNext
  \/ Only("log") /\ LbNext

\* The steps of the module specifications' fairness.  One part moves, so that
\* one condition is the conjunction of theirs.
NodesProgress ==
  \/ Only("delay") /\ DelayProgress
  \/ Only("machine") /\ SmProgress
  \/ Only("observers") /\ ObProgress
  \/ Only("tail") /\ FtProgress
  \/ Only("watch") /\ FwProgress
  \/ Only("request") /\ TrProgress
  \/ Only("client") /\ ToProgress
  \/ Only("udp") /\ UdProgress

NodesSpec == NodesInit /\ [][NodesNext]_nodesVars /\ WF_nodesVars(NodesProgress)

-----------------------------------------------------------------------------
\* Every variable keeps its type.
NodesTypeOK ==
  /\ DelayTypeOK /\ SmTypeOK /\ ObTypeOK /\ FtTypeOK /\ FwTypeOK
  /\ TrTypeOK /\ ToTypeOK /\ UdTypeOK /\ FrTypeOK /\ LbTypeOK

(***************************************************************************)
(* tcp-out as a client accounts for every message, writes in the order of  *)
(* arrival and holds at most the stored socket and the one it is about to  *)
(* store; udp-out holds at most the cached socket where it reuses one; and *)
(* udp-in leaves neither socket nor loop when its Stop has returned.       *)
(* (The socket of tcp-out may outlive Stop: ToStopCloses.  Those of        *)
(* udp-out without reuseSocket are never closed: UdOneSocket.)             *)
(***************************************************************************)
NetworkSound == ToAccounted /\ UdSocketsHeld

(***************************************************************************)
(* Streams: the framers neither lose nor repeat a byte; the log ring       *)
(* answers with the newest entries, and an open panel shows no entry twice *)
(* and misses only those the hub dropped or another overtook.              *)
(***************************************************************************)
StreamsSound == FrSound /\ LbSound

(***************************************************************************)
(* Every Stop returns, every handler ends, the after-transitions of a      *)
(* state machine happen and every change in a watched folder is told.      *)
(***************************************************************************)
NodesReturn ==
  /\ SmAfterHappens
  /\ []<>~(\/ DelayPending \/ ObPending \/ FtPending \/ FwPending
           \/ TrPending \/ ToPending \/ UdPending)
=============================================================================
