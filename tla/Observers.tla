----------------------------- MODULE Observers -----------------------------
(***************************************************************************)
(* The catch and status nodes (internal/nodes/core/catch.go, status.go)    *)
(* and the engine's fan-out of errors and statuses to their listeners      *)
(* (internal/flow/engine.go).                                              *)
(*                                                                         *)
(* A listener runs on the goroutine that reported the error or status,     *)
(* which holds the read lock of the listener table meanwhile; a deploy     *)
(* adds and removes listeners under the write lock.  Go's RWMutex lets no  *)
(* new reader in while a writer waits.  "worker" is a node that reports on *)
(* its own account, "branch" the node behind the observers, which handles  *)
(* what they send and reports in turn; "deploy" is the engine, which       *)
(* reports the status a catch node shows in Start; "reset" the goroutine   *)
(* that ends a blink of the catch node, which is a status, too.            *)
(*                                                                         *)
(* There is one catch and one status node.  A message is the number of     *)
(* status nodes' messages it goes back to, the number of catch nodes it    *)
(* has passed, and the _caught mark.                                       *)
(***************************************************************************)
EXTENDS Naturals, Sequences, FiniteSets

CONSTANTS ObReports,  \* bound: errors and statuses of the worker
          ObOps,      \* bound: Start, Stop and re-wiring by deploys
          ObGens,     \* bound: generations of status messages
          ObInbox     \* capacity of the branch's input channel

ASSUME ObAssumption ==
  ObReports \in Nat /\ ObOps \in Nat /\ ObGens \in Nat /\ ObInbox \in Nat

VARIABLES obListeners, \* per kind: ids registered ("catch": error listeners)
          obSeq,       \* per kind: the id given last
          obStarted,   \* per observer: started
          obWriter,    \* per kind: "none", "waiting", "holding"
          obDeploy,    \* the operation of the engine
          obThread,    \* per reporting goroutine: what it is doing
          obBranch,    \* the branch's input channel
          obTold,      \* generations of the messages the status node sent
          obShown,     \* per observer: its own status, and the message it is about
          obCount      \* reports and operations so far

obVars == <<obListeners, obSeq, obStarted, obWriter, obDeploy, obThread, obBranch,
            obTold, obShown, obCount>>

ObKinds == {"catch", "status"}
ObThreads == {"worker", "branch", "deploy", "reset"}
ObMsg == [gen : 0 .. ObGens, catches : 0 .. 2, caught : BOOLEAN]
ObNew == [gen |-> 0, catches |-> 0, caught |-> FALSE]
ObText(text, msg) == [text |-> text, msg |-> msg]

ObIdle == [at |-> "idle", msg |-> ObNew,
           errors |-> {}, statuses |-> {}, nested |-> FALSE]
ObNoOp == [op |-> "none", kind |-> "catch", at |-> "idle"]

ObTypeOK ==
  /\ \A k \in ObKinds : obListeners[k] \subseteq 1 .. obSeq[k]
  /\ obSeq \in [ObKinds -> Nat]
  /\ obStarted \in [ObKinds -> BOOLEAN]
  /\ obWriter \in [ObKinds -> {"none", "waiting", "holding"}]
  /\ obDeploy \in [op : {"none", "start", "stop", "rewire"}, kind : ObKinds,
                   at : {"idle", "remove", "add", "show", "showing"}]
  /\ \A t \in ObThreads :
       /\ obThread[t].at \in {"idle", "wantError", "inError", "wantStatus", "inStatus"}
       /\ obThread[t].msg \in ObMsg /\ obThread[t].nested \in BOOLEAN
       /\ obThread[t].errors \subseteq 1 .. obSeq["catch"]
       /\ obThread[t].statuses \subseteq 1 .. obSeq["status"]
  /\ obBranch \in Seq(ObMsg) /\ Len(obBranch) <= ObInbox
  /\ obTold \subseteq 1 .. ObGens
  /\ obShown \in [ObKinds -> [text : {"none", "idle", "blink"}, msg : ObMsg]]
  /\ obCount \in [reports : 0 .. ObReports, ops : 0 .. ObOps]

ObInit ==
  /\ obListeners = [k \in ObKinds |-> {}] /\ obSeq = [k \in ObKinds |-> 0]
  /\ obStarted = [k \in ObKinds |-> FALSE]
  /\ obWriter = [k \in ObKinds |-> "none"]
  /\ obDeploy = ObNoOp
  /\ obThread = [t \in ObThreads |-> ObIdle]
  /\ obBranch = <<>>
  /\ obTold = {}
  /\ obShown = [k \in ObKinds |-> ObText("none", ObNew)]
  /\ obCount = [reports |-> 0, ops |-> 0]

ObReading(k) ==
  \E t \in ObThreads : IF k = "catch" THEN obThread[t].at = "inError" \/ obThread[t].nested
                                      ELSE obThread[t].at = "inStatus"

-----------------------------------------------------------------------------
\* Mutant: errors of catch branches are reported to catch nodes again.
makeErrorFuncUnguarded(msg) == TRUE

(***************************************************************************)
(* makeErrorFunc and makeStatusFunc: publish, apply the loop guards, fan   *)
(* out.  The worker's message was never caught; the branch reports on the  *)
(* message it handles.                                                     *)
(***************************************************************************)
\* Whether an error about this message goes to the listeners.
makeErrorFunc(msg) == ~msg.caught

ObReport(t, kind, msg) ==
  obThread' = [obThread EXCEPT ![t] =
     IF kind = "catch" /\ ~makeErrorFunc(msg) THEN ObIdle
     ELSE [ObIdle EXCEPT !.at = IF kind = "catch" THEN "wantError" ELSE "wantStatus",
                         !.msg = msg]]

ObWorkerReports(kind) ==
  /\ obThread["worker"] = ObIdle /\ obCount.reports < ObReports
  /\ obCount' = [obCount EXCEPT !.reports = @ + 1]
  /\ ObReport("worker", kind, ObNew)
  /\ UNCHANGED <<obListeners, obSeq, obStarted, obWriter, obDeploy, obBranch, obTold,
                 obShown>>

\* The branch takes a message: it fails, shows a status, or is content.
ObBranchHandles(kind) ==
  /\ obThread["branch"] = ObIdle /\ obBranch # <<>>
  /\ obBranch' = Tail(obBranch)
  /\ IF kind \in ObKinds
     THEN ObReport("branch", kind, Head(obBranch))
     ELSE UNCHANGED obThread
  /\ UNCHANGED <<obListeners, obSeq, obStarted, obWriter, obDeploy, obTold, obShown,
                 obCount>>

\* fanoutError and fanoutStatus take the read lock.
ObEnter(t) ==
  /\ \/ /\ obThread[t].at = "wantError" /\ obWriter["catch"] = "none"
        /\ obThread' = [obThread EXCEPT ![t].at = "inError", ![t].errors = obListeners["catch"]]
     \/ /\ obThread[t].at = "wantStatus" /\ obWriter["status"] = "none"
        /\ obThread' = [obThread EXCEPT ![t].at = "inStatus", ![t].statuses = obListeners["status"]]
  /\ UNCHANGED <<obListeners, obSeq, obStarted, obWriter, obDeploy, obBranch, obTold,
                 obShown, obCount>>

\* Send to the branch; a full channel drops the message.
ObSend(msg) == obBranch' = IF Len(obBranch) < ObInbox THEN Append(obBranch, msg) ELSE obBranch

\* blink: the status shows the event; a goroutine resets it later.
blink(kind, msg) == obShown' = [obShown EXCEPT ![kind] = ObText("blink", msg)]

(***************************************************************************)
(* handleError: out of scope, or sent on; then its blink is a status of    *)
(* the catch node and goes to the status listeners, inside the error       *)
(* fan-out.  A new message of handleStatus has no _caught mark.            *)
(***************************************************************************)
handleError(t) ==
  /\ obThread[t].at = "inError"
  /\ \E l \in obThread[t].errors :
       \/ /\ obThread' = [obThread EXCEPT ![t].errors = @ \ {l}]
          /\ UNCHANGED <<obBranch, obShown>>
       \/ /\ ObSend([obThread[t].msg EXCEPT !.catches = @ + 1, !.caught = TRUE])
          /\ blink("catch", obThread[t].msg)
          /\ obThread' = [obThread EXCEPT ![t].errors = @ \ {l}, ![t].at = "wantStatus",
                                          ![t].nested = TRUE]
  /\ UNCHANGED <<obTold, obListeners, obSeq, obStarted, obWriter, obDeploy, obCount>>

\* handleStatus: the status node's own blink does not fan out.
handleStatus(t) ==
  /\ obThread[t].at = "inStatus"
  /\ \E l \in obThread[t].statuses :
       /\ obThread' = [obThread EXCEPT ![t].statuses = @ \ {l}]
       /\ \/ UNCHANGED <<obBranch, obTold, obShown>>
          \/ /\ obThread[t].msg.gen < ObGens
             /\ ObSend([ObNew EXCEPT !.gen = obThread[t].msg.gen + 1])
             /\ obTold' = obTold \cup {obThread[t].msg.gen + 1}
             /\ blink("status", ObNew)
  /\ UNCHANGED <<obListeners, obSeq, obStarted, obWriter, obDeploy, obCount>>

\* The end of a fan-out releases its read lock.
ObLeave(t) ==
  /\ \/ /\ obThread[t].at = "inStatus" /\ obThread[t].statuses = {}
        /\ obThread' = [obThread EXCEPT ![t] = IF @.nested
                          THEN [@ EXCEPT !.at = "inError", !.nested = FALSE] ELSE ObIdle]
     \/ /\ obThread[t].at = "inError" /\ obThread[t].errors = {}
        /\ obThread' = [obThread EXCEPT ![t] = ObIdle]
  /\ UNCHANGED <<obListeners, obSeq, obStarted, obWriter, obDeploy, obBranch, obTold,
                 obShown, obCount>>

\* The reset goroutine of the newest blink; those before it find blinkSeq
\* changed and do nothing.  The status it shows fans out if the observer is a
\* catch node, whether or not that still runs; it goes back to what the error
\* did.  One reset of the catch node is in its fan-out at a time.
ObReset(kind) ==
  /\ obShown[kind].text = "blink"
  /\ IF kind = "catch"
     THEN obThread["reset"] = ObIdle /\ ObReport("reset", "status", obShown[kind].msg)
     ELSE UNCHANGED obThread
  /\ obShown' = [obShown EXCEPT ![kind] = ObText("idle", ObNew)]
  /\ UNCHANGED <<obListeners, obSeq, obStarted, obWriter, obDeploy, obBranch, obTold, obCount>>

-----------------------------------------------------------------------------
\* Mutant: a listener is added, not replaced.
ObOperationAdds(op, kind) ==
  /\ obDeploy = ObNoOp /\ obCount.ops < ObOps
  /\ CASE op = "start" -> ~obStarted[kind]
       [] op \in {"stop", "rewire"} -> obStarted[kind]
  /\ obCount' = [obCount EXCEPT !.ops = @ + 1]
  /\ obDeploy' = [op |-> op, kind |-> kind, at |-> IF op = "stop" THEN "remove" ELSE "add"]
  /\ UNCHANGED <<obListeners, obSeq, obStarted, obWriter, obThread, obBranch, obTold,
                 obShown>>

(***************************************************************************)
(* SetErrorListener and SetStatusListener (each wiring pass), Start and    *)
(* Stop of an observer: each drops the registration it has before it takes *)
(* a new one.                                                              *)
(***************************************************************************)
ObOperation(op, kind) ==
  /\ obDeploy = ObNoOp /\ obCount.ops < ObOps
  /\ CASE op = "start" -> ~obStarted[kind]
       [] op \in {"stop", "rewire"} -> obStarted[kind]
  /\ obCount' = [obCount EXCEPT !.ops = @ + 1]
  /\ obDeploy' = [op |-> op, kind |-> kind,
                  at |-> IF obListeners[kind] # {} THEN "remove" ELSE "add"]
  /\ UNCHANGED <<obListeners, obSeq, obStarted, obWriter, obThread, obBranch, obTold,
                 obShown>>

\* The writer waits for the readers to leave, and keeps new ones out.
ObLock ==
  LET k == obDeploy.kind
  IN  /\ obDeploy.at \in {"remove", "add"}
      /\ \/ obWriter[k] = "none" /\ obWriter' = [obWriter EXCEPT ![k] = "waiting"]
         \/ /\ obWriter[k] = "waiting" /\ ~ObReading(k)
            /\ obWriter' = [obWriter EXCEPT ![k] = "holding"]
      /\ UNCHANGED <<obListeners, obSeq, obStarted, obDeploy, obThread, obBranch, obTold,
                     obShown, obCount>>

\* unregister, or registerErrorListener and registerStatusListener.
ObChange ==
  LET k == obDeploy.kind
  IN  /\ obWriter[k] = "holding"
      /\ obWriter' = [obWriter EXCEPT ![k] = "none"]
      /\ IF obDeploy.at = "remove"
         THEN /\ obListeners' = [obListeners EXCEPT ![k] = {}]
              /\ obStarted' = [obStarted EXCEPT ![k] = obDeploy.op # "stop"]
              /\ obDeploy' = IF obDeploy.op = "stop" THEN ObNoOp ELSE [obDeploy EXCEPT !.at = "add"]
              /\ UNCHANGED obSeq
         ELSE /\ obSeq' = [obSeq EXCEPT ![k] = @ + 1]
              /\ obListeners' = [obListeners EXCEPT ![k] = @ \cup {obSeq[k] + 1}]
              /\ obStarted' = [obStarted EXCEPT ![k] = TRUE]
              /\ obDeploy' = IF obDeploy.op = "start" THEN [obDeploy EXCEPT !.at = "show"] ELSE ObNoOp
      /\ UNCHANGED <<obThread, obBranch, obTold, obShown, obCount>>

\* Start shows the idle text, which fans out if the observer is a catch node.
ObShow ==
  LET k == obDeploy.kind
  IN  /\ \/ /\ obDeploy.at = "show"
            /\ obShown' = [obShown EXCEPT ![k] = ObText("idle", ObNew)]
            /\ IF k = "catch"
               THEN ObReport("deploy", "status", ObNew) /\ obDeploy' = [obDeploy EXCEPT !.at = "showing"]
               ELSE obDeploy' = ObNoOp /\ UNCHANGED obThread
         \/ /\ obDeploy.at = "showing" /\ obThread["deploy"] = ObIdle
            /\ obDeploy' = ObNoOp
            /\ UNCHANGED <<obShown, obThread>>
      /\ UNCHANGED <<obListeners, obSeq, obStarted, obWriter, obBranch, obTold, obCount>>

ObNext ==
  \/ \E k \in ObKinds : ObWorkerReports(k) \/ ObReset(k)
  \/ \E k \in ObKinds \cup {"none"} : ObBranchHandles(k)
  \/ \E t \in ObThreads : ObEnter(t) \/ handleError(t) \/ handleStatus(t) \/ ObLeave(t)
  \/ \E op \in {"start", "stop", "rewire"}, k \in ObKinds : ObOperation(op, k)
  \/ ObLock \/ ObChange \/ ObShow

ObProgress ==
  \/ \E t \in ObThreads : ObEnter(t) \/ handleError(t) \/ handleStatus(t) \/ ObLeave(t)
  \/ ObLock \/ ObChange \/ ObShow
  \/ \E k \in ObKinds : ObReset(k)

-----------------------------------------------------------------------------
\* Goroutines and the deploy are scheduled; nothing is assumed of reports.
ObSpec == ObInit /\ [][ObNext]_obVars /\ WF_obVars(ObProgress)

\* Between deploy operations an observer that is started has exactly one
\* listener and one that is not has none, however wiring passes, starts and
\* stops follow each other (SetErrorListener: "to avoid listener leaks").
ObListenersExact ==
  obDeploy = ObNoOp =>
    \A k \in ObKinds : Cardinality(obListeners[k]) = IF obStarted[k] THEN 1 ELSE 0

\* An error that happens while a caught error is handled is not caught again,
\* whatever the branch and the worker report meanwhile: no message has passed
\* two catch nodes (makeErrorFunc, loop guard 2).
ObCaughtOnce == \A i \in 1 .. Len(obBranch) : obBranch[i].catches <= 1

\* A fan-out or a deploy is under way, or an observer blinks: none of them
\* may wait for ever on the listener tables or the timer.
ObPending ==
  \/ \E t \in ObThreads : obThread[t] # ObIdle
  \/ obDeploy # ObNoOp
  \/ \E k \in ObKinds : obShown[k].text = "blink"

\* The status node is told of no status its own messages caused.  Refuted:
\* the loop guard looks at the reporting node only, so a node behind a status
\* node that shows a status for every message triggers it again, for ever.
ObNoStatusLoop == obTold \subseteq {1}

(***************************************************************************)
(* The observers: listeners follow the lifecycle, and a caught error is    *)
(* not caught again.                                                       *)
(***************************************************************************)
ObSound == ObListenersExact /\ ObCaughtOnce
=============================================================================
