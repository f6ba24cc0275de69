----------------------------- MODULE DelayNode -----------------------------
(***************************************************************************)
(* The delay node (internal/nodes/core/delay.go).  One message loop calls  *)
(* HandleMessage; every held message has a goroutine of its own; in rate   *)
(* mode with the queue behaviour one worker empties a bounded channel; the *)
(* engine calls Stop from a fourth goroutine, possibly while the loop is   *)
(* still handing messages over.                                            *)
(*                                                                         *)
(* Durations are not modelled: a timer or tick may be due at any moment.   *)
(* Send is one step (it puts the message into the channel of the next      *)
(* node).  Messages are numbered in the order in which they arrive.        *)
(***************************************************************************)
EXTENDS Naturals, Integers, Sequences, FiniteSets

CONSTANTS DelayMsgs,      \* bound: the loop handles messages 1 .. DelayMsgs
          DelayQueueLen,  \* maxQueueLength
          DelayControls   \* bound: messages with reset or flush set

ASSUME DelayAssumption == DelayMsgs \in Nat /\ DelayQueueLen \in Nat /\ DelayControls \in Nat

VARIABLES dlMode,     \* "timed" (delay and random), "queue", "drop", "other"
          dlAt,       \* where each message is
          dlGo,       \* the goroutine of each held message
          dlReset,    \* the messages whose captured resetSignal is closed
          dlQueue,    \* the channel of the rate mode
          dlPending,  \* the atomic counter
          dlShown,    \* the count last given to Status
          dlLoop,     \* what the message loop is doing
          dlWorker,   \* the rate worker
          dlCooling,  \* rate drop: lastSent is less than rateInterval ago
          dlStop,     \* "running", "waiting" (in wg.Wait), "returned"
          dlOut,      \* the messages sent, in order
          dlCtl       \* control messages so far; whether the rate queue was
                      \* bypassed (msg.delay) or flushed

delayVars == <<dlMode, dlAt, dlGo, dlReset, dlQueue, dlPending, dlShown,
               dlLoop, dlWorker, dlCooling, dlStop, dlOut, dlCtl>>

DelayMsg == 1 .. DelayMsgs

\* Goroutines the wait group still counts.
DelayCounted == {m \in DelayMsg : dlGo[m] \in {"waiting", "leaving", "uncounted"}}

DelayTypeOK ==
  /\ dlMode \in {"timed", "queue", "drop", "other"}
  /\ dlAt \in [DelayMsg -> {"new", "held", "queued", "taken", "sent", "discarded"}]
  /\ dlGo \in [DelayMsg -> {"none", "waiting", "leaving", "uncounted", "done"}]
  /\ dlReset \subseteq DelayMsg
  /\ dlQueue \in Seq(DelayMsg) /\ Len(dlQueue) <= DelayQueueLen
  /\ dlPending \in Int /\ dlShown \in Int
  /\ dlLoop \in [op : {"idle", "go", "push", "evict", "add", "show", "reset", "flush"},
                 msg : DelayMsg \cup {0}]
  /\ dlWorker \in [op : {"none", "idle", "sending", "counting", "showing", "gone"},
                   msg : DelayMsg \cup {0}]
  /\ dlCooling \in BOOLEAN
  /\ dlStop \in {"running", "waiting", "returned"}
  /\ dlOut \in Seq(DelayMsg)
  /\ dlCtl \in [count : 0 .. DelayControls, bypassed : BOOLEAN]

DelayIdle == [op |-> "idle", msg |-> 0]

(***************************************************************************)
(* Init and Start: the worker exists only for the queue behaviour with a   *)
(* positive rate; with rate 0 the queue is filled and never emptied.       *)
(***************************************************************************)
DelayInit ==
  /\ dlMode \in {"timed", "queue", "drop", "other"}
  /\ dlWorker \in [op : IF dlMode = "queue" THEN {"idle", "none"} ELSE {"none"}, msg : {0}]
  /\ dlAt = [m \in DelayMsg |-> "new"]
  /\ dlGo = [m \in DelayMsg |-> "none"]
  /\ dlReset = {}
  /\ dlQueue = <<>>
  /\ dlPending = 0 /\ dlShown = 0
  /\ dlLoop = DelayIdle
  /\ dlCooling = FALSE
  /\ dlStop = "running"
  /\ dlOut = <<>>
  /\ dlCtl = [count |-> 0, bypassed |-> FALSE]

DelaySend(m) ==
  /\ dlOut' = Append(dlOut, m)
  /\ dlAt' = [dlAt EXCEPT ![m] = "sent"]

DelayNextMsg(m) ==
  /\ dlLoop = DelayIdle
  /\ dlAt[m] = "new"
  /\ \A k \in DelayMsg : k < m => dlAt[k] # "new"

(***************************************************************************)
(* scheduleAfter: the signals are captured, the message is counted, the    *)
(* status shown and the goroutine started.  A duration of zero or less     *)
(* sends at once.                                                          *)
(***************************************************************************)
DelayScheduleAfter(m) ==
  \/ /\ DelaySend(m)
     /\ UNCHANGED <<dlPending, dlLoop>>
  \/ /\ dlAt' = [dlAt EXCEPT ![m] = "held"]
     /\ dlPending' = dlPending + 1
     /\ dlLoop' = [op |-> "go", msg |-> m]
     /\ UNCHANGED dlOut

\* Mode "delay" or "random", or msg.delay in any mode.
DelayHandleTimed(m) ==
  /\ DelayNextMsg(m)
  /\ DelayScheduleAfter(m)
  /\ dlCtl' = [dlCtl EXCEPT !.bypassed = TRUE]
  /\ UNCHANGED <<dlMode, dlGo, dlReset, dlQueue, dlShown, dlWorker, dlCooling, dlStop>>

DelayGo ==
  /\ dlLoop.op = "go"
  /\ dlShown' = dlPending
  /\ dlGo' = [dlGo EXCEPT ![dlLoop.msg] = "waiting"]
  /\ dlLoop' = DelayIdle
  /\ UNCHANGED <<dlMode, dlAt, dlReset, dlQueue, dlPending, dlWorker, dlCooling, dlStop, dlOut, dlCtl>>

\* The select of the goroutine: any ready case may win.
DelayWake(m) ==
  /\ dlGo[m] = "waiting"
  /\ \/ DelaySend(m)                                     \* timer or flushCh
     \/ /\ m \in dlReset \/ dlStop # "running"   \* resetCh or done
        /\ dlAt' = [dlAt EXCEPT ![m] = "discarded"]
        /\ UNCHANGED dlOut
  /\ dlGo' = [dlGo EXCEPT ![m] = "leaving"]
  /\ UNCHANGED <<dlMode, dlReset, dlQueue, dlPending, dlShown, dlLoop, dlWorker, dlCooling, dlStop, dlCtl>>

\* The deferred pending.Add(-1), and then updateStatus and wg.Done.
DelayUncount(m) ==
  /\ dlGo[m] = "leaving"
  /\ dlPending' = dlPending - 1
  /\ dlGo' = [dlGo EXCEPT ![m] = "uncounted"]
  /\ UNCHANGED <<dlMode, dlAt, dlReset, dlQueue, dlShown, dlLoop, dlWorker, dlCooling, dlStop, dlOut, dlCtl>>

DelayExit(m) ==
  /\ dlGo[m] = "uncounted"
  /\ dlShown' = dlPending
  /\ dlGo' = [dlGo EXCEPT ![m] = "done"]
  /\ UNCHANGED <<dlMode, dlAt, dlReset, dlQueue, dlPending, dlLoop, dlWorker, dlCooling, dlStop, dlOut, dlCtl>>

(***************************************************************************)
(* Rate mode, drop behaviour, and an unknown mode: no goroutine.           *)
(***************************************************************************)
DelayHandleDrop(m) ==
  /\ dlMode = "drop"
  /\ DelayNextMsg(m)
  /\ IF dlCooling
     THEN /\ dlAt' = [dlAt EXCEPT ![m] = "discarded"]
          /\ UNCHANGED <<dlOut, dlCooling>>
     ELSE /\ DelaySend(m)
          /\ dlCooling' \in {TRUE, FALSE}   \* FALSE: no rate is configured
  /\ UNCHANGED <<dlMode, dlGo, dlReset, dlQueue, dlPending, dlShown, dlLoop, dlWorker, dlStop, dlCtl>>

DelayCooled ==
  /\ dlCooling
  /\ dlCooling' = FALSE
  /\ UNCHANGED <<dlMode, dlAt, dlGo, dlReset, dlQueue, dlPending, dlShown, dlLoop, dlWorker, dlStop, dlOut, dlCtl>>

DelayHandleOther(m) ==
  /\ dlMode = "other"
  /\ DelayNextMsg(m)
  /\ DelaySend(m)
  /\ UNCHANGED <<dlMode, dlGo, dlReset, dlQueue, dlPending, dlShown, dlLoop, dlWorker, dlCooling, dlStop, dlCtl>>

(***************************************************************************)
(* Rate mode, queue behaviour: the message is pushed, the oldest one is    *)
(* evicted when there is no room, the counter follows the channel.         *)
(***************************************************************************)
DelayHandleQueue(m) ==
  /\ dlMode = "queue"
  /\ DelayNextMsg(m)
  /\ dlLoop' = [op |-> IF Len(dlQueue) < DelayQueueLen THEN "push" ELSE "evict", msg |-> m]
  /\ dlAt' = [dlAt EXCEPT ![m] = "taken"]
  /\ UNCHANGED <<dlMode, dlGo, dlReset, dlQueue, dlPending, dlShown, dlWorker, dlCooling, dlStop, dlOut, dlCtl>>

\* Mutant: the evicted message stays counted.
DelayEvictUncounted ==
  /\ dlLoop.op = "evict"
  /\ dlQueue' = IF dlQueue = <<>> THEN dlQueue ELSE Tail(dlQueue)
  /\ dlAt' = IF dlQueue = <<>> THEN dlAt ELSE [dlAt EXCEPT ![Head(dlQueue)] = "discarded"]
  /\ dlLoop' = [dlLoop EXCEPT !.op = "push"]
  /\ UNCHANGED <<dlMode, dlGo, dlReset, dlPending, dlShown, dlWorker, dlCooling, dlStop, dlOut, dlCtl>>

DelayEvict ==
  /\ dlLoop.op = "evict"
  /\ IF dlQueue = <<>>
     THEN UNCHANGED <<dlQueue, dlAt, dlPending>>
     ELSE /\ dlQueue' = Tail(dlQueue)
          /\ dlAt' = [dlAt EXCEPT ![Head(dlQueue)] = "discarded"]
          /\ dlPending' = dlPending - 1
  /\ dlLoop' = [dlLoop EXCEPT !.op = "push"]
  /\ UNCHANGED <<dlMode, dlGo, dlReset, dlShown, dlWorker, dlCooling, dlStop, dlOut, dlCtl>>

DelayPush ==
  /\ dlLoop.op = "push"
  /\ IF Len(dlQueue) < DelayQueueLen
     THEN /\ dlQueue' = Append(dlQueue, dlLoop.msg)
          /\ dlAt' = [dlAt EXCEPT ![dlLoop.msg] = "queued"]
          /\ dlLoop' = [dlLoop EXCEPT !.op = "add"]
     ELSE /\ dlAt' = [dlAt EXCEPT ![dlLoop.msg] = "discarded"]
          /\ dlLoop' = [dlLoop EXCEPT !.op = "show"]
          /\ UNCHANGED dlQueue
  /\ UNCHANGED <<dlMode, dlGo, dlReset, dlPending, dlShown, dlWorker, dlCooling, dlStop, dlOut, dlCtl>>

DelayAdd ==
  /\ dlLoop.op = "add"
  /\ dlPending' = dlPending + 1
  /\ dlLoop' = [dlLoop EXCEPT !.op = "show"]
  /\ UNCHANGED <<dlMode, dlAt, dlGo, dlReset, dlQueue, dlShown, dlWorker, dlCooling, dlStop, dlOut, dlCtl>>

DelayShow ==
  /\ dlLoop.op = "show"
  /\ dlShown' = dlPending
  /\ dlLoop' = DelayIdle
  /\ UNCHANGED <<dlMode, dlAt, dlGo, dlReset, dlQueue, dlPending, dlWorker, dlCooling, dlStop, dlOut, dlCtl>>

\* One tick of rateWorker: take, send, count, show.
DelayWorkerTick ==
  /\ dlWorker.op = "idle"
  /\ dlQueue # <<>>
  /\ dlQueue' = Tail(dlQueue)
  /\ dlAt' = [dlAt EXCEPT ![Head(dlQueue)] = "taken"]
  /\ dlWorker' = [op |-> "sending", msg |-> Head(dlQueue)]
  /\ UNCHANGED <<dlMode, dlGo, dlReset, dlPending, dlShown, dlLoop, dlCooling, dlStop, dlOut, dlCtl>>

DelayWorkerSend ==
  /\ dlWorker.op = "sending"
  /\ DelaySend(dlWorker.msg)
  /\ dlWorker' = [op |-> "counting", msg |-> 0]
  /\ UNCHANGED <<dlMode, dlGo, dlReset, dlQueue, dlPending, dlShown, dlLoop, dlCooling, dlStop, dlCtl>>

DelayWorkerCount ==
  /\ \/ /\ dlWorker.op = "counting"
        /\ dlPending' = dlPending - 1
        /\ dlWorker' = [op |-> "showing", msg |-> 0]
        /\ UNCHANGED dlShown
     \/ /\ dlWorker.op = "showing"
        /\ dlShown' = dlPending
        /\ dlWorker' = DelayIdle
        /\ UNCHANGED dlPending
  /\ UNCHANGED <<dlMode, dlAt, dlGo, dlReset, dlQueue, dlLoop, dlCooling, dlStop, dlOut, dlCtl>>

\* Mutant: the worker looks at done only when the queue is empty.
DelayWorkerDrains ==
  /\ dlWorker.op = "idle" /\ dlStop # "running" /\ dlQueue = <<>>
  /\ dlWorker' = [op |-> "gone", msg |-> 0]
  /\ UNCHANGED <<dlMode, dlAt, dlGo, dlReset, dlQueue, dlPending, dlShown, dlLoop, dlCooling, dlStop, dlOut, dlCtl>>

DelayWorkerDone ==
  /\ dlWorker.op = "idle" /\ dlStop # "running"
  /\ dlWorker' = [op |-> "gone", msg |-> 0]
  /\ UNCHANGED <<dlMode, dlAt, dlGo, dlReset, dlQueue, dlPending, dlShown, dlLoop, dlCooling, dlStop, dlOut, dlCtl>>

(***************************************************************************)
(* resetPending and flushPending: the current signal is swapped and        *)
(* closed, then the queue, if there is one, is emptied.  (A closed         *)
(* flushSignal lets the goroutine send, as a due timer does.)              *)
(***************************************************************************)
DelayControl(kind) ==
  /\ dlLoop = DelayIdle
  /\ dlCtl.count < DelayControls
  /\ dlCtl' = [count |-> dlCtl.count + 1, bypassed |-> dlCtl.bypassed \/ kind = "flush"]
  /\ dlReset' = IF kind = "reset" THEN dlReset \cup {m \in DelayMsg : dlGo[m] = "waiting"}
                                  ELSE dlReset
  /\ dlLoop' = IF dlMode = "queue" THEN [op |-> kind, msg |-> 0] ELSE DelayIdle
  /\ UNCHANGED <<dlMode, dlAt, dlGo, dlQueue, dlPending, dlShown, dlWorker, dlCooling, dlStop, dlOut>>

DelayDrain ==
  /\ dlLoop.op \in {"reset", "flush"}
  /\ IF dlQueue = <<>>
     THEN /\ dlLoop' = DelayIdle
          /\ dlShown' = dlPending
          /\ UNCHANGED <<dlQueue, dlAt, dlOut, dlPending>>
     ELSE /\ dlQueue' = Tail(dlQueue)
          /\ dlPending' = dlPending - 1
          /\ IF dlLoop.op = "flush"
             THEN DelaySend(Head(dlQueue))
             ELSE dlAt' = [dlAt EXCEPT ![Head(dlQueue)] = "discarded"] /\ UNCHANGED dlOut
          /\ UNCHANGED <<dlLoop, dlShown>>
  /\ UNCHANGED <<dlMode, dlGo, dlReset, dlWorker, dlCooling, dlStop, dlCtl>>

\* Stop: close(done), then wg.Wait.
DelayStop ==
  /\ dlStop = "running"
  /\ dlStop' = "waiting"
  /\ UNCHANGED <<dlMode, dlAt, dlGo, dlReset, dlQueue, dlPending, dlShown, dlLoop, dlWorker, dlCooling, dlOut, dlCtl>>

DelayStopped ==
  /\ dlStop = "waiting"
  /\ DelayCounted = {} /\ dlWorker.op \in {"none", "gone"}
  /\ dlStop' = "returned"
  /\ UNCHANGED <<dlMode, dlAt, dlGo, dlReset, dlQueue, dlPending, dlShown, dlLoop, dlWorker, dlCooling, dlOut, dlCtl>>

\* The steps every goroutine takes unless it is starved.
DelayProgress ==
  \/ DelayGo \/ DelayEvict \/ DelayPush \/ DelayAdd \/ DelayShow \/ DelayDrain
  \/ \E m \in DelayMsg : DelayWake(m) \/ DelayUncount(m) \/ DelayExit(m)
  \/ DelayWorkerSend \/ DelayWorkerCount \/ DelayWorkerDone \/ DelayStopped

DelayNext ==
  \/ \E m \in DelayMsg : \/ DelayHandleTimed(m) \/ DelayHandleDrop(m)
                         \/ DelayHandleOther(m) \/ DelayHandleQueue(m)
  \/ \E kind \in {"reset", "flush"} : DelayControl(kind)
  \/ DelayCooled \/ DelayWorkerTick \/ DelayStop
  \/ DelayProgress

\* Goroutines are scheduled; nothing is assumed of messages or of Stop.
DelaySpec == DelayInit /\ [][DelayNext]_delayVars /\ WF_delayVars(DelayProgress)

-----------------------------------------------------------------------------
\* No goroutine is between taking a message and having shown the new count.
DelayQuiet ==
  /\ dlLoop = DelayIdle
  /\ dlWorker.op \in {"none", "idle", "gone"}
  /\ \A m \in DelayMsg : dlGo[m] \in {"none", "waiting", "done"}

(***************************************************************************)
(* updateStatus (its comment): however the loop, the timers and the worker *)
(* interleave, once they have settled the editor shows the number of       *)
(* messages that really are held or queued.                                *)
(***************************************************************************)
DelayStatusSettles ==
  DelayQuiet => /\ dlShown = dlPending
                /\ dlPending = Cardinality({m \in DelayMsg : dlAt[m] \in {"held", "queued"}})

\* Every message is sent at most once, whichever of timer, flush, reset,
\* worker, eviction and Stop come together; and the rate queue keeps the
\* order of arrival unless a flush overtakes the worker or msg.delay takes a
\* message around the queue.
DelayDelivery ==
  \A i, j \in 1 .. Len(dlOut) : i < j =>
    /\ dlOut[i] # dlOut[j]
    /\ (dlMode = "queue" /\ ~dlCtl.bypassed) => dlOut[i] < dlOut[j]

\* Stop has been called and not yet returned: neither the worker nor a held
\* message may keep wg.Wait waiting.
DelayPending == dlStop = "waiting"

(***************************************************************************)
(* The delay node: the count in the editor settles on the truth, and no    *)
(* message is sent twice or out of order.                                  *)
(***************************************************************************)
DelaySound == DelayStatusSettles /\ DelayDelivery
=============================================================================
