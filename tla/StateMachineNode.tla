-------------------------- MODULE StateMachineNode --------------------------
(***************************************************************************)
(* The state machine node (internal/nodes/core/statemachine.go) and its    *)
(* engine (statemachine_engine.go).  HandleMessage, the after-timers and   *)
(* the inspector take the mutex for their whole body and are one step      *)
(* each; Start and the last part of Stop run without it.  A timer that has *)
(* expired waits for the mutex and can no longer be cancelled.             *)
(*                                                                         *)
(* A machine definition is data: SmOn and SmAfter give, for a state and an *)
(* event or delay, the sequence of candidates parseTransitions yields.     *)
(* What a guard answers is up to its script: both answers are possible.    *)
(* The machine's context and the action messages are not modelled.         *)
(***************************************************************************)
EXTENDS Naturals, Sequences, FiniteSets

CONSTANTS SmStates, SmEvents, SmDelays, SmInitial,
          SmOn,        \* [SmStates -> [SmEvents -> Seq of candidates]]
          SmAfter,     \* [SmStates -> [SmDelays -> Seq of candidates]]
          SmBadDelays, \* the delays ParseDelayMs rejects
          SmGone,      \* a persisted state the definition no longer has
          SmHistCap,   \* stateMachineHistoryCap
          SmMsgs,      \* bound: messages handled
          SmLate       \* bound: expired timers of one delay waiting for the mutex

NoState == "none"
\* A candidate: [target, guarded]; <<>> where the state has no such entry.
SmCandidates == Seq([target : SmStates, guarded : BOOLEAN])

ASSUME SmAssumption ==
  /\ SmInitial \in SmStates /\ SmGone \notin SmStates /\ NoState \notin SmStates
  /\ SmOn \in [SmStates -> [SmEvents -> SmCandidates]]
  /\ SmAfter \in [SmStates -> [SmDelays -> SmCandidates]]
  /\ SmBadDelays \subseteq SmDelays /\ SmHistCap \in Nat \ {0}
  /\ SmMsgs \in Nat /\ SmLate \in Nat

VARIABLES smPhase,    \* "new", "arming" (Start arms timers), "running",
                      \* "stopping" (done closed), "cancelled", "stopped"
          smCur,      \* engine.current
          smArming,   \* delays Start has still to arm
          smTimers,   \* n.timers: per delay "none", "armed" or "expired"
          smLoose,    \* armed timers no longer in n.timers
          smWaiting,  \* expired timers that passed the done check, per delay
          smPersist,  \* persist: "off", "on", or "failing" (flowPers.Set errors)
          smStored,   \* the state kept by flowPers
          smShown,    \* the state of the last Status call
          smHistory,  \* the transitions recorded
          smCount,    \* messages handled
          smPanicked  \* a script was entered after its runtime was released

smVars == <<smPhase, smCur, smArming, smTimers, smLoose, smWaiting, smPersist,
            smStored, smShown, smHistory, smCount, smPanicked>>

SmTypeOK ==
  /\ smPhase \in {"new", "arming", "running", "stopping", "cancelled", "stopped"}
  /\ smCur \in SmStates
  /\ smArming \subseteq SmDelays
  /\ smTimers \in [SmDelays -> {"none", "armed", "expired"}]
  /\ smLoose \in [SmDelays -> 0 .. 1] /\ smWaiting \in [SmDelays -> 0 .. SmLate]
  /\ smPersist \in {"off", "on", "failing"} /\ smPanicked \in BOOLEAN
  /\ smStored \in SmStates \cup {NoState, SmGone}
  /\ smShown \in SmStates \cup {NoState}
  /\ smHistory \in Seq([from : SmStates, to : SmStates]) /\ Len(smHistory) <= SmHistCap
  /\ smCount \in 0 .. SmMsgs

SmInit ==
  /\ smPhase = "new" /\ smCur = SmInitial
  /\ smArming = {}
  /\ smTimers = [d \in SmDelays |-> "none"]
  /\ smLoose = [d \in SmDelays |-> 0] /\ smWaiting = [d \in SmDelays |-> 0]
  /\ smPersist \in {"off", "on", "failing"}
  /\ smStored \in SmStates \cup {NoState, SmGone}
  /\ smShown = NoState /\ smHistory = <<>> /\ smCount = 0
  /\ smPanicked = FALSE

\* ActiveDelays, without the ones startDelayTimers cannot parse.
ActiveDelays(s) == {d \in SmDelays \ SmBadDelays : SmAfter[s][d] # <<>>}

\* The candidates that may be taken: every unguarded one ends the search,
\* a guarded one is taken or passed over.
Eligible(cands) ==
  {i \in 1 .. Len(cands) : \A j \in 1 .. i - 1 : cands[j].guarded}
AllBlocked(cands) == \A i \in 1 .. Len(cands) : cands[i].guarded

-----------------------------------------------------------------------------
\* Start: restoreState keeps a persisted state only if it still exists.
SmStart ==
  /\ smPhase = "new"
  /\ smPhase' = "arming"
  /\ smCur' = IF smPersist # "off" /\ smStored \in SmStates THEN smStored ELSE SmInitial
  /\ smShown' = smCur'
  /\ smArming' = ActiveDelays(smCur')
  /\ UNCHANGED <<smTimers, smLoose, smWaiting, smPersist, smStored, smHistory, smCount, smPanicked>>

\* Start arms its timers one by one and without the mutex: one that has
\* already expired may change the state and fill n.timers meanwhile.
SmArm ==
  /\ smPhase = "arming"
  /\ \/ \E d \in smArming :
          /\ smTimers' = [smTimers EXCEPT ![d] = "armed"]
          /\ smLoose' = [smLoose EXCEPT ![d] = IF smTimers[d] = "armed" THEN @ + 1 ELSE @]
          /\ smArming' = smArming \ {d}
          /\ UNCHANGED smPhase
     \/ /\ smArming = {}
        /\ smPhase' = "running"
        /\ UNCHANGED <<smTimers, smLoose, smArming>>
  /\ UNCHANGED <<smCur, smWaiting, smPersist, smStored, smShown, smHistory, smCount, smPanicked>>

\* The AfterFunc runs: it gives up if done is closed.
SmExpire(d) ==
  /\ smWaiting[d] < SmLate
  /\ \/ /\ smTimers[d] = "armed"
        /\ smTimers' = [smTimers EXCEPT ![d] = "expired"]
        /\ UNCHANGED smLoose
     \/ /\ smLoose[d] > 0
        /\ smLoose' = [smLoose EXCEPT ![d] = @ - 1]
        /\ UNCHANGED smTimers
  /\ smWaiting' = [smWaiting EXCEPT ![d] =
                     IF smPhase \in {"stopping", "cancelled", "stopped"} THEN @ ELSE @ + 1]
  /\ UNCHANGED <<smPhase, smCur, smArming, smPersist, smStored, smShown, smHistory, smCount, smPanicked>>

\* cancelDelayTimers and startDelayTimers for state s.
SmRearm(s) == smTimers' = [d \in SmDelays |-> IF d \in ActiveDelays(s) THEN "armed" ELSE "none"]

\* Mutant: the history is never shortened.
SmRecordUncapped(from, to) == smHistory' = Append(smHistory, [from |-> from, to |-> to])

SmRecord(from, to) ==
  smHistory' = Append(IF Len(smHistory) >= SmHistCap THEN Tail(smHistory) ELSE smHistory,
                      [from |-> from, to |-> to])

\* Mutant: the new state is not persisted.
SmChangeUnsaved(to) ==
  /\ smCur' = to
  /\ SmRearm(to)
  /\ smShown' = to
  /\ SmRecord(smCur, to)
  /\ UNCHANGED smStored

\* executeTransition to another state, and what its callers do after it:
\* timers, status, persistState (an error is only logged) and history.
SmChange(to) ==
  /\ smCur' = to
  /\ SmRearm(to)
  /\ smShown' = to
  /\ smStored' = IF smPersist = "on" THEN to ELSE smStored
  /\ SmRecord(smCur, to)

SmSame == UNCHANGED <<smCur, smTimers, smShown, smStored, smHistory>>

\* Taking one of the candidates.  A script entered when vm is nil panics.
SmTake(cands) ==
  LET scripted(n) == \E j \in 1 .. n : cands[j].guarded
  IN \/ \E i \in Eligible(cands) :
          /\ IF cands[i].target # smCur /\ ~(smPhase = "stopped" /\ scripted(i))
             THEN SmChange(cands[i].target) ELSE SmSame
          /\ smPanicked' = (smPanicked \/ (smPhase = "stopped" /\ scripted(i)))
     \/ /\ AllBlocked(cands)
        /\ SmSame
        /\ smPanicked' = (smPanicked \/ (smPhase = "stopped" /\ cands # <<>>))

(***************************************************************************)
(* HandleMessage.  A message without topic, an event the state does not    *)
(* know and a blocked one change nothing.  The loop may hand messages over *)
(* after Stop.                                                             *)
(***************************************************************************)
SmHandleMessage(ev) ==
  /\ smPhase \notin {"new", "arming"} /\ smCount < SmMsgs /\ ~smPanicked
  /\ smCount' = smCount + 1
  /\ SmTake(SmOn[smCur][ev])
  /\ UNCHANGED <<smPhase, smArming, smLoose, smWaiting, smPersist>>

\* handleAfterTimer: SendAfter looks the delay up in the state current now.
SmHandleAfterTimer(d) ==
  /\ smWaiting[d] > 0 /\ ~smPanicked
  /\ smWaiting' = [smWaiting EXCEPT ![d] = @ - 1]
  /\ SmTake(SmAfter[smCur][d])
  /\ UNCHANGED <<smPhase, smArming, smLoose, smPersist, smCount>>

\* Stop: close(done); cancelDelayTimers under the mutex; vm = nil without it.
SmStop ==
  /\ \/ smPhase = "running" /\ smPhase' = "stopping" /\ UNCHANGED smTimers
     \/ /\ smPhase = "stopping" /\ smPhase' = "cancelled"
        /\ smTimers' = [d \in SmDelays |-> "none"]
     \/ smPhase = "cancelled" /\ smPhase' = "stopped" /\ UNCHANGED smTimers
  /\ UNCHANGED <<smCur, smArming, smLoose, smWaiting, smPersist, smStored, smShown, smHistory, smCount, smPanicked>>

SmProgress == SmArm \/ \E d \in SmDelays : SmExpire(d) \/ SmHandleAfterTimer(d)

SmNext ==
  \/ SmStart \/ SmArm \/ SmStop
  \/ \E d \in SmDelays : SmExpire(d) \/ SmHandleAfterTimer(d)
  \/ \E ev \in SmEvents : SmHandleMessage(ev)

\* Timers expire and get the mutex, and Start runs to its end.
SmSpec == SmInit /\ [][SmNext]_smVars /\ WF_smVars(SmProgress)

-----------------------------------------------------------------------------
SmAlive == smPhase \in {"arming", "running", "stopping"}

(***************************************************************************)
(* What the editor shows, what is persisted, the inspector's history and   *)
(* the current state tell the same story, whatever events, expired timers  *)
(* and Stop interleave: the history is a chain of real transitions ending  *)
(* in the current state, and a restart would come up in that state.        *)
(***************************************************************************)
SmCoherent ==
  /\ smPhase # "new" => smShown = smCur
  /\ \A i \in 1 .. Len(smHistory) :
       /\ smHistory[i].from # smHistory[i].to
       /\ smHistory[i].to = IF i = Len(smHistory) THEN smCur ELSE smHistory[i + 1].from
  /\ (smPersist = "on" /\ smHistory # <<>>) => smStored = smCur

\* Every delay of the current state has a timer running or spent since the
\* state was entered: no interleaving of Start, transitions and late timers
\* leaves a state without its timers (statemachine.go: the cancel and start
\* pairs).
SmTimersCover ==
  SmAlive => \A d \in ActiveDelays(smCur) \ smArming : smTimers[d] # "none"

\* A state whose after-transition has no guard is left, by that transition
\* or another one, unless the node is stopped.
SmAfterHappens ==
  \A s \in SmStates :
    (\E d \in ActiveDelays(s) : ~SmAfter[s][d][1].guarded /\ SmAfter[s][d][1].target # s)
    => (smPhase = "running" /\ smCur = s) ~> (smCur # s \/ smPhase # "running")

(***************************************************************************)
(* The state machine node: state, status, persisted state and history      *)
(* agree, and no state is without its timers.                              *)
(***************************************************************************)
SmSound == SmCoherent /\ SmTimersCover
=============================================================================
