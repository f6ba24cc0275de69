----------------------------- MODULE FileWatch -----------------------------
(***************************************************************************)
(* The file-watch node (internal/nodes/filesystem/file_watch.go) in its    *)
(* incremental forms: a watcher (external) reports that something happened *)
(* in the folder, the loop waits out a burst of reports, scans the folder, *)
(* compares the modification times with the map kept in the persistent     *)
(* context (cursor.go), sends the differences and stores the new map.      *)
(* Files change at any moment, the process may die at any moment, a scan   *)
(* or the store may fail.  In mode "read" a message makes one such scan    *)
(* instead.                                                                *)
(***************************************************************************)
EXTENDS Integers, Sequences, FiniteSets

CONSTANTS FwFiles,    \* files the folder may hold
          FwTimes,    \* the modification times files get, in the order of time
          FwModes,    \* "read", "read+watch" (watch with incremental is the same)
          FwMasks,    \* sets of watchEvents a node may be configured with
          FwReads,    \* bound: messages in mode "read"
          FwCrashes,  \* bound: crashes
          FwFaults    \* bound: scans and accesses to the store that fail

\* A time is given by the digits of its fraction.
ASSUME FwAssumption == /\ FwTimes \in Seq(Seq(0 .. 9))
                       /\ FwReads \in Nat /\ FwCrashes \in Nat /\ FwFaults \in Nat

VARIABLES fwMode, fwFromStart,
          fwMask,     \* watchEvents
          fwNode,     \* "new", "baseline" (watcher added), "run", "stopping", "stopped"
          fwFolder,   \* the modification time of each file, 0 when it is not there
          fwClock,    \* changes made so far
          fwEvents,   \* whether reports wait in the watcher's channel
          fwMap,      \* the stored map, or Absent
          fwLoop,     \* what watchLoop or HandleMessage is doing
          fwTold,     \* the last modification time sent of each file, 0 for removed
          fwMissed,   \* files with a change that was not seen or not told
          fwLeft

fwVars == <<fwMode, fwFromStart, fwMask, fwNode, fwFolder, fwClock, fwEvents, fwMap, fwLoop,
            fwTold, fwMissed, fwLeft>>

FwAbsent == [f \in FwFiles |-> -1]   \* no map stored
FwIdle == [step |-> "wait", scan |-> FwAbsent]

FwTypeOK ==
  /\ fwMode \in FwModes /\ fwFromStart \in BOOLEAN /\ fwMask \in FwMasks
  /\ fwNode \in {"new", "baseline", "run", "stopping", "stopped"}
  /\ fwFolder \in [FwFiles -> 0 .. Len(FwTimes)]
  /\ fwMap \in [FwFiles -> -1 .. Len(FwTimes)]
  /\ fwEvents \in BOOLEAN
  /\ fwLoop.step \in {"wait", "coalesce", "send", "save", "ended"}
  /\ fwTold \in [FwFiles -> 0 .. Len(FwTimes)]
  /\ fwMissed \subseteq FwFiles

FwInit ==
  /\ fwMode \in FwModes /\ fwFromStart \in BOOLEAN /\ fwMask \in FwMasks
  /\ fwNode = "new" /\ fwFolder = [f \in FwFiles |-> 0] /\ fwClock = 0
  /\ fwEvents = FALSE /\ fwMap = FwAbsent /\ fwLoop = FwIdle
  /\ fwTold = [f \in FwFiles |-> 0] /\ fwMissed = {}
  /\ fwLeft = [reads |-> FwReads, crashes |-> FwCrashes, faults |-> FwFaults]

-----------------------------------------------------------------------------
(* Modification times as the code compares them: RFC 3339 text with as many *)
(* digits of the fraction as are needed, compared as text.                  *)

\* A time is its fraction's digits, none for a whole second; its text is a
\* point and the digits, if there are any, and "Z", as character codes.
FwText(t) == (IF FwTimes[t] = <<>> THEN <<>> ELSE <<46>>)
             \o [i \in DOMAIN FwTimes[t] |-> 48 + FwTimes[t][i]] \o <<90>>

FwLater(t, u) ==
  LET a == FwText(t)
      b == FwText(u)
      n == IF Len(a) < Len(b) THEN Len(a) ELSE Len(b)
  IN  \E i \in 1 .. n : /\ \A j \in 1 .. i - 1 : a[j] = b[j]
                        /\ a[i] > b[i]

-----------------------------------------------------------------------------
(* The folder (external): a file is written, or removed.  A change nobody   *)
(* watches, or of a kind that is not in watchEvents, wakes nobody up.       *)

FwChange(f) ==
  /\ fwClock < Len(FwTimes) /\ fwClock' = fwClock + 1
  /\ \E kind \in {"create", "write", "remove"} :
       /\ kind = "create" <=> fwFolder[f] = 0
       /\ fwFolder' = [fwFolder EXCEPT ![f] = IF kind = "remove" THEN 0 ELSE fwClock']
       /\ LET seen == fwNode \in {"baseline", "run"} /\ kind \in fwMask
          IN  /\ fwEvents' = (fwEvents \/ seen)
              /\ fwMissed' = IF seen THEN fwMissed ELSE fwMissed \cup {f}
  /\ UNCHANGED <<fwMode, fwFromStart, fwMask, fwNode, fwMap, fwLoop, fwTold, fwLeft>>

\* One scan, or one access to the store, fails.
FwFault == fwLeft.faults > 0 /\ fwLeft' = [fwLeft EXCEPT !.faults = @ - 1]

\* A scan has an entry for every file that matches the glob; directories are
\* in it too, and every user of a scan skips them.
scanFolder == fwFolder

-----------------------------------------------------------------------------
(* Start, Stop, a crash.                                                    *)

\* Start adds the watch before it looks at the folder.
FwStart ==
  /\ fwNode \in {"new", "stopped"}
  /\ fwNode' = IF fwMode = "read" THEN "run" ELSE "baseline"
  /\ fwLoop' = FwIdle /\ fwEvents' = FALSE
  /\ UNCHANGED <<fwMode, fwFromStart, fwMask, fwFolder, fwClock, fwMap, fwTold, fwMissed, fwLeft>>

\* Mutant: a restart always takes the folder as it is now.
FwBaselineAlways ==
  /\ fwNode = "baseline" /\ fwNode' = "run"
  /\ fwMap' = fwFolder
  /\ fwTold' = IF fwMap = FwAbsent THEN fwFolder ELSE fwTold
  /\ fwMissed' = IF fwMap = FwAbsent THEN {} ELSE fwMissed
  /\ UNCHANGED <<fwMode, fwFromStart, fwMask, fwFolder, fwClock, fwEvents, fwLoop, fwLeft>>

\* The files that neither the stored map nor the messages sent are right about.
FwWrong == {f \in FwFiles : fwFolder[f] # fwMap[f] \/ fwFolder[f] # fwTold[f]}

\* initDirCursor: a stored map is kept; otherwise it is empty or the folder.
FwBaseline ==
  /\ fwNode = "baseline" /\ fwNode' = "run"
  /\ IF fwMap # FwAbsent THEN UNCHANGED <<fwMap, fwTold, fwMissed>>
     ELSE /\ fwMap' = IF fwFromStart THEN [f \in FwFiles |-> 0] ELSE scanFolder
          /\ fwTold' = fwMap'
          /\ fwMissed' = IF fwFromStart THEN {f \in FwFiles : fwFolder[f] # 0} ELSE {}
  /\ UNCHANGED <<fwMode, fwFromStart, fwMask, fwFolder, fwClock, fwEvents, fwLoop, fwLeft>>

\* The store or the scan fails: Start closes the watcher and returns an error.
FwStartFails ==
  /\ fwNode = "baseline" /\ fwNode' = "stopped" /\ FwFault
  /\ fwMissed' = FwWrong
  /\ UNCHANGED <<fwMode, fwFromStart, fwMask, fwFolder, fwClock, fwEvents, fwMap, fwLoop, fwTold>>

\* Stop closes done and the watcher and waits for the loop.
FwStop ==
  /\ fwNode = "run" /\ fwNode' = IF fwMode = "read" THEN "stopped" ELSE "stopping"
  /\ fwMode = "read" => fwLoop.step = "wait"
  /\ UNCHANGED <<fwMode, fwFromStart, fwMask, fwFolder, fwClock, fwEvents, fwMap, fwLoop, fwTold,
                 fwMissed, fwLeft>>

FwStopped ==
  /\ fwNode = "stopping" /\ fwLoop.step = "ended" /\ fwNode' = "stopped"
  /\ fwMissed' = FwWrong
  /\ UNCHANGED <<fwMode, fwFromStart, fwMask, fwFolder, fwClock, fwEvents, fwMap, fwLoop, fwTold, fwLeft>>

FwCrash ==
  /\ fwLeft.crashes > 0 /\ fwNode \in {"run", "baseline"}
  /\ fwLeft' = [fwLeft EXCEPT !.crashes = @ - 1]
  /\ fwNode' = "stopped" /\ fwLoop' = FwIdle
  /\ fwMissed' = FwWrong
  /\ UNCHANGED <<fwMode, fwFromStart, fwMask, fwFolder, fwClock, fwEvents, fwMap, fwTold>>

-----------------------------------------------------------------------------
(* watchLoop: waitForEvent, coalesce, handleWatchTick.                      *)

FwLoops == fwMode # "read" /\ fwNode \in {"run", "stopping"}

FwWait ==
  /\ FwLoops /\ fwLoop.step = "wait"
  /\ \/ /\ fwEvents /\ fwEvents' = FALSE
        /\ fwLoop' = [fwLoop EXCEPT !.step = "coalesce"]
     \/ /\ fwNode = "stopping" /\ fwLoop' = [fwLoop EXCEPT !.step = "ended"]
        /\ UNCHANGED fwEvents
  /\ UNCHANGED <<fwMode, fwFromStart, fwMask, fwNode, fwFolder, fwClock, fwMap, fwTold, fwMissed, fwLeft>>

\* Mutant: the folder is scanned before the events are drained.
FwScanThenDrain ==
  /\ FwLoops /\ fwLoop.step = "coalesce"
  /\ fwEvents' = FALSE
  /\ \E scan \in {fwFolder, fwMap} : fwLoop' = [step |-> "send", scan |-> scan]
  /\ UNCHANGED <<fwMode, fwFromStart, fwMask, fwNode, fwFolder, fwClock, fwMap, fwTold, fwMissed, fwLeft>>

\* coalesce throws away what comes until the deadline; then scanFolder.
FwScan ==
  /\ FwLoops /\ fwLoop.step = "coalesce"
  /\ fwEvents' \in {FALSE, fwEvents}
  /\ fwLoop' = [step |-> "send", scan |-> scanFolder]
  /\ UNCHANGED <<fwMode, fwFromStart, fwMask, fwNode, fwFolder, fwClock, fwMap, fwTold,
                 fwMissed, fwLeft>>

\* scanFolder fails, and what was thrown away is not looked at again.  The path
\* itself takes the place of the entries if it can be stat'ed: of a folder, a
\* directory, which is skipped, so that every file is gone.  Otherwise the tick
\* is over.
FwScanFails ==
  /\ FwLoops /\ fwLoop.step = "coalesce" /\ FwFault
  /\ fwEvents' \in {FALSE, fwEvents}
  /\ \/ /\ fwLoop' = [step |-> "send", scan |-> [f \in FwFiles |-> 0]]
        /\ fwMissed' = fwMissed \cup {f \in FwFiles : fwFolder[f] # 0}
     \/ /\ fwLoop' = FwIdle
        /\ fwMissed' = fwMissed \cup FwWrong
  /\ UNCHANGED <<fwMode, fwFromStart, fwMask, fwNode, fwFolder, fwClock, fwMap, fwTold>>

\* Mutant: a write to a file of the map is no difference.
FwDiffPresence(scan, map) ==
  {f \in FwFiles : \/ scan[f] > 0 /\ map[f] <= 0
                   \/ scan[f] = 0 /\ map[f] > 0 /\ "remove" \in fwMask}

\* What differs from the stored map and is told: new files, later times, and
\* files gone, these only with "remove" among watchEvents.
FwDiff(scan, map) ==
  {f \in FwFiles : \/ scan[f] > 0 /\ map[f] <= 0
                   \/ scan[f] > 0 /\ map[f] > 0 /\ FwLater(scan[f], map[f])
                   \/ scan[f] = 0 /\ map[f] > 0 /\ "remove" \in fwMask}

\* What a scan sees and nobody is told: a removal without "remove" among
\* watchEvents, and a write whose time has a text that is not later.
FwUntold(scan, map) ==
  {f \in FwFiles : \/ scan[f] = 0 /\ map[f] > 0 /\ "remove" \notin fwMask
                   \/ /\ scan[f] > 0 /\ map[f] > 0 /\ scan[f] # map[f]
                      /\ ~FwLater(scan[f], map[f])}

\* dispatchWatchIncremental loads the map and sends the differences ...
FwSend ==
  /\ FwLoops /\ fwLoop.step = "send"
  /\ fwTold' = [f \in FwFiles |-> IF f \in FwDiff(fwLoop.scan, fwMap) THEN fwLoop.scan[f]
                                  ELSE fwTold[f]]
  /\ fwMissed' = fwMissed \cup FwUntold(fwLoop.scan, fwMap)
  /\ fwLoop' = [fwLoop EXCEPT !.step = "save"]
  /\ UNCHANGED <<fwMode, fwFromStart, fwMask, fwNode, fwFolder, fwClock, fwEvents, fwMap, fwLeft>>

\* ... (or fails to load it, and the tick is over) ...
FwLoadFails ==
  /\ FwLoops /\ fwLoop.step = "send" /\ FwFault
  /\ fwMissed' = fwMissed \cup FwWrong
  /\ fwLoop' = FwIdle
  /\ UNCHANGED <<fwMode, fwFromStart, fwMask, fwNode, fwFolder, fwClock, fwEvents, fwMap, fwTold>>

\* ... and then stores the map of this scan.
FwSave ==
  /\ FwLoops /\ fwLoop.step = "save"
  /\ fwMap' = fwLoop.scan
  /\ fwMissed' = {f \in fwMissed : fwFolder[f] # fwLoop.scan[f] \/ fwFolder[f] # fwTold[f]}
  /\ fwLoop' = FwIdle
  /\ UNCHANGED <<fwMode, fwFromStart, fwMask, fwNode, fwFolder, fwClock, fwEvents, fwTold, fwLeft>>

\* The error of saveDirCursor is dropped: the next scan tells the same again.
FwSaveFails ==
  /\ FwLoops /\ fwLoop.step = "save" /\ FwFault
  /\ fwMissed' = fwMissed \cup {f \in FwFiles : fwMap[f] # fwLoop.scan[f]}
  /\ fwLoop' = FwIdle
  /\ UNCHANGED <<fwMode, fwFromStart, fwMask, fwNode, fwFolder, fwClock, fwEvents, fwMap, fwTold>>

\* filterIncremental: the new files and the ones with a later time, never a
\* file that is gone.
filterIncremental == {f \in FwDiff(scanFolder, fwMap) : scanFolder[f] > 0}

\* buildEmissions: the first access is silent unless fromStart is set.
FwSilent == fwMap = FwAbsent /\ ~fwFromStart

\* HandleMessage in mode "read": the map is stored before anything is sent.  If
\* the scan or the store fails, nothing is; resetCursor deletes the map.
FwHandleMessage ==
  /\ fwMode = "read" /\ fwNode = "run" /\ fwLeft.reads > 0
  /\ \/ /\ fwLeft' = [fwLeft EXCEPT !.reads = @ - 1]
        /\ fwMap' = scanFolder
        /\ fwTold' = IF FwSilent THEN scanFolder
                     ELSE [f \in FwFiles |-> IF f \in filterIncremental THEN scanFolder[f]
                                            ELSE fwTold[f]]
        /\ fwMissed' = {}
     \/ /\ fwLeft' = [fwLeft EXCEPT !.reads = @ - 1]
        /\ fwMap' = FwAbsent
        /\ UNCHANGED <<fwTold, fwMissed>>
     \/ FwFault /\ UNCHANGED <<fwMap, fwTold, fwMissed>>
  /\ UNCHANGED <<fwMode, fwFromStart, fwMask, fwNode, fwFolder, fwClock, fwEvents, fwLoop>>

-----------------------------------------------------------------------------
FwProgress == FwBaseline \/ FwStopped \/ FwWait \/ FwScan \/ FwSend \/ FwSave
FwFailure == FwStartFails \/ FwScanFails \/ FwLoadFails \/ FwSaveFails

FwNext ==
  \/ \E f \in FwFiles : FwChange(f)
  \/ FwStart \/ FwStop \/ FwCrash \/ FwHandleMessage \/ FwProgress \/ FwFailure

\* The loop's goroutine runs; a burst of reports ends.
FwSpec == FwInit /\ [][FwNext]_fwVars /\ WF_fwVars(FwProgress)

FwTellsNow == fwNode = "run" /\ fwMode # "read"

(***************************************************************************)
(* A change of the folder of a running node that has not been told yet: it *)
(* must be, whatever the loop is at and however the reports of it are      *)
(* thrown away with a burst ("each fsnotify event triggers a re-scan and   *)
(* only entries whose modTime advanced since the last scan are emitted",   *)
(* file_watch.go), unless the node stops or the file is one of fwMissed.   *)
(***************************************************************************)
FwPending == FwTellsNow /\ \E f \in FwFiles \ fwMissed : fwTold[f] # fwFolder[f]

(***************************************************************************)
(* When the node is at rest the stored map and the last message of a file  *)
(* are the folder's state of it, so that nothing that happened is pending, *)
(* however reports are coalesced and files change during a scan.  The ways *)
(* a change is missed are the ones that put a file into fwMissed, and no   *)
(* other: it happened while nobody watched or is not among watchEvents, a  *)
(* scan or an access to the store failed, or the text of its time is not   *)
(* later than that of the time before.                                     *)
(***************************************************************************)
FwMapCurrent ==
  (FwTellsNow /\ fwLoop.step = "wait" /\ ~fwEvents) =>
    \A f \in FwFiles \ fwMissed : fwMap[f] = fwFolder[f] /\ fwTold[f] = fwFolder[f]

(***************************************************************************)
(* What is sent is what happened: a removal is told only of a file that is *)
(* gone (or whose return is reported), and a change that a scan finds is   *)
(* told before the map has it.  Both refuted: by a failed scan, which      *)
(* tells that every file was removed, and by times compared as text.       *)
(***************************************************************************)
FwRemovalsTrue ==
  [][\A f \in FwFiles : fwLoop.step = "send" /\ fwTold[f] # 0 /\ fwTold'[f] = 0 =>
        fwFolder[f] = 0 \/ fwEvents]_fwVars
FwFindsTold ==
  [][\A f \in FwFiles : fwLoop.step = "save" /\ fwMap'[f] # fwMap[f] =>
        fwTold[f] = fwMap'[f]]_fwVars
=============================================================================
