----------------------------- MODULE LogBuffer -----------------------------
(***************************************************************************)
(* The ring of log entries behind the editor's log panel                   *)
(* (internal/logbuffer) and its two ways to the editor.  A goroutine that  *)
(* logs appends an entry under the buffer's lock and then, outside it,     *)
(* hands it to the WebSocket hub, which drops it when its channel is full  *)
(* and logs that.  The panel (TerminalLogPanel.vue) subscribes, asks for a *)
(* snapshot over REST, merges what arrived meanwhile and then appends what *)
(* arrives, by sequence number.  An entry is its sequence number.          *)
(***************************************************************************)
EXTENDS Naturals, Sequences

CONSTANTS LbCap,      \* capacity of the ring
          LbLoggers,  \* goroutines that log
          LbEntries   \* bound: entries logged

\* New makes a ring of at least one slot.
ASSUME LbAssumption == LbCap \in Nat \ {0} /\ LbEntries \in Nat

VARIABLES lbRing, lbHead, lbFull, lbSeq,
          lbNotify,   \* per logger: the stamped entry still to be pushed (0: none)
          lbDepth,    \* per logger: drops it is logging about, one in the other
          lbPushed,   \* entries the hub took, in order
          lbSent,     \* how many of them have reached the editor
          lbDropped,  \* entries the hub dropped
          lbMode,     \* the panel: "closed", "fetching", "merging", "streaming"
          lbAsk,      \* the limit it asked for
          lbFrom,     \* lbSent when it subscribed: what came since is its staging
          lbInitial,  \* the entries of the answer
          lbTop,      \* lastSeqFromHttp
          lbSince,    \* entries before the ones the panel is to show
          lbShown,    \* entries that have been shown since the merge
          lbLast,     \* the last row's entry (0: no row)
          lbTwice     \* whether a row was added of an entry that was shown already

lbRingVars  == <<lbRing, lbHead, lbFull, lbSeq>>
lbHubVars   == <<lbPushed, lbSent, lbDropped>>
lbFetchVars == <<lbAsk, lbFrom, lbInitial, lbTop, lbSince>>
lbRowVars   == <<lbShown, lbLast, lbTwice>>
lbVars == <<lbRingVars, lbNotify, lbDepth, lbHubVars, lbMode, lbFetchVars, lbRowVars>>

LbTypeOK ==
  /\ lbRing \in [0 .. LbCap - 1 -> 0 .. LbEntries] /\ lbHead \in 0 .. LbCap - 1
  /\ lbFull \in BOOLEAN /\ lbSeq \in 0 .. LbEntries
  /\ lbNotify \in [LbLoggers -> 0 .. LbEntries] /\ lbDepth \in [LbLoggers -> Nat]
  /\ lbPushed \in Seq(1 .. LbEntries) /\ lbSent \in 0 .. Len(lbPushed)
  /\ lbDropped \subseteq 1 .. LbEntries
  /\ lbMode \in {"closed", "fetching", "merging", "streaming"}
  /\ lbFrom \in 0 .. lbSent /\ lbInitial \subseteq 1 .. LbEntries
  /\ lbTop \in 0 .. LbEntries /\ lbSince \in 0 .. LbEntries
  /\ lbShown \subseteq 1 .. LbEntries /\ lbLast \in 0 .. LbEntries

LbInit ==
  /\ lbRing = [i \in 0 .. LbCap - 1 |-> 0] /\ lbHead = 0 /\ lbFull = FALSE /\ lbSeq = 0
  /\ lbNotify = [g \in LbLoggers |-> 0] /\ lbDepth = [g \in LbLoggers |-> 0]
  /\ lbPushed = <<>> /\ lbSent = 0 /\ lbDropped = {}
  /\ lbMode = "closed" /\ lbAsk = 1 /\ lbFrom = 0 /\ lbInitial = {} /\ lbTop = 0 /\ lbSince = 0
  /\ lbShown = {} /\ lbLast = 0 /\ lbTwice = FALSE

\* Last(n): the most recent entries, oldest first.
Last(n) ==
  LET size == IF lbFull THEN LbCap ELSE lbHead
      take == IF n > size THEN size ELSE n
      start == (lbHead + LbCap - take) % LbCap
  IN  [i \in 1 .. take |-> lbRing[(start + i - 1) % LbCap]]

-----------------------------------------------------------------------------
(* Loggers.                                                                 *)

\* Mutant: the size goes on growing when the ring is full.
AddNeverFull(g) ==
  /\ lbNotify[g] = 0 /\ lbSeq < LbEntries
  /\ lbSeq' = lbSeq + 1
  /\ lbRing' = [lbRing EXCEPT ![lbHead] = lbSeq + 1]
  /\ lbHead' = (lbHead + 1) % LbCap
  /\ lbNotify' = [lbNotify EXCEPT ![g] = lbSeq + 1]
  /\ UNCHANGED <<lbFull, lbDepth, lbHubVars, lbMode, lbFetchVars, lbRowVars>>

\* capture up to Buffer.Add, under the buffer's lock: of a record, or of the
\* hub's warning that it dropped one.
Add(g) ==
  /\ lbNotify[g] = 0 /\ lbSeq < LbEntries
  /\ lbSeq' = lbSeq + 1
  /\ lbRing' = [lbRing EXCEPT ![lbHead] = lbSeq + 1]
  /\ lbHead' = (lbHead + 1) % LbCap
  /\ lbFull' = (lbFull \/ lbHead' = 0)
  /\ lbNotify' = [lbNotify EXCEPT ![g] = lbSeq + 1]
  /\ UNCHANGED <<lbDepth, lbHubVars, lbMode, lbFetchVars, lbRowVars>>

\* The rest of capture, Hub.Broadcast: the hub takes the entry ...
Notify(g) ==
  /\ lbNotify[g] # 0
  /\ lbPushed' = Append(lbPushed, lbNotify[g])
  /\ lbNotify' = [lbNotify EXCEPT ![g] = 0]
  /\ lbDepth' = [lbDepth EXCEPT ![g] = 0]
  /\ UNCHANGED <<lbRingVars, lbSent, lbDropped, lbMode, lbFetchVars, lbRowVars>>

\* ... or, its channel (which every other event shares) being full, drops it
\* and logs a warning, which is captured in turn before this call returns.
NotifyDropped(g) ==
  /\ lbNotify[g] # 0
  /\ lbDropped' = lbDropped \cup {lbNotify[g]}
  /\ lbNotify' = [lbNotify EXCEPT ![g] = 0]
  /\ lbDepth' = [lbDepth EXCEPT ![g] = @ + 1]
  /\ UNCHANGED <<lbRingVars, lbPushed, lbSent, lbMode, lbFetchVars, lbRowVars>>

-----------------------------------------------------------------------------
(* The panel.                                                               *)

\* What open keeps while it runs, and the rows, before the first open.
PanelReset(ask, from) ==
  /\ lbAsk' = ask /\ lbFrom' = from /\ lbInitial' = {} /\ lbTop' = 0 /\ lbSince' = 0
  /\ lbShown' = {} /\ lbLast' = 0 /\ lbTwice' = FALSE

\* open: the panel subscribes and asks for n entries; an earlier answer that
\* is still on its way will be ignored.  Old rows stay on the screen until the
\* merge replaces them.
OpenPanel(n) ==
  /\ lbMode' = "fetching"
  /\ PanelReset(n, lbSent)
  /\ UNCHANGED <<lbRingVars, lbNotify, lbDepth, lbHubVars>>

\* handleGetLogs answers with Last, ...
Fetch ==
  LET last == Last(lbAsk)
  IN  /\ lbMode = "fetching" /\ lbMode' = "merging"
      /\ lbInitial' = {last[i] : i \in 1 .. Len(last)}
      /\ lbTop' = IF last = <<>> THEN 0 ELSE last[Len(last)]
      /\ lbSince' = lbSeq - Len(last)
      /\ UNCHANGED <<lbRingVars, lbNotify, lbDepth, lbHubVars, lbAsk, lbFrom, lbRowVars>>

\* ... or the request fails, and the panel begins with what comes.
FetchFails ==
  /\ lbMode = "fetching" /\ lbMode' = "merging"
  /\ lbInitial' = {} /\ lbTop' = 0 /\ lbSince' = lbSeq
  /\ UNCHANGED <<lbRingVars, lbNotify, lbDepth, lbHubVars, lbAsk, lbFrom, lbRowVars>>

\* Mutant: what was staged is forgotten when the answer comes.
LbFreshNone == {}

\* Staged entries the answer does not have, by their place in the stream.
LbFresh == {k \in lbFrom + 1 .. lbSent : lbPushed[k] > lbTop}

\* The answer becomes the rows, and the fresh entries are put behind it.
Merge ==
  /\ lbMode = "merging" /\ lbMode' = "streaming"
  /\ lbShown' = lbInitial \cup {lbPushed[k] : k \in LbFresh}
  /\ \/ LbFresh = {} /\ lbLast' = lbTop
     \/ \E k \in LbFresh : (\A j \in LbFresh : j <= k) /\ lbLast' = lbPushed[k]
  /\ lbTwice' = \E k \in LbFresh : \/ lbPushed[k] \in lbInitial
                                   \/ \E j \in LbFresh : j # k /\ lbPushed[j] = lbPushed[k]
  /\ UNCHANGED <<lbRingVars, lbNotify, lbDepth, lbHubVars, lbFetchVars>>

\* Mutant: a push is appended without a look at the last row.
DeliverBlindly ==
  /\ lbSent < Len(lbPushed) /\ lbSent' = lbSent + 1
  /\ LET e == lbPushed[lbSent + 1]
     IN  IF lbMode = "streaming"
         THEN /\ lbShown' = lbShown \cup {e} /\ lbLast' = e
              /\ lbTwice' = (lbTwice \/ e \in lbShown)
         ELSE UNCHANGED lbRowVars
  /\ UNCHANGED <<lbRingVars, lbNotify, lbDepth, lbPushed, lbDropped, lbMode, lbFetchVars>>

\* The next push reaches the editor.  A closed panel ignores it, one that waits
\* for its answer stages it, an open one appends it unless it has a number that
\* is not above the last row's (appendOne).
Deliver ==
  /\ lbSent < Len(lbPushed) /\ lbSent' = lbSent + 1
  /\ LET e == lbPushed[lbSent + 1]
     IN  IF lbMode = "streaming" /\ e > lbLast
         THEN /\ lbShown' = lbShown \cup {e} /\ lbLast' = e
              /\ lbTwice' = (lbTwice \/ e \in lbShown)
         ELSE UNCHANGED lbRowVars
  /\ UNCHANGED <<lbRingVars, lbNotify, lbDepth, lbPushed, lbDropped, lbMode, lbFetchVars>>

ClosePanel ==
  /\ lbMode # "closed" /\ lbMode' = "closed"
  /\ PanelReset(1, 0)
  /\ UNCHANGED <<lbRingVars, lbNotify, lbDepth, lbHubVars>>

LbNext ==
  \/ \E g \in LbLoggers : Add(g) \/ Notify(g) \/ NotifyDropped(g)
  \/ \E n \in 1 .. LbCap + 1 : OpenPanel(n)
  \/ Fetch \/ FetchFails \/ Merge \/ Deliver \/ ClosePanel

LbSpec == LbInit /\ [][LbNext]_lbVars

-----------------------------------------------------------------------------
\* Last returns the newest min(n, size) entries in order, for every n and
\* however often the ring has wrapped.
LbLastExact ==
  \A n \in 0 .. LbCap + 1 :
    LET got == Last(n)
        have == IF lbSeq < LbCap THEN lbSeq ELSE LbCap
    IN  /\ Len(got) = IF n < have THEN n ELSE have
        /\ \A i \in 1 .. Len(got) : got[i] = lbSeq - Len(got) + i

\* Nothing is under way: no goroutine logs, every push has arrived.
LbQuiet ==
  /\ \A g \in LbLoggers : lbNotify[g] = 0
  /\ lbSent = Len(lbPushed)

\* Entries that were handed to the hub after one with a higher number: two
\* goroutines push outside the lock under which they were numbered.
LbOvertaken ==
  {lbPushed[j] : j \in {k \in 1 .. Len(lbPushed) : \E i \in 1 .. k - 1 : lbPushed[i] > lbPushed[k]}}

\* An open panel shows no entry twice, although the snapshot and the pushes
\* overlap, and once nothing is under way it has shown every entry from its
\* snapshot on but those the hub dropped and those that were overtaken: an
\* entry appended before and pushed after the snapshot is not lost.
LbNoGap ==
  lbMode = "streaming" =>
    /\ ~lbTwice
    /\ LbQuiet => lbSince + 1 .. lbSeq \subseteq lbShown \cup lbDropped \cup LbOvertaken

(***************************************************************************)
(* The log: the ring answers with the newest entries, and an open panel    *)
(* shows each once; what it misses, the hub dropped or another overtook.   *)
(***************************************************************************)
LbSound == LbLastExact /\ LbNoGap

(***************************************************************************)
(* "Subscribe FIRST so any entry ... lands in the staging array - never    *)
(* lost" (TerminalLogPanel.vue): refuted, by the hub's drops and by        *)
(* appendOne, which takes an overtaken entry for a duplicate.              *)
(***************************************************************************)
LbNeverLost == lbMode = "streaming" /\ LbQuiet => lbSince + 1 .. lbSeq \subseteq lbShown

(***************************************************************************)
(* "Hub.Broadcast is non-blocking (drops on full channel), which keeps any *)
(* reentrant log line - e.g. the hub itself warning about a full channel - *)
(* from spinning into a hot loop" (main.go): refuted, the warning is       *)
(* pushed and dropped like any entry, and warned about in turn.            *)
(***************************************************************************)
LbDropEndsThere == \A g \in LbLoggers : lbDepth[g] <= 1
=============================================================================
