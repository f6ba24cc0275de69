------------------------------ MODULE OpcuaIo ------------------------------
(***************************************************************************)
(* opcua-read nodes and an opcua-write node (internal/nodes/opcua/read.go, *)
(* write.go) on one connection, with the caches the connection keeps for   *)
(* them: the DataType of a variable (typecache.go), and the schema of its  *)
(* structure, which must be known before a value of it is read             *)
(* (typeresolver.go).  watchState empties the caches when the session is   *)
(* lost; the server may change a DataType while nobody is connected.       *)
(***************************************************************************)
EXTENDS Naturals, Sequences, FiniteSets, SequencesExt

CONSTANTS IoReaders,  \* opcua-read nodes
          IoKind,     \* the entries messages name, and what is special about each
          IoName,     \* the name an entry is given, as the parts between its "_"
          IoLists,    \* the lists of entries messages carry
          IoShape,    \* outputShape of the readers
          IoCalls,    \* bound: reads and writes
          IoFaults    \* bound: sessions lost and requests failed

VARIABLES ioClient,   \* "open" or "closed"
          ioSession,  \* whether the library has a session
          ioReset,    \* Reconnecting was reported and watchState has not read it
          ioType,     \* the server's DataType of each variable
          ioCache,    \* typeCache: 0 for a variable it does not hold
          ioWarm,     \* prewarmed
          ioSchema,   \* variables whose structure the resolver knows
          ioWrite,    \* the write under way
          ioApplied,  \* the entries of it the server applied
          ioRead,     \* what each reader is doing
          ioPayload,  \* the last payload sent, and the entries it is for
          ioShown,    \* the status of each node
          ioStale,    \* a lookup or a prewarm crossed a reset, or failed, or met another
          ioLeft      \* what the bounds have left

ioVars == <<ioClient, ioSession, ioReset, ioType, ioCache, ioWarm, ioSchema, ioWrite,
            ioApplied, ioRead, ioPayload, ioShown, ioStale, ioLeft>>

IoIds == DOMAIN IoKind
IoParses(v) == IoKind[v] # "badId"
IoStructs == {v \in IoIds : IoKind[v] = "struct"}
IoWriteIdle == [step |-> "idle", specs |-> <<>>, at |-> 0, rows |-> <<>>, got |-> 0]
IoReadIdle == [step |-> "idle", list |-> <<>>, mine |-> {}]

\* The entries a message lists are those of IoKind; the bounds are numbers.
ASSUME IoAssumption ==
  IoLists \subseteq Seq(DOMAIN IoKind) /\ IoCalls \in Nat /\ IoFaults \in Nat

\* A list that is made by appending some of 1 .. n in turn.
IoRank(ns, i) == Cardinality({j \in ns : j <= i})
IoInOrder(ns) == [k \in 1 .. Cardinality(ns) |-> CHOOSE i \in ns : IoRank(ns, i) = k]

IoCodes == {"none", "Good", "BadConnectionClosed", "BadInvalidArgument", "BadTypeMismatch",
            "BadEncodingError", "BadCommunicationError", "BadNotWritable"}

IoTypeOK ==
  /\ ioClient \in {"open", "closed"} /\ ioSession \in BOOLEAN /\ ioReset \in BOOLEAN
  /\ ioType \in [IoIds -> 1 .. 2] /\ ioCache \in [IoIds -> 0 .. 2]
  /\ ioWarm \subseteq IoIds /\ ioSchema \subseteq IoStructs
  /\ ioWrite.rows \in Seq(IoCodes) /\ Len(ioWrite.rows) = Len(ioWrite.specs)
  /\ ioApplied \subseteq 1 .. Len(ioWrite.specs)
  /\ ioShown \in [IoReaders \cup {"writer"} -> {"grey", "green", "yellow", "red"}]
  /\ ioStale \in BOOLEAN

IoInit ==
  /\ ioClient = "open" /\ ioSession = TRUE /\ ioReset = FALSE
  /\ ioType = [v \in IoIds |-> 1] /\ ioCache = [v \in IoIds |-> 0]
  /\ ioWarm = {} /\ ioSchema = {}
  /\ ioWrite = IoWriteIdle /\ ioApplied = {}
  /\ ioRead = [r \in IoReaders |-> IoReadIdle] /\ ioPayload = <<>>
  /\ ioShown = [n \in IoReaders \cup {"writer"} |-> "grey"]
  /\ ioStale = FALSE /\ ioLeft = [calls |-> IoCalls, faults |-> IoFaults]

ioLink == <<ioClient, ioSession, ioReset, ioType>>
ioCaches == <<ioCache, ioWarm, ioSchema>>
ioWriter == <<ioWrite, ioApplied>>
ioReader == <<ioRead, ioPayload>>

\* A request fails: there is no session, or the answer is an error or too late.
IoRequestFails ==
  \/ ~ioSession /\ UNCHANGED ioLeft
  \/ ioSession /\ ioLeft.faults > 0 /\ ioLeft' = [ioLeft EXCEPT !.faults = @ - 1]

-----------------------------------------------------------------------------
(* The session (external), watchState and Stop of the connection.           *)

IoDrop ==
  /\ ioSession /\ ioLeft.faults > 0 /\ ioLeft' = [ioLeft EXCEPT !.faults = @ - 1]
  /\ ioSession' = FALSE /\ ioReset' = TRUE
  /\ UNCHANGED <<ioClient, ioType, ioCaches, ioWriter, ioReader, ioShown, ioStale>>

\* While nobody is connected the server may be given another program.
IoReconnect ==
  /\ ~ioSession /\ ioClient = "open"
  /\ ioType' \in {ioType, [v \in IoIds |-> 3 - ioType[v]]}
  /\ ioSession' = TRUE
  /\ UNCHANGED <<ioClient, ioReset, ioCaches, ioWriter, ioReader, ioShown, ioStale, ioLeft>>

\* Mutant: the marks of prewarmed variables survive the reset.
IoResetKeepsPrewarmed ==
  /\ ioReset /\ ioReset' = FALSE
  /\ ioCache' = [v \in IoIds |-> 0] /\ ioSchema' = {}
  /\ ioStale' = (ioStale \/ ioWrite.step = "cache"
                         \/ \E r \in IoReaders : ioRead[r].step # "idle")
  /\ UNCHANGED <<ioClient, ioSession, ioType, ioWarm, ioWriter, ioReader, ioShown, ioLeft>>

\* Mutant: the cached DataTypes survive the reset.
IoResetKeepsTypes ==
  /\ ioReset /\ ioReset' = FALSE
  /\ ioSchema' = {} /\ ioWarm' = {}
  /\ ioStale' = (ioStale \/ ioWrite.step = "cache"
                         \/ \E r \in IoReaders : ioRead[r].step # "idle")
  /\ UNCHANGED <<ioClient, ioSession, ioType, ioCache, ioWriter, ioReader, ioShown, ioLeft>>

\* watchState on Reconnecting: ResetTypeCache, structResolver.reset, prewarmed.
IoResetCaches ==
  /\ ioReset /\ ioReset' = FALSE
  /\ ioCache' = [v \in IoIds |-> 0] /\ ioSchema' = {} /\ ioWarm' = {}
  /\ ioStale' = (ioStale \/ ioWrite.step = "cache"
                         \/ \E r \in IoReaders : ioRead[r].step # "idle")
  /\ UNCHANGED <<ioClient, ioSession, ioType, ioWriter, ioReader, ioShown, ioLeft>>

IoClose ==
  /\ ioClient = "open" /\ ioClient' = "closed" /\ ioSession' = FALSE
  /\ UNCHANGED <<ioReset, ioType, ioCaches, ioWriter, ioReader, ioShown, ioStale, ioLeft>>

-----------------------------------------------------------------------------
(* opcua-write.                                                             *)

IoRow(i, code) == [ioWrite EXCEPT !.rows[i] = code, !.at = i + 1, !.step = "resolve"]

\* HandleMessage and the beginning of executeWrites.
IoHandleWrite(list) ==
  /\ ioWrite.step = "idle" /\ ioLeft.calls > 0 /\ list # <<>>
  /\ ioLeft' = [ioLeft EXCEPT !.calls = @ - 1] /\ ioApplied' = {}
  /\ IF ioClient = "open"
     THEN /\ ioWrite' = [step |-> "resolve", specs |-> list, at |-> 1, got |-> 0,
                         rows |-> [i \in 1 .. Len(list) |-> "none"]]
          /\ UNCHANGED ioShown
     ELSE /\ ioWrite' = [step |-> "idle", specs |-> list, at |-> 0, got |-> 0,
                         rows |-> [i \in 1 .. Len(list) |-> "BadConnectionClosed"]]
          /\ ioShown' = [ioShown EXCEPT !["writer"] = "red"]
  /\ UNCHANGED <<ioLink, ioCaches, ioReader, ioStale>>

\* coerceOrEncode of a spec whose type is known.
coerceOrEncode(i) ==
  IF IoKind[ioWrite.specs[i]] = "badValue" THEN IoRow(i, "BadTypeMismatch")
  ELSE [ioWrite EXCEPT !.at = i + 1, !.step = "resolve"]

\* resolveTypeID of the next spec: the dataType it names ("badType": an unknown
\* one, or none although the type cache is disabled), the cache, or a lookup.
IoResolve ==
  LET i == ioWrite.at
      v == ioWrite.specs[i]
  IN  /\ ioWrite.step = "resolve" /\ i <= Len(ioWrite.specs)
      /\ ioWrite' = CASE ~IoParses(v) -> IoRow(i, "BadInvalidArgument")
                      [] IoKind[v] = "badType" -> IoRow(i, "BadTypeMismatch")
                      [] IoParses(v) /\ (IoKind[v] = "typed" \/ ioCache[v] # 0) -> coerceOrEncode(i)
                      [] OTHER -> [ioWrite EXCEPT !.step = "lookup"]
      /\ UNCHANGED <<ioLink, ioCaches, ioApplied, ioReader, ioShown, ioStale, ioLeft>>

\* LookupDataType: the Read of the attribute ...
IoLookup ==
  /\ ioWrite.step = "lookup"
  /\ \/ /\ ioSession /\ UNCHANGED ioLeft
        /\ ioWrite' = [ioWrite EXCEPT !.step = "cache", !.got = ioType[ioWrite.specs[ioWrite.at]]]
     \/ IoRequestFails /\ ioWrite' = IoRow(ioWrite.at, "BadTypeMismatch")
  /\ UNCHANGED <<ioLink, ioCaches, ioApplied, ioReader, ioShown, ioStale>>

\* ... and cache.set with what it returned, whenever that is.
IoCacheSet ==
  /\ ioWrite.step = "cache"
  /\ ioCache' = [ioCache EXCEPT ![ioWrite.specs[ioWrite.at]] = ioWrite.got]
  /\ ioWrite' = coerceOrEncode(ioWrite.at)
  /\ ioStale' = (ioStale \/ ~ioSession)
  /\ UNCHANGED <<ioLink, ioWarm, ioSchema, ioApplied, ioReader, ioShown, ioLeft>>

\* The indices of the specs that are submitted; NewVariant refuses some.
IoSubmitted == {i \in 1 .. Len(ioWrite.specs) :
                  ioWrite.rows[i] = "none" /\ IoKind[ioWrite.specs[i]] # "badVariant"}
IoPairs == IoInOrder(IoSubmitted)

IoWithVariants ==
  [i \in 1 .. Len(ioWrite.specs) |->
     IF ioWrite.rows[i] = "none" /\ IoKind[ioWrite.specs[i]] = "badVariant"
     THEN "BadEncodingError" ELSE ioWrite.rows[i]]

\* The server's answer, in the order of the request (external).
IoAnswer == [j \in 1 .. Len(IoPairs) |->
               IF IoKind[ioWrite.specs[IoPairs[j]]] = "readonly" THEN "BadNotWritable" ELSE "Good"]

\* Mutant: the j-th answer is taken to be the j-th row.
IoMapByPosition(j) == j

\* The row the j-th answer is for.
IoMap(j) == IoPairs[j]

\* pulseStatus.
IoPulse(rows) == IF \A i \in DOMAIN rows : rows[i] = "Good" THEN "green" ELSE "yellow"

\* The request goes out, if there is anything to write.
IoSubmit ==
  /\ ioWrite.step = "resolve" /\ ioWrite.at > Len(ioWrite.specs)
  /\ ioWrite' = [ioWrite EXCEPT !.step = IF IoPairs = <<>> THEN "idle" ELSE "sent",
                                !.rows = IoWithVariants]
  /\ UNCHANGED <<ioLink, ioCaches, ioApplied, ioReader, ioShown, ioStale, ioLeft>>

\* The server applies it (external); the answer is on its way.
IoServe ==
  /\ ioWrite.step = "sent" /\ ioSession
  /\ ioApplied' = {IoPairs[j] : j \in {k \in 1 .. Len(IoPairs) : IoAnswer[k] = "Good"}}
  /\ ioWrite' = [ioWrite EXCEPT !.step = "served"]
  /\ UNCHANGED <<ioLink, ioCaches, ioReader, ioShown, ioStale, ioLeft>>

\* The answer arrives: the rows of its results.
IoAnswered ==
  /\ ioWrite.step = "served"
  /\ LET rows == [i \in 1 .. Len(ioWrite.specs) |->
                    IF \E j \in 1 .. Len(IoPairs) : IoMap(j) = i
                    THEN IoAnswer[CHOOSE j \in 1 .. Len(IoPairs) : IoMap(j) = i]
                    ELSE ioWrite.rows[i]]
     IN  /\ ioWrite' = [ioWrite EXCEPT !.step = "idle", !.rows = rows]
         /\ ioShown' = [ioShown EXCEPT !["writer"] = IoPulse(rows)]
  /\ UNCHANGED <<ioLink, ioCaches, ioApplied, ioReader, ioStale, ioLeft>>

\* Mutant: a failed request leaves its rows as if it had been answered.
IoWriteFailsSilently ==
  /\ ioWrite.step \in {"sent", "served"} /\ IoRequestFails
  /\ ioWrite' = [ioWrite EXCEPT !.step = "idle", !.rows =
       [i \in 1 .. Len(ioWrite.specs) |-> IF i \in IoSubmitted THEN "Good" ELSE ioWrite.rows[i]]]
  /\ ioShown' = [ioShown EXCEPT !["writer"] = "red"]
  /\ UNCHANGED <<ioLink, ioCaches, ioApplied, ioReader, ioStale>>

\* The service call fails, before the server has seen the request or after it
\* has applied it: every row that was submitted is marked.
IoWriteFails ==
  /\ ioWrite.step \in {"sent", "served"} /\ IoRequestFails
  /\ ioWrite' = [ioWrite EXCEPT !.step = "idle", !.rows =
       [i \in 1 .. Len(ioWrite.specs) |->
          IF i \in IoSubmitted THEN "BadCommunicationError" ELSE ioWrite.rows[i]]]
  /\ ioShown' = [ioShown EXCEPT !["writer"] = "red"]
  /\ UNCHANGED <<ioLink, ioCaches, ioApplied, ioReader, ioStale>>

-----------------------------------------------------------------------------
(* opcua-read.                                                              *)

\* doRead of runStatic or HandleMessage.
IoDoRead(r, list) ==
  /\ ioRead[r].step = "idle" /\ ioLeft.calls > 0 /\ list # <<>>
  /\ ioLeft' = [ioLeft EXCEPT !.calls = @ - 1]
  /\ IF ioClient = "open"
     THEN ioRead' = [ioRead EXCEPT ![r] = [step |-> "warm", list |-> list, mine |-> {}]] /\ UNCHANGED ioShown
     ELSE ioShown' = [ioShown EXCEPT ![r] = "red"] /\ UNCHANGED ioRead
  /\ UNCHANGED <<ioLink, ioCaches, ioWriter, ioPayload, ioStale>>

\* PrewarmStructForVariable for every entry: variables that are marked are
\* skipped, the others are marked first.
IoMark(r) ==
  /\ ioRead[r].step = "warm"
  /\ LET all == {v \in Range(ioRead[r].list) : IoParses(v)}
         mine == all \ ioWarm
     IN  /\ ioWarm' = ioWarm \cup mine
         /\ ioRead' = [ioRead EXCEPT ![r] = [step |-> "schema", list |-> ioRead[r].list, mine |-> mine]]
         /\ ioStale' = (ioStale \/ \E q \in IoReaders \ {r} :
                          ioRead[q].step = "schema" /\ ioRead[q].mine \cap all # {})
  /\ UNCHANGED <<ioLink, ioCache, ioSchema, ioWriter, ioPayload, ioShown, ioLeft>>

\* resolveStruct of what this reader marked; a failure leaves the mark, unless
\* there is no client any more.
IoSchemaRead(r) ==
  /\ ioRead[r].step = "schema"
  /\ \/ /\ ioSession /\ UNCHANGED <<ioLeft, ioStale>>
        /\ ioSchema' = ioSchema \cup (ioRead[r].mine \cap IoStructs)
     \/ /\ IoRequestFails /\ UNCHANGED ioSchema
        /\ ioStale' = (ioStale \/ ioRead[r].mine # {})
  /\ ioWarm' = IF ioClient = "closed" THEN ioWarm \ ioRead[r].mine ELSE ioWarm
  /\ ioRead' = [ioRead EXCEPT ![r] = [step |-> "read", list |-> ioRead[r].list, mine |-> {}]]
  /\ UNCHANGED <<ioLink, ioCache, ioWriter, ioPayload, ioShown>>

\* toRead: the entries that parse, by their place in the list.
IoToRead(list) == {i \in 1 .. Len(list) : IoParses(list[i])}

\* Mutant: the results are taken to be in the order of the entries.
IoResultByPosition(list, i) ==
  LET toRead == IoInOrder(IoToRead(list))
  IN  list[toRead[IF i <= Len(toRead) THEN i ELSE Len(toRead)]]

\* The k-th result of the Read goes to the k-th entry that parses.
IoResult(list, i) == list[IoInOrder(IoToRead(list))[IoRank(IoToRead(list), i)]]

IoRecords(list) ==
  [i \in 1 .. Len(list) |->
     IF ~IoParses(list[i]) THEN [node |-> list[i], code |-> "BadNodeIDInvalid", of |-> "nil"]
     ELSE [node |-> list[i], of |-> IoResult(list, i),
           code |-> IF IoResult(list, i) \in IoStructs \ ioSchema THEN "typeId" ELSE "Good"]]

\* shapePayload for "by-name": the key of each record, with a counter after a
\* name that is taken.
IoByName(list) ==
  LET add(acc, v) ==
        LET key == IoName[v]
            n == IF key \in DOMAIN acc.seen THEN acc.seen[key] ELSE 0
        IN  IF key \in acc.keys
            THEN [keys |-> acc.keys \cup {Append(key, n + 2)},
                  seen |-> [k \in DOMAIN acc.seen \cup {key} |->
                              IF k = key THEN n + 1 ELSE acc.seen[k]]]
            ELSE [keys |-> acc.keys \cup {key},
                  seen |-> [k \in DOMAIN acc.seen \cup {key} |->
                              IF k = key THEN 0 ELSE acc.seen[k]]]
  IN  FoldLeft(add, [keys |-> {}, seen |-> <<>>], list).keys

\* The Read service call and the message made of it.
IoReadDone(r) ==
  /\ ioRead[r].step = "read" /\ ioRead' = [ioRead EXCEPT ![r] = IoReadIdle]
  /\ LET list == ioRead[r].list
     IN  \/ /\ ioSession \/ \A i \in DOMAIN list : ~IoParses(list[i])
            /\ ioPayload' =
                 [rows |-> IoRecords(list), list |-> list,
                  keys |-> IF IoShape = "by-name" THEN IoByName(list) ELSE {}]
            /\ UNCHANGED <<ioShown, ioLeft>>
         \/ /\ IoRequestFails /\ \E i \in DOMAIN list : IoParses(list[i])
            /\ ioShown' = [ioShown EXCEPT ![r] = "red"] /\ UNCHANGED ioPayload
  /\ UNCHANGED <<ioLink, ioCaches, ioWriter, ioStale>>

-----------------------------------------------------------------------------
IoProgress ==
  \/ IoResetCaches \/ IoResolve \/ IoLookup \/ IoCacheSet
  \/ IoSubmit \/ IoServe \/ IoAnswered \/ IoWriteFails
  \/ \E r \in IoReaders : IoMark(r) \/ IoSchemaRead(r) \/ IoReadDone(r)

IoNext ==
  \/ IoDrop \/ IoReconnect \/ IoClose
  \/ \E l \in IoLists : IoHandleWrite(l) \/ \E r \in IoReaders : IoDoRead(r, l)
  \/ IoProgress

\* Goroutines run, and every request is answered or times out.
IoSpec == IoInit /\ [][IoNext]_ioVars /\ WF_ioVars(IoProgress)

(***************************************************************************)
(* The rows of a write that has returned are true: what is reported Good   *)
(* was applied; what was applied is reported Good, or                      *)
(* BadCommunicationError when the answer was lost; and that error says so  *)
(* of the whole request: no other row of it is Good.                       *)
(***************************************************************************)
IoRowsTruthful ==
  ioWrite.step = "idle" =>
    \A i \in DOMAIN ioWrite.specs :
      /\ ioWrite.rows[i] = "Good" => i \in ioApplied
      /\ i \in ioApplied => ioWrite.rows[i] \in {"Good", "BadCommunicationError"}
      /\ ioWrite.rows[i] = "BadCommunicationError" =>
           \A j \in DOMAIN ioWrite.specs : ioWrite.rows[j] # "Good"

(***************************************************************************)
(* Refuted: a row that is not Good was not written, so that it is safe to  *)
(* write it again: the answer of an applied write may be lost.             *)
(***************************************************************************)
IoRowsExact ==
  ioWrite.step = "idle" =>
    \A i \in DOMAIN ioWrite.specs : i \in ioApplied => ioWrite.rows[i] = "Good"

(***************************************************************************)
(* A record names the variable its value is of, and a structure comes      *)
(* decoded, also after the session was lost and the caches emptied; only a *)
(* read that another one's prewarm, a reset or a failed prewarm met may    *)
(* get the bare typeId.                                                    *)
(***************************************************************************)
IoRecordsMatch ==
  ioPayload # <<>> =>
    \A i \in DOMAIN ioPayload.list :
      LET row == ioPayload.rows[i]
      IN  IoParses(ioPayload.list[i]) =>
            row.of = ioPayload.list[i] /\ (row.code = "typeId" => ioStale)

(***************************************************************************)
(* A DataType in the cache is the server's, once the loss of the session   *)
(* has been seen: the next write does not coerce to a type the server has  *)
(* given up.  Only a lookup that crossed the reset may leave an old one.   *)
(***************************************************************************)
IoTypesFresh ==
  (ioSession /\ ~ioReset /\ ~ioStale) => \A v \in IoIds : ioCache[v] \in {0, ioType[v]}

(***************************************************************************)
(* Refuted: the same without exception.  A lookup that was answered before *)
(* the reset stores its DataType after it (server.go:590).                 *)
(***************************************************************************)
IoTypesAlwaysFresh ==
  (ioSession /\ ~ioReset) => \A v \in IoIds : ioCache[v] \in {0, ioType[v]}

(***************************************************************************)
(* "Counter-suffix on collisions so no data is lost" (read.go): the        *)
(* payload has a key for each record.                                      *)
(***************************************************************************)
IoNoDataLost ==
  (IoShape = "by-name" /\ ioPayload # <<>>) =>
    Cardinality(ioPayload.keys) = Len(ioPayload.list)

\* A read or a write is under way and must return.
IoPending == ioWrite.step # "idle" \/ \E r \in IoReaders : ioRead[r].step # "idle"

(***************************************************************************)
(* The opcua-read and opcua-write nodes: rows, records and cached types    *)
(* are true.                                                               *)
(***************************************************************************)
IoSound == IoRowsTruthful /\ IoRecordsMatch /\ IoTypesFresh
=============================================================================
