---------------------------- MODULE WsHubProofs ----------------------------
(***************************************************************************)
(* Proofs about WsHub, for any number of clients and users and any         *)
(* capacities: the channels of the clients are closed exactly once, and    *)
(* what a client is sent has no gap.                                       *)
(***************************************************************************)
EXTENDS WsHub, SequenceTheorems, TLAPS

RunStates == [pc : {"select", "range", "full", "returned"},
              left : SUBSET Client, full : SUBSET Client]

ReaderStates == {"none", "registering", "registered", "reading", "leaving",
                 "closing", "gone"}

(* The part of the type invariant that the channel discipline rests on. *)
ChannelTypes ==
    /\ clients \subseteq Client
    /\ run \in RunStates
    /\ closed \in [Client -> Nat]
    /\ reader \in [Client -> ReaderStates]

(* Only Run lists a client, when it takes it from the register channel. *)
ListedIsRegistered ==
    \A c \in clients : reader[c] \notin {"none", "registering"}

HInv == ChannelTypes /\ ListedIsRegistered /\ ClosedOnce

LEMMA InitHInv == Init => HInv
BY DEF Init, HInv, ChannelTypes, ListedIsRegistered, ClosedOnce, AtSelect, RunStates, ReaderStates

(* Deleting listed clients and closing their channels keeps the two in step. *)
LEMMA DropKeeps ==
    ASSUME HInv, NEW C \in SUBSET clients, drop(C),
           reader' \in [Client -> ReaderStates],
           \A c \in Client : (reader'[c] \in {"none", "registering"})
                                 <=> (reader[c] \in {"none", "registering"}),
           run' \in RunStates
    PROVE  HInv'
BY DEF HInv, ChannelTypes, ListedIsRegistered, ClosedOnce, drop

(* A step that leaves the map and the channels alone, and moves no client    *)
(* across its registration.                                                  *)
LEMMA PumpKeeps ==
    ASSUME HInv, UNCHANGED <<clients, closed>>,
           reader' \in [Client -> ReaderStates],
           \A c \in Client : (reader'[c] \in {"none", "registering"})
                                 <=> (reader[c] \in {"none", "registering"}),
           run' \in RunStates
    PROVE  HInv'
BY DEF HInv, ChannelTypes, ListedIsRegistered, ClosedOnce

LEMMA NextHInv == HInv /\ [Next]_vars => HInv'
<1> SUFFICES ASSUME HInv, [Next]_vars PROVE HInv'
  OBVIOUS
<1> USE DEF HInv, ChannelTypes, RunStates, ReaderStates
<1>1. ASSUME NEW c \in Client, RunRegister(c) PROVE HInv'
  BY <1>1 DEF RunRegister, ListedIsRegistered, ClosedOnce, chanVars
<1>2. ASSUME NEW c \in Client, RunUnregister(c) PROVE HInv'
  <2>1. drop({c} \cap clients) /\ {c} \cap clients \in SUBSET clients
    BY <1>2 DEF RunUnregister
  <2> HIDE DEF HInv
  <2> QED BY <1>2, <2>1, DropKeeps DEF RunUnregister, HInv
<1>3. ASSUME NEW c \in Client, RunSend(c) PROVE HInv'
  <2>1. run' \in RunStates
    BY <1>3 DEF RunSend
  <2> QED BY <1>3, <2>1, PumpKeeps DEF RunSend, pumpVars
<1>4. CASE RunTake
  BY <1>4, PumpKeeps DEF RunTake, chanVars, pumpVars
<1>5. CASE RunDropSlow
  <2>1. drop(run.full \cap clients) /\ run.full \cap clients \in SUBSET clients
    BY <1>5 DEF RunDropSlow
  <2>2. run' \in RunStates
    BY <1>5 DEF RunDropSlow
  <2> QED BY <1>5, <2>1, <2>2, DropKeeps DEF RunDropSlow, pumpVars
<1>6. CASE RunRanged
  BY <1>6, PumpKeeps DEF RunRanged, AtSelect, chanVars, pumpVars
<1>7. CASE RunStop
  <2>1. run' \in RunStates
    BY <1>7 DEF RunStop
  <2> QED BY <1>7, <2>1, DropKeeps DEF RunStop, pumpVars
<1>8. CASE Stop
  BY <1>8, PumpKeeps DEF Stop, chanVars, pumpVars
<1>9. CASE Broadcast
  BY <1>9, PumpKeeps DEF Broadcast, chanVars, pumpVars
<1>10. ASSUME NEW u \in User, DisconnectUser(u) PROVE HInv'
  <2> DEFINE C == {c \in clients : UserOf[c] = u}
  <2>1. drop(C) /\ C \in SUBSET clients
    BY <1>10 DEF DisconnectUser
  <2> QED BY <1>10, <2>1, DropKeeps DEF DisconnectUser, pumpVars
<1>11. ASSUME NEW c \in Client, upgradeAndRun(c) PROVE HInv'
  BY <1>11 DEF upgradeAndRun, hubVars, chanVars, ListedIsRegistered, ClosedOnce
<1>12. ASSUME NEW c \in Client, StartPumps(c) \/ ReadFails(c) \/ ReaderCloses(c)
       PROVE  HInv'
  BY <1>12, PumpKeeps DEF StartPumps, ReadFails, ReaderCloses, hubVars, chanVars
<1>13. ASSUME NEW c \in Client, WriteMessage(c) \/ WriteClose(c) \/ PingFails(c)
       PROVE  HInv'
  BY <1>13, PumpKeeps DEF WriteMessage, WriteClose, PingFails, hubVars, chanVars
<1>14. ASSUME NEW c \in Client, PeerGone(c) PROVE HInv'
  BY <1>14, PumpKeeps DEF PeerGone, hubVars, chanVars
<1>15. CASE UNCHANGED vars
  BY <1>15, PumpKeeps DEF vars, hubVars, chanVars, pumpVars
<1> QED
  BY <1>1, <1>2, <1>3, <1>4, <1>5, <1>6, <1>7, <1>8, <1>9, <1>10, <1>11, <1>12,
     <1>13, <1>14, <1>15 DEF Next, Run, Pumps

(* Every channel of a client is open while the client is listed and closed   *)
(* exactly once when it no longer is, for every number of clients and users  *)
(* and every capacity.                                                       *)
THEOREM ChannelsClosedOnce == Spec => []ClosedOnce
<1>1. Spec => []HInv
  BY InitHInv, NextHInv, PTL DEF Spec
<1>2. HInv => ClosedOnce
  BY DEF HInv
<1> QED
  BY <1>1, <1>2, PTL

-----------------------------------------------------------------------------
(* The stream of a client: what Run took (t), from where on the client       *)
(* listens (n), what is on the socket (w) and in the channel (s).  Level is  *)
(* how far the client has come, and Whole says that socket and channel hold  *)
(* the events up to there, one after the other.                              *)
Level(n, w, s) == n + Len(w) + Len(s)

Whole(t, n, w, s) ==
    /\ Level(n, w, s) <= Len(t)
    /\ \A i \in 1 .. Len(w) : w[i] = t[n + i]
    /\ \A i \in 1 .. Len(s) : s[i] = t[n + Len(w) + i]

(* What a gap would be: NoGap for one client, on sequences. *)
NoHole(t, n, w, s) ==
    LET got == w \o s
        due == SubSeq(t, n + 1, Len(t))
    IN  /\ Len(got) <= Len(due)
        /\ got = SubSeq(due, 1, Len(got))
        /\ Level(n, w, s) = Len(t) => got = due

(* A whole stream has no gap. *)
LEMMA WholeIsPrefix ==
    ASSUME NEW S, NEW t \in Seq(S), NEW n \in Nat, NEW w \in Seq(S), NEW s \in Seq(S),
           Whole(t, n, w, s)
    PROVE  NoHole(t, n, w, s)
<1> DEFINE got == w \o s
           due == SubSeq(t, n + 1, Len(t))
<1>1. /\ got \in Seq(S)
      /\ Len(got) = Len(w) + Len(s)
      /\ \A i \in 1 .. Len(w) + Len(s) : got[i] = IF i <= Len(w) THEN w[i] ELSE s[i - Len(w)]
  BY ConcatProperties
<1>2. /\ due \in Seq(S)
      /\ Len(due) = IF n + 1 <= Len(t) THEN Len(t) - (n + 1) + 1 ELSE 0
      /\ \A i \in 1 .. Len(t) - (n + 1) + 1 : due[i] = t[(n + 1) + i - 1]
  <2>1. n + 1 \in Int /\ Len(t) \in Int /\ \A i \in n + 1 .. Len(t) : t[i] \in S
    OBVIOUS
  <2> QED BY <2>1, SubSeqProperties
<1> HIDE DEF got, due
<1>3. Len(w) \in Nat /\ Len(s) \in Nat /\ Len(t) \in Nat /\ Len(got) \in Nat
  BY <1>1
<1>4. n + Len(got) <= Len(t)
  BY <1>1, <1>3 DEF Whole, Level
<1>5. Len(due) = Len(t) - n
  BY <1>2, <1>3, <1>4
<1>6. \A i \in 1 .. Len(got) : got[i] = t[n + i]
  <2> SUFFICES ASSUME NEW i \in 1 .. Len(got) PROVE got[i] = t[n + i]
    OBVIOUS
  <2>1. CASE i <= Len(w)
    BY <1>1, <1>3, <2>1 DEF Whole
  <2>2. CASE ~(i <= Len(w))
    <3>1. i - Len(w) \in 1 .. Len(s) /\ n + Len(w) + (i - Len(w)) = n + i
      BY <1>1, <1>3, <2>2
    <3>2. s[i - Len(w)] = t[n + Len(w) + (i - Len(w))]
      BY <3>1 DEF Whole
    <3> QED BY <1>1, <1>3, <2>2, <3>1, <3>2
  <2> QED BY <2>1, <2>2
<1>7. Len(got) <= Len(due)
  BY <1>3, <1>4, <1>5
<1>8. \A i \in 1 .. Len(due) : due[i] = t[n + i] /\ due[i] \in S
  BY <1>2, <1>3, <1>4, <1>5
<1>9. got = SubSeq(due, 1, Len(got))
  <2>1. \A i \in 1 .. Len(got) : due[i] \in S
    BY <1>3, <1>5, <1>7, <1>8
  <2> DEFINE pre == SubSeq(due, 1, Len(got))
  <2>2. /\ pre \in Seq(S)
        /\ Len(pre) = IF 1 <= Len(got) THEN Len(got) - 1 + 1 ELSE 0
        /\ \A i \in 1 .. Len(got) - 1 + 1 : pre[i] = due[1 + i - 1]
    BY <1>3, <2>1, SubSeqProperties
  <2> HIDE DEF pre
  <2>3. Len(pre) = Len(got)
    BY <1>3, <2>2
  <2>4. \A i \in 1 .. Len(pre) : pre[i] = got[i]
    BY <1>3, <1>5, <1>6, <1>7, <1>8, <2>2, <2>3
  <2>5. pre = got
    BY <1>1, <2>2, <2>3, <2>4, SeqEqual
  <2> QED BY <2>5 DEF pre
<1>10. ASSUME Level(n, w, s) = Len(t) PROVE got = due
  <2>1. Len(got) = Len(due)
    BY <1>1, <1>3, <1>5, <1>10 DEF Level
  <2>2. \A i \in 1 .. Len(got) : got[i] = due[i]
    BY <1>3, <1>6, <1>8, <2>1
  <2> QED BY <1>1, <1>2, <2>1, <2>2, SeqEqual
<1> QED
  BY <1>7, <1>9, <1>10, Zenon DEF NoHole, got, due

(* Run takes another event. *)
LEMMA WholeTake ==
    ASSUME NEW S, NEW t \in Seq(S), NEW n \in Nat, NEW w \in Seq(S), NEW s \in Seq(S),
           NEW e \in S, Whole(t, n, w, s)
    PROVE  Whole(Append(t, e), n, w, s)
<1>1. Len(w) \in Nat /\ Len(s) \in Nat /\ Len(t) \in Nat /\ Len(Append(t, e)) = Len(t) + 1
  OBVIOUS
<1>2. \A i \in 1 .. Len(t) : Append(t, e)[i] = t[i]
  OBVIOUS
<1>3. Level(n, w, s) <= Len(Append(t, e))
  BY <1>1 DEF Whole, Level
<1>4. \A i \in 1 .. Len(w) : n + i \in 1 .. Len(t)
  BY <1>1 DEF Whole, Level
<1>5. \A i \in 1 .. Len(s) : n + Len(w) + i \in 1 .. Len(t)
  BY <1>1 DEF Whole, Level
<1> QED
  BY <1>2, <1>3, <1>4, <1>5 DEF Whole

(* Run puts the event it took last into the channel. *)
LEMMA WholeSend ==
    ASSUME NEW S, NEW t \in Seq(S), NEW n \in Nat, NEW w \in Seq(S), NEW s \in Seq(S),
           Whole(t, n, w, s), Level(n, w, s) + 1 = Len(t)
    PROVE  /\ Whole(t, n, w, Append(s, t[Len(t)]))
           /\ Level(n, w, Append(s, t[Len(t)])) = Len(t)
           /\ Append(s, t[Len(t)]) \in Seq(S)
<1>1. Len(w) \in Nat /\ Len(s) \in Nat /\ Len(t) \in Nat
  OBVIOUS
<1>2. Len(t) \in 1 .. Len(t) /\ t[Len(t)] \in S
  BY <1>1 DEF Level
<1> DEFINE u == Append(s, t[Len(t)])
<1>3. /\ u \in Seq(S) /\ Len(u) = Len(s) + 1
      /\ \A i \in 1 .. Len(s) : u[i] = s[i]
      /\ u[Len(s) + 1] = t[Len(t)]
  BY <1>2, AppendProperties
<1> HIDE DEF u
<1>4. Level(n, w, u) = Len(t)
  BY <1>1, <1>3 DEF Level
<1>5. \A i \in 1 .. Len(u) : u[i] = t[n + Len(w) + i]
  <2> SUFFICES ASSUME NEW i \in 1 .. Len(u) PROVE u[i] = t[n + Len(w) + i]
    OBVIOUS
  <2>1. CASE i = Len(s) + 1
    <3>1. n + Len(w) + i = Len(t)
      BY <1>1, <2>1 DEF Level
    <3> QED BY <1>3, <2>1, <3>1
  <2>2. CASE i # Len(s) + 1
    <3>1. i \in 1 .. Len(s)
      BY <1>1, <1>3, <2>2
    <3> QED BY <1>3, <3>1 DEF Whole
  <2> QED BY <2>1, <2>2
<1> QED
  BY <1>1, <1>3, <1>4, <1>5 DEF Whole, u

(* The write pump takes the first buffered event. *)
LEMMA WholeWrite ==
    ASSUME NEW S, NEW t \in Seq(S), NEW n \in Nat, NEW w \in Seq(S), NEW s \in Seq(S),
           s # <<>>, Whole(t, n, w, s)
    PROVE  /\ Whole(t, n, Append(w, Head(s)), Tail(s))
           /\ Level(n, Append(w, Head(s)), Tail(s)) = Level(n, w, s)
           /\ Append(w, Head(s)) \in Seq(S) /\ Tail(s) \in Seq(S)
           /\ Len(Tail(s)) <= Len(s)
<1> DEFINE v == Append(w, Head(s))
           u == Tail(s)
<1>1. Len(w) \in Nat /\ Len(s) \in Nat /\ Len(t) \in Nat
  OBVIOUS
<1>2. /\ Head(s) \in S /\ u \in Seq(S) /\ Len(u) = Len(s) - 1
      /\ \A i \in 1 .. Len(u) : u[i] = s[i + 1]
  BY HeadTailProperties
<1>3. Head(s) = s[1] /\ 1 \in 1 .. Len(s)
  OBVIOUS
<1>4. /\ v \in Seq(S) /\ Len(v) = Len(w) + 1
      /\ \A i \in 1 .. Len(w) : v[i] = w[i]
      /\ v[Len(w) + 1] = s[1]
  BY <1>2, <1>3, AppendProperties
<1> HIDE DEF v, u
<1>5. Level(n, v, u) = Level(n, w, s)
  BY <1>1, <1>2, <1>4 DEF Level
<1>6. \A i \in 1 .. Len(v) : v[i] = t[n + i]
  <2> SUFFICES ASSUME NEW i \in 1 .. Len(v) PROVE v[i] = t[n + i]
    OBVIOUS
  <2>1. CASE i = Len(w) + 1
    <3>1. s[1] = t[n + Len(w) + 1]
      BY <1>3 DEF Whole
    <3>2. n + Len(w) + 1 = n + i
      BY <1>1, <2>1
    <3> QED BY <1>4, <2>1, <3>1, <3>2
  <2>2. CASE i # Len(w) + 1
    <3>1. i \in 1 .. Len(w)
      BY <1>1, <1>4, <2>2
    <3> QED BY <1>4, <3>1 DEF Whole
  <2> QED BY <2>1, <2>2
<1>7. \A i \in 1 .. Len(u) : u[i] = t[n + Len(v) + i]
  <2> SUFFICES ASSUME NEW i \in 1 .. Len(u) PROVE u[i] = t[n + Len(v) + i]
    OBVIOUS
  <2>1. i + 1 \in 1 .. Len(s) /\ n + Len(w) + (i + 1) = n + Len(v) + i
    BY <1>1, <1>2, <1>4
  <2> QED BY <1>2, <2>1 DEF Whole
<1> QED
  BY <1>1, <1>2, <1>4, <1>5, <1>6, <1>7 DEF Whole, v, u

-----------------------------------------------------------------------------
(* The type invariant, with the events as a set of their own: what they are  *)
(* is of no concern to the streams.                                          *)
Events == 1 .. MaxEvent

HubTypes ==
    /\ clients \subseteq Client
    /\ broadcast \in Seq(Events) /\ Len(broadcast) <= CastCap
    /\ done \in BOOLEAN
    /\ run \in RunStates
    /\ send \in [Client -> Seq(Events)]
    /\ \A c \in Client : Len(send[c]) <= SendCap
    /\ closed \in [Client -> Nat]
    /\ conn \in [Client -> {"none", "open", "broken", "closed"}]
    /\ reader \in [Client -> ReaderStates]
    /\ writer \in [Client -> {"none", "running", "gone"}]
    /\ events \in 0..MaxEvent
    /\ taken \in Seq(Events)
    /\ since \in [Client -> Nat]
    /\ wire \in [Client -> Seq(Events)]

LevelOf(c) == Level(since[c], wire[c], send[c])
WholeFor(c) == Whole(taken, since[c], wire[c], send[c])

(* A client that has not been taken from the register channel has nothing. *)
Unregistered ==
    \A c \in Client : reader[c] \in {"none", "registering"}
                          => send[c] = <<>> /\ wire[c] = <<>>

(* The range has clients to serve only while it runs. *)
Ranging ==
    /\ run.pc \in {"select", "returned"} => run.left = {} /\ run.full = {}
    /\ run.pc = "range" => run.full = {}

(* Whom the range has served has every event, whom it has not lacks the last. *)
Served ==
    \A c \in clients :
        /\ c \notin run.left \cup run.full => LevelOf(c) = Len(taken)
        /\ c \in run.left => LevelOf(c) + 1 = Len(taken)

StreamInv ==
    /\ HubTypes
    /\ ListedIsRegistered
    /\ Unregistered
    /\ Ranging
    /\ Served
    /\ \A c \in Client : WholeFor(c)

LEMMA HubTypesOK == HubTypes => TypeOK
BY DEF HubTypes, TypeOK, Events, RunStates, ReaderStates

LEMMA EmptyStream ==
    ASSUME NEW S, NEW t \in Seq(S), NEW n \in Nat, n <= Len(t)
    PROVE  Whole(t, n, <<>>, <<>>) /\ Level(n, <<>>, <<>>) = n
BY DEF Whole, Level

LEMMA InitStreamInv == Init => StreamInv
<1> SUFFICES ASSUME Init PROVE StreamInv
  OBVIOUS
<1>1. <<>> \in Seq(Events) /\ Len(<<>>) = 0
  OBVIOUS
<1>2. HubTypes
  <2>1. /\ send \in [Client -> Seq(Events)] /\ wire \in [Client -> Seq(Events)]
        /\ broadcast \in Seq(Events) /\ taken \in Seq(Events)
    BY <1>1 DEF Init
  <2>2. Len(broadcast) <= CastCap /\ \A c \in Client : Len(send[c]) <= SendCap
    BY HubAssumption, <1>1 DEF Init
  <2>3. run \in RunStates
    BY DEF Init, AtSelect, RunStates
  <2>4. /\ clients \subseteq Client /\ done \in BOOLEAN /\ closed \in [Client -> Nat]
        /\ conn \in [Client -> {"none", "open", "broken", "closed"}]
        /\ reader \in [Client -> ReaderStates] /\ since \in [Client -> Nat]
        /\ writer \in [Client -> {"none", "running", "gone"}] /\ events \in 0..MaxEvent
    <3>1. clients \subseteq Client /\ done \in BOOLEAN
      BY DEF Init
    <3>2. closed \in [Client -> Nat] /\ since \in [Client -> Nat] /\ events \in 0..MaxEvent
      BY HubAssumption DEF Init
    <3>3. /\ conn \in [Client -> {"none", "open", "broken", "closed"}]
          /\ reader \in [Client -> ReaderStates]
          /\ writer \in [Client -> {"none", "running", "gone"}]
      BY Zenon DEF Init, ReaderStates
    <3> QED BY <3>1, <3>2, <3>3
  <2> QED BY <2>1, <2>2, <2>3, <2>4, Zenon DEF HubTypes
<1>3. ListedIsRegistered /\ Unregistered /\ Ranging /\ Served
  BY DEF Init, ListedIsRegistered, Unregistered, Ranging, Served, AtSelect
<1>4. ASSUME NEW c \in Client PROVE WholeFor(c)
  <2>1. taken = <<>> /\ since[c] = 0 /\ wire[c] = <<>> /\ send[c] = <<>>
    BY DEF Init
  <2>2. Whole(<<>>, 0, <<>>, <<>>)
    <3>1. 0 \in Nat /\ 0 <= Len(<<>>)
      BY <1>1
    <3> QED BY <1>1, <3>1, EmptyStream, Zenon
  <2> QED BY <2>1, <2>2, Zenon DEF WholeFor
<1> QED
  BY <1>2, <1>3, <1>4 DEF StreamInv

(* A step that takes nothing from a channel and puts nothing into one: the   *)
(* streams stay, whoever leaves the map.                                     *)
LEMMA StreamsStay ==
    ASSUME StreamInv, UNCHANGED <<send, taken, since, wire>>, clients' \subseteq clients,
           HubTypes', Ranging',
           \A c \in clients' : /\ c \in run'.left => c \in run.left
                               /\ c \in run.left \cup run.full => c \in run'.left \cup run'.full,
           \A c \in Client : (reader'[c] \in {"none", "registering"})
                                 <=> (reader[c] \in {"none", "registering"})
    PROVE  StreamInv'
<1>1. \A c \in Client : WholeFor(c)' /\ LevelOf(c)' = LevelOf(c)
  BY DEF StreamInv, WholeFor, LevelOf
<1>2. ListedIsRegistered' /\ Unregistered'
  BY DEF StreamInv, HubTypes, ListedIsRegistered, Unregistered
<1>3. Served'
  BY <1>1 DEF StreamInv, HubTypes, Served
<1> QED
  BY <1>1, <1>2, <1>3 DEF StreamInv

(* Such steps of the pumps and callers, which leave Run where it is. *)
LEMMA CallersStay ==
    ASSUME StreamInv, UNCHANGED <<run, send, taken, since, wire>>, clients' \subseteq clients,
           HubTypes',
           \A c \in Client : (reader'[c] \in {"none", "registering"})
                                 <=> (reader[c] \in {"none", "registering"})
    PROVE  StreamInv'
<1>1. Ranging'
  BY DEF StreamInv, Ranging
<1> QED
  BY <1>1, StreamsStay

LEMMA DropTypes ==
    ASSUME HubTypes, NEW C, drop(C)
    PROVE  clients' \subseteq clients /\ closed' \in [Client -> Nat]
BY DEF HubTypes, drop

LEMMA RegisterStreams == ASSUME StreamInv, NEW c \in Client, RunRegister(c) PROVE StreamInv'
<1> USE DEF StreamInv
<1>1. /\ since' = [since EXCEPT ![c] = Len(taken)] /\ clients' = clients \cup {c}
      /\ reader' = [reader EXCEPT ![c] = "registered"] /\ reader[c] = "registering"
      /\ UNCHANGED <<broadcast, done, run, send, closed, conn, writer, events, taken, wire>>
      /\ run.pc = "select"
  BY DEF RunRegister, chanVars
<1>2. Len(taken) \in Nat
  BY DEF HubTypes
<1>3. HubTypes'
  BY <1>1, <1>2 DEF HubTypes, ReaderStates
<1>4. ListedIsRegistered' /\ Unregistered' /\ Ranging'
  BY <1>1 DEF HubTypes, ListedIsRegistered, Unregistered, Ranging
<1>5. send[c] = <<>> /\ wire[c] = <<>> /\ since'[c] = Len(taken)
  BY <1>1 DEF HubTypes, Unregistered
<1>6. WholeFor(c)' /\ LevelOf(c)' = Len(taken)
  <2>1. send'[c] = <<>> /\ wire'[c] = <<>> /\ taken' = taken
    BY <1>1, <1>5
  <2>2. taken \in Seq(Events) /\ Len(taken) <= Len(taken)
    BY <1>2 DEF HubTypes
  <2> QED BY <1>2, <1>5, <2>1, <2>2, EmptyStream DEF WholeFor, LevelOf
<1>7. \A d \in Client \ {c} : WholeFor(d)' /\ LevelOf(d)' = LevelOf(d)
  BY <1>1 DEF HubTypes, WholeFor, LevelOf
<1>8. Served'
  BY <1>1, <1>6, <1>7 DEF HubTypes, Ranging, Served
<1> QED
  BY <1>3, <1>4, <1>6, <1>7, <1>8

LEMMA TakeStreams == ASSUME StreamInv, RunTake PROVE StreamInv'
<1> USE DEF StreamInv
<1>1. /\ run.pc = "select" /\ broadcast # <<>>
      /\ run' = [pc |-> "range", left |-> clients, full |-> {}]
      /\ broadcast' = Tail(broadcast) /\ taken' = Append(taken, Head(broadcast))
      /\ UNCHANGED <<clients, done, send, closed, conn, reader, writer, events, since, wire>>
  BY DEF RunTake, chanVars, pumpVars
<1>2. broadcast \in Seq(Events) /\ taken \in Seq(Events) /\ Len(broadcast) <= CastCap
  BY DEF HubTypes
<1>3. /\ Head(broadcast) \in Events /\ Tail(broadcast) \in Seq(Events)
      /\ Len(Tail(broadcast)) = Len(broadcast) - 1
  BY <1>1, <1>2, HeadTailProperties
<1>4. taken' \in Seq(Events) /\ Len(taken') = Len(taken) + 1
  BY <1>1, <1>2, <1>3
<1>5. Len(broadcast') <= CastCap
  BY <1>1, <1>2, <1>3, HubAssumption
<1>6. HubTypes'
  BY <1>1, <1>3, <1>4, <1>5 DEF HubTypes, RunStates
<1>7. ListedIsRegistered' /\ Unregistered' /\ Ranging'
  BY <1>1 DEF HubTypes, ListedIsRegistered, Unregistered, Ranging
<1>8. \A c \in Client : WholeFor(c)' /\ LevelOf(c)' = LevelOf(c)
  <2> SUFFICES ASSUME NEW c \in Client PROVE WholeFor(c)' /\ LevelOf(c)' = LevelOf(c)
    OBVIOUS
  <2>1. since[c] \in Nat /\ wire[c] \in Seq(Events) /\ send[c] \in Seq(Events) /\ WholeFor(c)
    BY DEF HubTypes
  <2>2. Whole(Append(taken, Head(broadcast)), since[c], wire[c], send[c])
    BY <1>2, <1>3, <2>1, WholeTake DEF WholeFor
  <2> QED BY <1>1, <2>2 DEF WholeFor, LevelOf
<1>9. Served'
  <2> SUFFICES ASSUME NEW c \in clients PROVE LevelOf(c)' + 1 = Len(taken')
    BY <1>1 DEF Served, HubTypes
  <2>1. LevelOf(c) = Len(taken)
    BY <1>1 DEF Served, Ranging
  <2> QED BY <1>4, <1>8, <2>1 DEF HubTypes
<1> QED
  BY <1>6, <1>7, <1>8, <1>9

LEMMA SendStreams == ASSUME StreamInv, NEW c \in Client, RunSend(c) PROVE StreamInv'
<1> USE DEF StreamInv
<1>1. /\ run.pc = "range" /\ c \in run.left /\ c \in clients
      /\ UNCHANGED <<clients, broadcast, done, closed, conn, reader, writer, events, taken, since, wire>>
  BY DEF RunSend, pumpVars, histVars
<1>2. run \in RunStates /\ run.full = {}
  BY <1>1 DEF HubTypes, Ranging
<1>3. CASE Len(send[c]) < SendCap
  <2>1. /\ send' = [send EXCEPT ![c] = Append(send[c], taken[Len(taken)])]
        /\ run' = [run EXCEPT !.left = run.left \ {c}]
    BY <1>3 DEF RunSend
  <2>2. /\ taken \in Seq(Events) /\ since[c] \in Nat /\ wire[c] \in Seq(Events)
        /\ send[c] \in Seq(Events) /\ Whole(taken, since[c], wire[c], send[c])
        /\ Level(since[c], wire[c], send[c]) + 1 = Len(taken)
    BY <1>1 DEF HubTypes, WholeFor, Served, LevelOf
  <2> DEFINE u == Append(send[c], taken[Len(taken)])
  <2>3. /\ Whole(taken, since[c], wire[c], u)
        /\ Level(since[c], wire[c], u) = Len(taken)
        /\ u \in Seq(Events)
    BY <2>2, WholeSend
  <2>4. Len(u) <= SendCap
    <3> DEFINE s == send[c]
    <3>1. s \in Seq(Events) /\ Len(s) < SendCap
      BY <1>3, <2>2
    <3>2. Len(Append(s, taken[Len(taken)])) = Len(s) + 1
      BY <3>1
    <3> HIDE DEF s
    <3> QED BY <3>1, <3>2, HubAssumption DEF s
  <2> HIDE DEF u
  <2>5. /\ send'[c] = u /\ \A d \in Client \ {c} : send'[d] = send[d]
        /\ send' \in [Client -> Seq(Events)]
    BY <2>1, <2>3 DEF HubTypes, u
  <2>6. HubTypes'
    BY <1>1, <1>2, <2>1, <2>4, <2>5 DEF HubTypes, RunStates
  <2>7. ListedIsRegistered' /\ Ranging'
    BY <1>1, <1>2, <2>1 DEF RunStates, ListedIsRegistered, Ranging
  <2>8. Unregistered'
    BY <1>1, <2>5 DEF ListedIsRegistered, Unregistered
  <2>9. WholeFor(c)' /\ LevelOf(c)' = Len(taken)
    BY <1>1, <2>3, <2>5 DEF WholeFor, LevelOf
  <2>10. \A d \in Client \ {c} : WholeFor(d)' /\ LevelOf(d)' = LevelOf(d)
    BY <1>1, <2>5 DEF WholeFor, LevelOf
  <2>11. Served'
    BY <1>1, <1>2, <2>1, <2>9, <2>10 DEF HubTypes, Served, RunStates
  <2> QED
    BY <2>6, <2>7, <2>8, <2>9, <2>10, <2>11
<1>4. CASE ~(Len(send[c]) < SendCap)
  <2>1. run' = [pc |-> "full", left |-> run.left \ {c}, full |-> {c}] /\ send' = send
    BY <1>4 DEF RunSend
  <2>2. run' \in RunStates
    BY <1>2, <2>1 DEF RunStates
  <2>3. HubTypes'
    BY <1>1, <2>1, <2>2 DEF HubTypes
  <2>4. Ranging'
    BY <2>1 DEF Ranging
  <2> QED
    BY <1>1, <1>2, <2>1, <2>3, <2>4, StreamsStay
<1> QED
  BY <1>3, <1>4

LEMMA WriteStreams == ASSUME StreamInv, NEW c \in Client, WriteMessage(c) PROVE StreamInv'
<1> USE DEF StreamInv
<1>1. /\ send[c] # <<>>
      /\ send' = [send EXCEPT ![c] = Tail(send[c])]
      /\ wire' = [wire EXCEPT ![c] = Append(wire[c], Head(send[c]))]
      /\ UNCHANGED <<clients, broadcast, done, run, closed, reader, events, taken, since>>
  BY DEF WriteMessage, hubVars
<1>2. /\ conn' \in [Client -> {"none", "open", "broken", "closed"}]
      /\ writer' \in [Client -> {"none", "running", "gone"}]
  BY DEF WriteMessage, WriterLeaves, HubTypes
<1>3. /\ taken \in Seq(Events) /\ since[c] \in Nat /\ wire[c] \in Seq(Events)
      /\ send[c] \in Seq(Events) /\ Whole(taken, since[c], wire[c], send[c])
  BY DEF HubTypes, WholeFor
<1> DEFINE v == Append(wire[c], Head(send[c]))
           u == Tail(send[c])
<1>4. /\ Whole(taken, since[c], v, u)
      /\ Level(since[c], v, u) = Level(since[c], wire[c], send[c])
      /\ v \in Seq(Events) /\ u \in Seq(Events) /\ Len(u) <= Len(send[c])
  BY <1>1, <1>3, WholeWrite
<1>5. Len(u) <= SendCap
  <2> DEFINE s == send[c]
  <2>1. Len(s) \in Nat /\ Len(s) <= SendCap /\ Len(u) <= Len(s) /\ Len(u) \in Nat
    BY <1>3, <1>4 DEF HubTypes
  <2> HIDE DEF s, u
  <2> QED BY <2>1, HubAssumption
<1> HIDE DEF v, u
<1>6. /\ send'[c] = u /\ wire'[c] = v
      /\ \A d \in Client \ {c} : send'[d] = send[d] /\ wire'[d] = wire[d]
      /\ send' \in [Client -> Seq(Events)] /\ wire' \in [Client -> Seq(Events)]
  BY <1>1, <1>4 DEF HubTypes, u, v
<1>7. HubTypes'
  BY <1>1, <1>2, <1>5, <1>6 DEF HubTypes
<1>8. ListedIsRegistered' /\ Ranging'
  BY <1>1 DEF ListedIsRegistered, Ranging
<1>9. Unregistered'
  BY <1>1, <1>6 DEF Unregistered
<1>10. \A d \in Client : WholeFor(d)' /\ LevelOf(d)' = LevelOf(d)
  BY <1>1, <1>4, <1>6 DEF WholeFor, LevelOf
<1>11. Served'
  BY <1>1, <1>10 DEF HubTypes, Served
<1> QED
  BY <1>7, <1>8, <1>9, <1>10, <1>11

LEMMA NextStreamInv == StreamInv /\ [Next]_vars => StreamInv'
<1> SUFFICES ASSUME StreamInv, [Next]_vars PROVE StreamInv'
  OBVIOUS
<1> USE DEF hubVars, chanVars, pumpVars, histVars
<1>0. HubTypes /\ Ranging
  BY DEF StreamInv
<1>1. ASSUME NEW c \in Client, RunUnregister(c) PROVE StreamInv'
  <2>1. clients' \subseteq clients /\ closed' \in [Client -> Nat]
    BY <1>0, <1>1, DropTypes DEF RunUnregister
  <2>2. HubTypes'
    BY <1>0, <1>1, <2>1 DEF HubTypes, RunUnregister, ReaderStates
  <2> QED BY <1>0, <1>1, <2>1, <2>2, CallersStay DEF RunUnregister, HubTypes
<1>2. CASE RunDropSlow
  <2>1. clients' = clients \ run.full /\ closed' \in [Client -> Nat]
    <3>1. drop(run.full \cap clients)
      BY <1>2 DEF RunDropSlow
    <3> QED BY <1>0, <3>1, DropTypes DEF drop
  <2>2. run' = [run EXCEPT !.pc = "range", !.full = {}] /\ run \in RunStates
    BY <1>0, <1>2 DEF RunDropSlow, HubTypes
  <2>3. HubTypes'
    BY <1>0, <1>2, <2>1, <2>2 DEF HubTypes, RunDropSlow, RunStates
  <2>4. Ranging'
    BY <2>2 DEF Ranging, RunStates
  <2> QED BY <1>2, <2>1, <2>2, <2>3, <2>4, StreamsStay DEF RunDropSlow, RunStates
<1>3. CASE RunRanged
  <2>1. run' = AtSelect /\ run.left \cap clients = {} /\ run.full = {} /\ clients' = clients
    BY <1>0, <1>3 DEF RunRanged, Ranging
  <2>2. HubTypes'
    BY <1>0, <1>3 DEF HubTypes, RunRanged, RunStates, AtSelect
  <2>3. Ranging'
    BY <2>1 DEF Ranging, AtSelect
  <2> QED BY <1>3, <2>1, <2>2, <2>3, StreamsStay DEF RunRanged, AtSelect
<1>4. CASE RunStop
  <2>1. clients' \subseteq clients /\ closed' \in [Client -> Nat]
    BY <1>0, <1>4, DropTypes DEF RunStop
  <2>2. run' = [run EXCEPT !.pc = "returned"] /\ run \in RunStates /\ run.pc = "select"
    BY <1>0, <1>4 DEF RunStop, HubTypes
  <2>3. HubTypes'
    BY <1>0, <1>4, <2>1, <2>2 DEF HubTypes, RunStop, RunStates
  <2>4. Ranging' /\ run'.left = run.left /\ run'.full = run.full
    BY <1>0, <2>2 DEF Ranging, RunStates
  <2> QED BY <1>4, <2>1, <2>3, <2>4, StreamsStay DEF RunStop
<1>5. CASE Stop
  <2>1. HubTypes'
    BY <1>0, <1>5 DEF HubTypes, Stop
  <2> QED BY <1>5, <2>1, CallersStay DEF Stop
<1>6. CASE Broadcast
  <2>1. events' \in 0 .. MaxEvent /\ events + 1 \in Events
    BY <1>0, <1>6, HubAssumption DEF HubTypes, Broadcast, Events
  <2>2. broadcast' \in Seq(Events) /\ Len(broadcast') <= CastCap
    <3>1. broadcast \in Seq(Events) /\ Len(broadcast) <= CastCap
      BY <1>0 DEF HubTypes
    <3>2. /\ Append(broadcast, events + 1) \in Seq(Events)
          /\ Len(Append(broadcast, events + 1)) = Len(broadcast) + 1
      BY <2>1, <3>1, AppendProperties
    <3> QED BY <1>6, <3>1, <3>2, HubAssumption DEF Broadcast
  <2>3. HubTypes'
    BY <1>0, <1>6, <2>1, <2>2 DEF HubTypes, Broadcast
  <2> QED BY <1>6, <2>3, CallersStay DEF Broadcast
<1>7. ASSUME NEW u \in User, DisconnectUser(u) PROVE StreamInv'
  <2>1. clients' \subseteq clients /\ closed' \in [Client -> Nat]
    BY <1>0, <1>7, DropTypes DEF DisconnectUser
  <2>2. HubTypes'
    BY <1>0, <1>7, <2>1 DEF HubTypes, DisconnectUser
  <2> QED BY <1>7, <2>1, <2>2, CallersStay DEF DisconnectUser
<1>8. ASSUME NEW c \in Client,
             upgradeAndRun(c) \/ StartPumps(c) \/ ReadFails(c) \/ ReaderCloses(c) \/ PeerGone(c)
      PROVE  StreamInv'
  <2>1. HubTypes'
    BY <1>0, <1>8 DEF HubTypes, ReaderStates, upgradeAndRun, StartPumps, ReadFails,
                      ReaderCloses, PeerGone
  <2>2. \A d \in Client : (reader'[d] \in {"none", "registering"})
                              <=> (reader[d] \in {"none", "registering"})
    BY <1>0, <1>8 DEF HubTypes, upgradeAndRun, StartPumps, ReadFails, ReaderCloses, PeerGone
  <2> QED BY <1>8, <2>1, <2>2, CallersStay
          DEF upgradeAndRun, StartPumps, ReadFails, ReaderCloses, PeerGone
<1>9. ASSUME NEW c \in Client, WriteClose(c) \/ PingFails(c) PROVE StreamInv'
  <2>1. HubTypes'
    BY <1>0, <1>9 DEF HubTypes, WriteClose, PingFails, WriterLeaves
  <2> QED BY <1>9, <2>1, CallersStay DEF WriteClose, PingFails
<1>10. CASE UNCHANGED vars
  <2>1. HubTypes'
    BY <1>0, <1>10 DEF HubTypes, vars
  <2> QED BY <1>10, <2>1, CallersStay DEF vars
<1> QED
  BY <1>1, <1>2, <1>3, <1>4, <1>5, <1>6, <1>7, <1>8, <1>9, <1>10, RegisterStreams,
     TakeStreams, SendStreams, WriteStreams DEF Next, Run, Pumps

(* The stream of every client is whole and within its channel's capacity: a  *)
(* slow client loses its connection, never an event in the middle, for any   *)
(* clients, users, capacities and number of events.                          *)
THEOREM StreamsAreWhole == Spec => []StreamsWhole
<1>1. Spec => []StreamInv
  BY InitStreamInv, NextStreamInv, PTL DEF Spec
<1>2. StreamInv => StreamsWhole
  <2> SUFFICES ASSUME StreamInv PROVE TypeOK /\ NoGap
    BY DEF StreamsWhole
  <2>1. TypeOK
    BY HubTypesOK DEF StreamInv
  <2>2. ASSUME NEW c \in Client
        PROVE  LET got == wire[c] \o send[c]
                   due == SubSeq(taken, since[c] + 1, Len(taken))
               IN  /\ Len(got) <= Len(due)
                   /\ got = SubSeq(due, 1, Len(got))
                   /\ c \in clients \ (run.left \cup run.full) => got = due
    <3>1. /\ taken \in Seq(Events) /\ since[c] \in Nat /\ wire[c] \in Seq(Events)
          /\ send[c] \in Seq(Events) /\ Whole(taken, since[c], wire[c], send[c])
      BY DEF StreamInv, HubTypes, WholeFor
    <3>2. c \in clients \ (run.left \cup run.full)
              => Level(since[c], wire[c], send[c]) = Len(taken)
      BY DEF StreamInv, Served, LevelOf
    <3>3. NoHole(taken, since[c], wire[c], send[c])
      BY <3>1, WholeIsPrefix
    <3> QED BY <3>2, <3>3, Zenon DEF NoHole
  <2> QED BY <2>1, <2>2 DEF NoGap
<1> QED
  BY <1>1, <1>2, PTL
=============================================================================
