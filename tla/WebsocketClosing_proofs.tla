------------------------ MODULE WebsocketClosing_proofs ------------------------
(***************************************************************************)
(* For any number of pings and of packets: a websocket writes at most one  *)
(* CLOSE frame and leaves no ping waiting on a lost connection; and both   *)
(* halves of a websocket, as they are checked side by side, are typed.     *)
(*                                                                         *)
(* What makes it inductive: no frame was written, and nobody is about to   *)
(* write one, in the state OPEN; outside it, whoever is about to write it  *)
(* (the holder of the mutex, or the answer to the peer's CLOSE) is alone   *)
(* (OneCloser).  A ping that waits is in self.pings, where connection_lost *)
(* finds it (Registered), and none is added in the state CLOSED, which a   *)
(* lost connection that was made is in (Unmade).                           *)
(***************************************************************************)
EXTENDS MCWebsocket, FrameAssembler_proofs, SequenceTheorems, FiniteSetTheorems, TLAPS

\* what a packet may have to send: the echo of a CLOSE, and what is left of it
Closing == <<"close", "eof">>
Sends   == {<<>>, <<"pong">>, <<"eof">>, Closing}
Parcel  == [send : Sends, event : Pingers \cup {"close", "none"}, begun : BOOLEAN, eof : BOOLEAN]
Links   == {"http", "open", "eof", "closing", "aborted", "lost"}

ClosingData ==
    /\ proto \in {"OPEN", "CLOSING", "CLOSED"} /\ link \in Links
    /\ at \in [Users -> Places]
    /\ auto \in {"none", "new", "data", "half", "final", "done"}
    /\ data_fut \in {"none", "pending", "result", "cancelled"}
    /\ packets \in Seq(Parcel)
    /\ pings \in Seq(Pingers) /\ waiter \in [Pingers -> {"none", "pending", "acked", "failed"}]
    /\ pinged \in Nat /\ got \in 0..MaxPackets /\ closes \in Nat
    /\ stopping \in {"no", "cancelled", "idle", "forced"}

ClosingFlags ==
    /\ blocked \in BOOLEAN /\ listening \in BOOLEAN /\ cancelled \in BOOLEAN
    /\ aborting \in BOOLEAN /\ peer_closed \in BOOLEAN

\* the mutex
Mutex == \A u, v \in Users : at[u] \in Locked /\ at[v] \in Locked => u = v

\* who is about to write a CLOSE frame
Owes(i) == packets[i].send = Closing

OneCloser ==
    /\ closes <= 1 /\ (proto = "OPEN" => closes = 0)
    /\ \A u \in Users : at[u] = "closing" => proto # "OPEN" /\ closes = 0
    /\ \A i \in DOMAIN packets : Owes(i) =>
          /\ proto # "OPEN" /\ closes = 0
          /\ \A u \in Users : at[u] # "closing"
          /\ \A j \in DOMAIN packets : Owes(j) => j = i

Registered == \A p \in Pingers : waiter[p] = "pending" => p \in Range(pings) /\ link # "lost"

Unmade ==
    /\ auto = "none" =>
          /\ link \in {"http", "lost"} /\ \A u \in Users \ {"task"} : at[u] = "none"
          /\ at["task"] = (IF link = "http" THEN "idle" ELSE "end")
          /\ \A p \in Pingers : waiter[p] # "pending"
    /\ link = "http" => auto = "none"
    /\ link = "lost" => proto = "CLOSED" \/ auto = "none"
    /\ aborting => link \in {"closing", "aborted", "lost"}

Asking(places) == {u \in Pingers : places[u] = "ping"}
PingsCounted ==
    /\ pinged + Cardinality(Asking(at)) <= MaxPings
    /\ \A u \in Users : at[u] = "ping" => u \in Pingers

ClosingInv ==
    /\ ClosingData /\ ClosingFlags /\ Mutex /\ OneCloser /\ Registered /\ Unmade /\ PingsCounted
-----------------------------------------------------------------------------
LEMMA PlacesAre ==
    /\ Locked = {"sending", "pinging", "closing"} /\ DOMAIN Writing = {"send", "ping", "close"}
    /\ Writing["send"] = "sending" /\ Writing["ping"] = "pinging" /\ Writing["close"] = "closing"
    /\ Places = {"none", "idle", "wait", "recv", "stream", "leaving", "end", "sending", "pinging", "closing",
                 "send", "ping", "close"}
  <1>1. /\ DOMAIN Writing = {"send", "ping", "close"}
        /\ Writing["send"] = "sending" /\ Writing["ping"] = "pinging" /\ Writing["close"] = "closing"
    BY DEF Writing
  <1>2. Locked = {"sending", "pinging", "closing"}
    BY <1>1 DEF Locked, Range
  <1> QED BY <1>1, <1>2 DEF Places

LEMMA AskingFinite ==
    ASSUME NEW places PROVE IsFiniteSet(Asking(places)) /\ Cardinality(Asking(places)) \in Nat
  <1>1. IsFiniteSet(Pingers)
    <2>1. IsFiniteSet({} \cup {"handler"})
      BY FS_EmptySet, FS_AddElement
    <2>2. IsFiniteSet(({} \cup {"handler"}) \cup {"keepalive"})
      BY <2>1, FS_AddElement
    <2>3. ({} \cup {"handler"}) \cup {"keepalive"} = Pingers
      BY DEF Pingers
    <2> QED BY <2>2, <2>3
  <1>2. Asking(places) \subseteq Pingers
    BY DEF Asking
  <1> QED BY <1>1, <1>2, FS_Subset, FS_CardinalityType

LEMMA RangeAppend ==
    ASSUME NEW S, NEW s \in Seq(S), NEW x \in S
    PROVE  Range(Append(s, x)) = Range(s) \cup {x}
  <1>1. DOMAIN Append(s, x) = DOMAIN s \cup {Len(s) + 1}
    OBVIOUS
  <1>2. /\ \A i \in DOMAIN s : Append(s, x)[i] = s[i]
        /\ Append(s, x)[Len(s) + 1] = x
    OBVIOUS
  <1> QED BY <1>1, <1>2 DEF Range

\* Nobody takes the mutex or asks for a ping
Calm == \A u \in Users : at'[u] = at[u] \/ at'[u] \notin {"sending", "pinging", "closing", "ping"}

LEMMA CalmKeeps ==
    ASSUME ClosingInv, Calm
    PROVE  Mutex' /\ Cardinality(Asking(at')) <= Cardinality(Asking(at))
  <1>1. Mutex'
    BY PlacesAre DEF ClosingInv, Mutex, Calm
  <1>2. Asking(at') \subseteq Asking(at)
    BY DEF Asking, Calm, Users, Pingers
  <1>3. Cardinality(Asking(at')) <= Cardinality(Asking(at))
    BY <1>2, AskingFinite, FS_Subset
  <1> QED BY <1>1, <1>3

\* A step that sends nothing and takes nothing in.
LEMMA QuietKeeps ==
    ASSUME ClosingInv, Calm, UNCHANGED <<pinged, packets, closes, pings, waiter, proto>>,
           link' = "lost" => link = "lost" \/ \A p \in Pingers : waiter[p] # "pending"
    PROVE  Mutex' /\ OneCloser' /\ PingsCounted' /\ Registered'
  <1>1. Mutex' /\ PingsCounted'
    <2>1. Cardinality(Asking(at')) \in Nat /\ Cardinality(Asking(at)) \in Nat /\ pinged \in Nat /\ MaxPings \in Nat
      BY AskingFinite, ClosingAssumption DEF ClosingInv, ClosingData
    <2> QED BY <2>1, CalmKeeps DEF ClosingInv, PingsCounted, Calm
  <1>2. OneCloser'
    BY DEF ClosingInv, OneCloser, Owes, Calm
  <1>3. Registered'
    BY DEF ClosingInv, Registered
  <1> QED BY <1>1, <1>2, <1>3
-----------------------------------------------------------------------------
(* The actions *)

\* What the loop, the handler and the operator do when nothing is sent.
LEMMA QuietActions ==
    ASSUME ClosingInv,
           \/ Handshake101 \/ HandshakeRefused \/ HandlerReceives \/ HandlerGoesOn \/ (\E u \in Pingers : Pinged(u))
           \/ AutoWakes \/ AutoCloses \/ AutoEnds \/ AbortTimer \/ PeerReads \/ CancelWebsocketTasks \/ CloseIfIdle
    PROVE  ClosingInv'
  <1>1. CASE Handshake101
    <2> USE <1>1 DEF Handshake101, ConnectionMade, WriteFills, Goes
    <2>1. Calm /\ UNCHANGED <<pinged, packets, closes, pings, waiter, proto>>
      BY DEF Calm, Users, ClosingInv, ClosingData
    <2>2. ClosingData'
      BY PlacesAre DEF ClosingInv, ClosingData, Users, Pingers, Links
    <2>3. ClosingFlags'
      BY DEF ClosingInv, ClosingFlags
    <2>4. Unmade'
      BY DEF ClosingInv, ClosingData, Unmade, Users, Pingers
    <2>5. link' = "lost" => link = "lost" \/ \A p \in Pingers : waiter[p] # "pending"
      BY DEF ClosingInv, Unmade
    <2> QED BY <2>1, <2>2, <2>3, <2>4, <2>5, QuietKeeps DEF ClosingInv
  <1>2. CASE HandshakeRefused
    <2> USE <1>2 DEF HandshakeRefused, Goes
    <2>1. Calm /\ UNCHANGED <<pinged, packets, closes, pings, waiter, proto>>
      BY DEF Calm, Users, ClosingInv, ClosingData
    <2>2. ClosingData'
      BY PlacesAre DEF ClosingInv, ClosingData, Users, Pingers, Links
    <2>3. ClosingFlags'
      BY DEF ClosingInv, ClosingFlags
    <2>4. Unmade'
      BY DEF ClosingInv, ClosingData, Unmade, Users, Pingers
    <2>5. link' = "lost" => link = "lost" \/ \A p \in Pingers : waiter[p] # "pending"
      BY DEF ClosingInv, Unmade
    <2> QED BY <2>1, <2>2, <2>3, <2>4, <2>5, QuietKeeps DEF ClosingInv
  <1>3. CASE HandlerReceives
    <2> USE <1>3 DEF HandlerReceives, Goes
    <2>1. Calm /\ UNCHANGED <<pinged, packets, closes, pings, waiter, proto>>
      BY DEF Calm, Users, ClosingInv, ClosingData
    <2>2. ClosingData'
      BY PlacesAre DEF ClosingInv, ClosingData, Users, Pingers, Links
    <2>3. ClosingFlags'
      BY DEF ClosingInv, ClosingFlags
    <2>4. Unmade'
      BY DEF ClosingInv, ClosingData, Unmade, Users, Pingers
    <2>5. link' = "lost" => link = "lost" \/ \A p \in Pingers : waiter[p] # "pending"
      BY DEF ClosingInv, Unmade
    <2> QED BY <2>1, <2>2, <2>3, <2>4, <2>5, QuietKeeps DEF ClosingInv
  <1>4. CASE HandlerGoesOn
    <2> USE <1>4 DEF HandlerGoesOn, Goes
    <2>1. Calm /\ UNCHANGED <<pinged, packets, closes, pings, waiter, proto>>
      BY DEF Calm, Users, ClosingInv, ClosingData
    <2>2. ClosingData'
      BY PlacesAre DEF ClosingInv, ClosingData, Users, Pingers, Links
    <2>3. ClosingFlags'
      BY DEF ClosingInv, ClosingFlags
    <2>4. Unmade'
      BY DEF ClosingInv, ClosingData, Unmade, Users, Pingers
    <2>5. link' = "lost" => link = "lost" \/ \A p \in Pingers : waiter[p] # "pending"
      BY DEF ClosingInv, Unmade
    <2> QED BY <2>1, <2>2, <2>3, <2>4, <2>5, QuietKeeps DEF ClosingInv
  <1>5. CASE \E u \in Pingers : Pinged(u)
    <2> USE <1>5 DEF Pinged, Goes
    <2>1. Calm /\ UNCHANGED <<pinged, packets, closes, pings, waiter, proto>>
      BY DEF Calm, Users, ClosingInv, ClosingData
    <2>2. ClosingData'
      BY PlacesAre DEF ClosingInv, ClosingData, Users, Pingers, Links
    <2>3. ClosingFlags'
      BY DEF ClosingInv, ClosingFlags
    <2>4. Unmade'
      BY DEF ClosingInv, ClosingData, Unmade, Users, Pingers
    <2>5. link' = "lost" => link = "lost" \/ \A p \in Pingers : waiter[p] # "pending"
      BY DEF ClosingInv, Unmade
    <2> QED BY <2>1, <2>2, <2>3, <2>4, <2>5, QuietKeeps DEF ClosingInv
  <1>6. CASE AutoWakes
    <2> USE <1>6 DEF AutoWakes
    <2>1. Calm /\ UNCHANGED <<pinged, packets, closes, pings, waiter, proto>>
      BY DEF Calm, Users, ClosingInv, ClosingData
    <2>2. ClosingData'
      BY PlacesAre DEF ClosingInv, ClosingData, Users, Pingers, Links
    <2>3. ClosingFlags'
      BY DEF ClosingInv, ClosingFlags
    <2>4. Unmade'
      BY DEF ClosingInv, ClosingData, Unmade, Users, Pingers
    <2>5. link' = "lost" => link = "lost" \/ \A p \in Pingers : waiter[p] # "pending"
      BY DEF ClosingInv, Unmade
    <2> QED BY <2>1, <2>2, <2>3, <2>4, <2>5, QuietKeeps DEF ClosingInv
  <1>7. CASE AutoCloses
    <2> USE <1>7 DEF AutoCloses, Closed
    <2>1. Calm /\ UNCHANGED <<pinged, packets, closes, pings, waiter, proto>>
      BY DEF Calm, Users, ClosingInv, ClosingData
    <2>2. ClosingData'
      BY PlacesAre DEF ClosingInv, ClosingData, Users, Pingers, Links
    <2>3. ClosingFlags'
      BY DEF ClosingInv, ClosingFlags
    <2>4. Unmade'
      BY DEF ClosingInv, ClosingData, Unmade, Users, Pingers
    <2>5. link' = "lost" => link = "lost" \/ \A p \in Pingers : waiter[p] # "pending"
      BY DEF ClosingInv, Unmade
    <2> QED BY <2>1, <2>2, <2>3, <2>4, <2>5, QuietKeeps DEF ClosingInv
  <1>8. CASE AutoEnds
    <2> USE <1>8 DEF AutoEnds, WaitForConnectionLost
    <2>1. Calm /\ UNCHANGED <<pinged, packets, closes, pings, waiter, proto>>
      BY DEF Calm, Users, ClosingInv, ClosingData
    <2>2. ClosingData'
      BY PlacesAre DEF ClosingInv, ClosingData, Users, Pingers, Links
    <2>3. ClosingFlags'
      BY DEF ClosingInv, ClosingFlags
    <2>4. Unmade'
      BY DEF ClosingInv, ClosingData, Unmade, Users, Pingers
    <2>5. link' = "lost" => link = "lost" \/ \A p \in Pingers : waiter[p] # "pending"
      BY DEF ClosingInv, Unmade
    <2> QED BY <2>1, <2>2, <2>3, <2>4, <2>5, QuietKeeps DEF ClosingInv
  <1>9. CASE AbortTimer
    <2> USE <1>9 DEF AbortTimer
    <2>1. Calm /\ UNCHANGED <<pinged, packets, closes, pings, waiter, proto>>
      BY DEF Calm, Users, ClosingInv, ClosingData
    <2>2. ClosingData'
      BY PlacesAre DEF ClosingInv, ClosingData, Users, Pingers, Links
    <2>3. ClosingFlags'
      BY DEF ClosingInv, ClosingFlags
    <2>4. Unmade'
      BY DEF ClosingInv, ClosingData, Unmade, Users, Pingers
    <2>5. link' = "lost" => link = "lost" \/ \A p \in Pingers : waiter[p] # "pending"
      BY DEF ClosingInv, Unmade
    <2> QED BY <2>1, <2>2, <2>3, <2>4, <2>5, QuietKeeps DEF ClosingInv
  <1>10. CASE PeerReads
    <2> USE <1>10 DEF PeerReads
    <2>1. Calm /\ UNCHANGED <<pinged, packets, closes, pings, waiter, proto>>
      BY DEF Calm, Users, ClosingInv, ClosingData
    <2>2. ClosingData'
      BY PlacesAre DEF ClosingInv, ClosingData, Users, Pingers, Links
    <2>3. ClosingFlags'
      BY DEF ClosingInv, ClosingFlags
    <2>4. Unmade'
      BY DEF ClosingInv, ClosingData, Unmade, Users, Pingers
    <2>5. link' = "lost" => link = "lost" \/ \A p \in Pingers : waiter[p] # "pending"
      BY DEF ClosingInv, Unmade
    <2> QED BY <2>1, <2>2, <2>3, <2>4, <2>5, QuietKeeps DEF ClosingInv
  <1>11. CASE CancelWebsocketTasks
    <2> USE <1>11 DEF CancelWebsocketTasks, CancelHandler, Reaches, Stages
    <2>1. Calm /\ UNCHANGED <<pinged, packets, closes, pings, waiter, proto>>
      BY DEF Calm, Users, ClosingInv, ClosingData
    <2>2. ClosingData'
      BY PlacesAre DEF ClosingInv, ClosingData, Users, Pingers, Links
    <2>3. ClosingFlags'
      BY DEF ClosingInv, ClosingFlags
    <2>4. Unmade'
      BY DEF ClosingInv, ClosingData, Unmade, Users, Pingers
    <2>5. link' = "lost" => link = "lost" \/ \A p \in Pingers : waiter[p] # "pending"
      BY DEF ClosingInv, Unmade
    <2> QED BY <2>1, <2>2, <2>3, <2>4, <2>5, QuietKeeps DEF ClosingInv
  <1>12. CASE CloseIfIdle
    <2> USE <1>12 DEF CloseIfIdle, Goes, Reaches, Stages
    <2>1. Calm /\ UNCHANGED <<pinged, packets, closes, pings, waiter, proto>>
      BY DEF Calm, Users, ClosingInv, ClosingData
    <2>2. ClosingData'
      BY PlacesAre DEF ClosingInv, ClosingData, Users, Pingers, Links
    <2>3. ClosingFlags'
      BY DEF ClosingInv, ClosingFlags
    <2>4. Unmade'
      BY DEF ClosingInv, ClosingData, Unmade, Users, Pingers
    <2>5. link' = "lost" => link = "lost" \/ \A p \in Pingers : waiter[p] # "pending"
      BY DEF ClosingInv, Unmade
    <2> QED BY <2>1, <2>2, <2>3, <2>4, <2>5, QuietKeeps DEF ClosingInv
  <1> QED BY <1>1, <1>2, <1>3, <1>4, <1>5, <1>6, <1>7, <1>8, <1>9, <1>10, <1>11, <1>12

\* fail_connection and end_connection: a CLOSE frame is written past the mutex only in the
\* state OPEN, in which nobody else is about to.
LEMMA EndKeeps ==
    ASSUME ClosingInv, NEW a \in [Users -> Places], EndConnection(a), auto # "none",
           \A u \in Users : a[u] = at[u] \/ a[u] \in {"leaving", "end"},
           UNCHANGED <<blocked, cancelled, auto, packets, peer_closed, pings, waiter, pinged, got>>,
           stopping' \in {"no", "cancelled", "idle", "forced"}
    PROVE  ClosingInv'
  <1> USE DEF EndConnection, ForceDisconnect, Closed
  <1>1. Calm
    BY DEF Calm, Users
  <1>2. Mutex' /\ PingsCounted'
    <2>1. Cardinality(Asking(at')) \in Nat /\ Cardinality(Asking(at)) \in Nat /\ pinged \in Nat /\ MaxPings \in Nat
      BY AskingFinite, ClosingAssumption DEF ClosingInv, ClosingData
    <2> QED BY <1>1, <2>1, CalmKeeps DEF ClosingInv, PingsCounted, Calm
  <1>3. OneCloser'
    <2>1. proto = "OPEN" => closes = 0 /\ (\A u \in Users : at[u] # "closing") /\ \A i \in DOMAIN packets : ~Owes(i)
      BY DEF ClosingInv, OneCloser
    <2>2. CASE proto = "OPEN"
      BY <1>1, <2>1, <2>2 DEF OneCloser, Owes, Calm, ClosingInv, ClosingData
    <2>3. CASE proto # "OPEN"
      BY <1>1, <2>3 DEF OneCloser, Owes, Calm, ClosingInv, ClosingData
    <2> QED BY <2>2, <2>3
  <1>4. ClosingData'
    BY PlacesAre DEF ClosingInv, ClosingData, Users, Links, Writable
  <1>5. ClosingFlags'
    BY DEF ClosingInv, ClosingFlags
  <1>6. link \in Links \ {"http"}
    BY DEF ClosingInv, ClosingData, Unmade
  <1>7. link' # "http" /\ (link' = "lost" => link = "lost")
    BY <1>6
  <1>8. Registered'
    BY <1>7 DEF ClosingInv, Registered
  <1>9. proto' = "CLOSED" <=> proto = "CLOSED"
    BY DEF ClosingInv, ClosingData
  <1>10. aborting' => link' \in {"closing", "aborted", "lost"}
    BY <1>6 DEF ClosingInv, Unmade, Links
  <1>11. Unmade'
    BY <1>7, <1>9, <1>10 DEF ClosingInv, Unmade
  <1> QED BY <1>2, <1>3, <1>4, <1>5, <1>8, <1>11 DEF ClosingInv

LEMMA EndActions ==
    ASSUME ClosingInv, PingTimesOut \/ HandlerOver \/ TaskLeaves \/ FailConnection
    PROVE  ClosingInv'
  <1> USE DEF ClosingInv, ClosingData
  <1>1. CASE PingTimesOut
    <2>1. auto # "none"
      BY <1>1 DEF PingTimesOut, Unmade, Pingers
    <2> DEFINE a == [at EXCEPT !["keepalive"] = "end"]
    <2>2. a \in [Users -> Places] /\ \A u \in Users : a[u] = at[u] \/ a[u] \in {"leaving", "end"}
      BY PlacesAre DEF Users
    <2>3. EndConnection(a) /\ UNCHANGED <<blocked, cancelled, auto, packets, peer_closed, pings, waiter, pinged, got, stopping>>
      BY <1>1 DEF PingTimesOut
    <2> HIDE DEF a
    <2> QED BY <2>1, <2>2, <2>3, EndKeeps
  <1>2. CASE HandlerOver /\ cancelled
    <2>1. auto # "none"
      BY <1>2 DEF HandlerOver, Unmade, Users
    <2> DEFINE a == [at EXCEPT !["task"] = "leaving"]
    <2>2. a \in [Users -> Places] /\ \A u \in Users : a[u] = at[u] \/ a[u] \in {"leaving", "end"}
      BY PlacesAre DEF Users
    <2>3. EndConnection(a) /\ UNCHANGED <<blocked, cancelled, auto, packets, peer_closed, pings, waiter, pinged, got, stopping>>
      BY <1>2 DEF HandlerOver
    <2> HIDE DEF a
    <2> QED BY <2>1, <2>2, <2>3, EndKeeps
  <1>3. CASE HandlerOver /\ ~cancelled
    <2> USE <1>3 DEF HandlerOver, Call, Goes
    <2>1. Calm /\ UNCHANGED <<pinged, packets, closes, pings, waiter, proto, link>>
      BY DEF Calm, Users
    <2>2. ClosingData'
      BY PlacesAre DEF Users
    <2>3. ClosingFlags' /\ Unmade'
      BY DEF ClosingFlags, Unmade, Users
    <2> QED BY <2>1, <2>2, <2>3, QuietKeeps
  <1>4. CASE TaskLeaves
    <2>1. auto # "none"
      BY <1>4 DEF TaskLeaves, Unmade
    <2> DEFINE a == [at EXCEPT !["task"] = "end"]
    <2>2. a \in [Users -> Places] /\ \A u \in Users : a[u] = at[u] \/ a[u] \in {"leaving", "end"}
      BY PlacesAre DEF Users
    <2>3. EndConnection(a) /\ UNCHANGED <<blocked, cancelled, auto, packets, peer_closed, pings, waiter, pinged, got, stopping>>
      BY <1>4 DEF TaskLeaves
    <2> HIDE DEF a
    <2> QED BY <2>1, <2>2, <2>3, EndKeeps
  <1>5. CASE FailConnection
    <2>1. auto # "none"
      BY <1>5 DEF FailConnection, Unmade, Reaches
    <2>2. stopping' \in {"no", "cancelled", "idle", "forced"}
      BY <1>5 DEF FailConnection, Reaches
    <2>3. EndConnection(at) /\ UNCHANGED <<blocked, cancelled, auto, packets, peer_closed, pings, waiter, pinged, got>>
      BY <1>5 DEF FailConnection
    <2> QED BY <2>1, <2>2, <2>3, EndKeeps
  <1> QED BY <1>1, <1>2, <1>3, <1>4, <1>5

\* send(), ping() and close() are called.
LEMMA CallKeeps ==
    ASSUME ClosingInv, NEW u \in Users, NEW what \in {"send", "ping", "close"}, Call(u, what),
           at[u] = "idle", auto # "none", what = "ping" => u \in Pingers /\ PingsLeft
    PROVE  ClosingInv'
  <1> USE DEF Call, Goes
  <1>1. ClosingData' /\ Unmade'
    BY PlacesAre DEF ClosingInv, ClosingData, Unmade, Users, Pingers
  <1>2. ClosingFlags'
    BY DEF ClosingInv, ClosingFlags
  <1>3. Mutex' /\ OneCloser' /\ Registered'
    BY PlacesAre DEF ClosingInv, ClosingData, Mutex, OneCloser, Owes, Registered
  <1>4. PingsCounted'
    <2>1. /\ Cardinality(Asking(at')) \in Nat /\ Cardinality(Asking(at)) \in Nat /\ pinged \in Nat /\ MaxPings \in Nat
          /\ IsFiniteSet(Asking(at))
      BY AskingFinite, ClosingAssumption DEF ClosingInv, ClosingData
    <2>2. CASE what = "ping"
      <3>1. Asking(at') = Asking(at) \cup {u} /\ u \notin Asking(at)
        BY <2>2 DEF Asking, Pingers, Users, ClosingInv, ClosingData
      <3>2. Cardinality(Asking(at')) = Cardinality(Asking(at)) + 1
        BY <2>1, <3>1, FS_AddElement
      <3>3. pinged + Cardinality(Asking(at)) < MaxPings
        BY <2>2 DEF PingsLeft, Asking
      <3>4. \A v \in Users : at'[v] = "ping" => v \in Pingers
        BY <2>2 DEF ClosingInv, ClosingData, PingsCounted
      <3> QED BY <2>1, <3>2, <3>3, <3>4 DEF PingsCounted
    <2>3. CASE what # "ping"
      <3>1. Calm
        BY <2>3 DEF Calm, ClosingInv, ClosingData
      <3> QED BY <2>1, <3>1, CalmKeeps DEF ClosingInv, PingsCounted, Calm
    <2> QED BY <2>2, <2>3
  <1> QED BY <1>1, <1>2, <1>3, <1>4 DEF ClosingInv

LEMMA CallActions ==
    ASSUME ClosingInv, HandlerCalls \/ KeepaliveCalls
    PROVE  ClosingInv'
  <1>1. auto # "none"
    BY DEF HandlerCalls, KeepaliveCalls, ClosingInv, Unmade, Users
  <1>2. CASE HandlerCalls
    <2>1. PICK what \in {"send", "ping", "close"} : Call("handler", what) /\ (what = "ping" => PingsLeft)
      BY <1>2 DEF HandlerCalls
    <2>2. at["handler"] = "idle" /\ "handler" \in Users /\ "handler" \in Pingers
      BY <1>2 DEF HandlerCalls, Users, Pingers
    <2> QED BY <1>1, <2>1, <2>2, CallKeeps
  <1>3. CASE KeepaliveCalls
    <2>1. at["keepalive"] = "idle" /\ "keepalive" \in Users /\ "keepalive" \in Pingers
      BY <1>3 DEF KeepaliveCalls, Users, Pingers
    <2> QED BY <1>1, <1>3, <2>1, CallKeeps DEF KeepaliveCalls
  <1> QED BY <1>2, <1>3

\* The mutex is taken: from the state OPEN a close() leads to CLOSING at once, a ping() to
\* one more ping in self.pings.
LEMMA AcquireKeeps ==
    ASSUME ClosingInv, NEW u \in Users, Acquire(u)
    PROVE  ClosingInv'
  <1> USE DEF Acquire, Goes
  <1>1. /\ auto # "none" /\ at[u] \in {"send", "ping", "close"}
        /\ After(u) \in {"idle", "leaving", "end"}
    BY PlacesAre DEF ClosingInv, Unmade, After, Users
  <1>2. ClosingFlags'
    BY DEF ClosingInv, ClosingFlags
  <1>3. CASE ~Open(u)
    <2>1. Calm /\ UNCHANGED <<pinged, packets, closes, pings, waiter, proto, link>>
      BY <1>1, <1>3 DEF Calm, ClosingInv, ClosingData
    <2>2. ClosingData'
      BY <1>1, <1>3, PlacesAre DEF ClosingInv, ClosingData
    <2>3. Unmade'
      BY <1>1, <2>1 DEF ClosingInv, Unmade
    <2> QED BY <1>2, <2>1, <2>2, <2>3, QuietKeeps DEF ClosingInv
  <1>4. CASE Open(u)
    <2>1. /\ proto = "OPEN" /\ closes = 0 /\ \A i \in DOMAIN packets : ~Owes(i)
          /\ link # "lost"
      BY <1>1, <1>4 DEF Open, ClosingInv, OneCloser, Unmade
    <2>2. /\ at' = [at EXCEPT ![u] = Writing[at[u]]]
          /\ Writing[at[u]] \in {"sending", "pinging", "closing"}
          /\ Writing[at[u]] = "closing" <=> at[u] = "close"
      BY <1>1, <1>4, PlacesAre
    <2>3. \A v \in Users : at[v] \notin Locked /\ at[v] # "closing"
      BY PlacesAre DEF MutexFree
    <2>4. Mutex'
      BY <2>2, <2>3 DEF Mutex, ClosingInv, ClosingData
    <2>5. OneCloser'
      BY <1>4, <2>1, <2>2, <2>3 DEF OneCloser, Owes, ClosingInv, ClosingData
    <2>6. Unmade'
      BY <1>1, <2>1 DEF ClosingInv, Unmade
    <2>7. at[u] = "ping" => u \in Pingers
      BY DEF ClosingInv, PingsCounted
    <2>8. at' \in [Users -> Places] /\ proto' \in {"OPEN", "CLOSING", "CLOSED"}
      BY <2>1, <2>2, PlacesAre DEF ClosingInv, ClosingData
    <2>9. CASE at[u] # "ping"
      <3>1. UNCHANGED <<pings, waiter, pinged>>
        BY <2>9
      <3>2. ClosingData' /\ Registered'
        BY <2>8, <3>1 DEF ClosingInv, ClosingData, Registered
      <3>3. Asking(at') = Asking(at) /\ \A v \in Users : at'[v] = "ping" => at[v] = "ping"
        BY <2>2, <2>9 DEF Asking, ClosingInv, ClosingData, Users, Pingers
      <3>4. PingsCounted'
        BY <3>1, <3>3 DEF ClosingInv, PingsCounted
      <3> QED BY <1>2, <2>4, <2>5, <2>6, <3>2, <3>4 DEF ClosingInv
    <2>10. CASE at[u] = "ping"
      <3>1. /\ pings' = Append(pings, u) /\ waiter' = [waiter EXCEPT ![u] = "pending"]
            /\ pinged' = pinged + 1 /\ u \in Pingers
        BY <1>4, <2>7, <2>10 DEF NewPing
      <3>2. pings' \in Seq(Pingers) /\ waiter' \in [Pingers -> {"none", "pending", "acked", "failed"}] /\ pinged' \in Nat
        BY <3>1 DEF ClosingInv, ClosingData
      <3>3. ClosingData'
        BY <2>8, <3>2 DEF ClosingInv, ClosingData
      <3>4. Range(pings') = Range(pings) \cup {u}
        BY <3>1, RangeAppend DEF ClosingInv, ClosingData
      <3>5. Registered'
        BY <2>1, <3>1, <3>4 DEF ClosingInv, ClosingData, Registered
      <3>6. Asking(at') = Asking(at) \ {u} /\ u \in Asking(at)
        BY <2>2, <2>10, <3>1 DEF Asking, ClosingInv, ClosingData, Users, Pingers
      <3>7. Cardinality(Asking(at')) = Cardinality(Asking(at)) - 1
        <4>1. IsFiniteSet(Asking(at))
          BY AskingFinite
        <4> QED BY <3>6, <4>1, FS_RemoveElement
      <3>8. \A v \in Users : at'[v] = "ping" => at[v] = "ping"
        BY <2>2 DEF ClosingInv, ClosingData
      <3>9. PingsCounted'
        BY <3>1, <3>7, <3>8, AskingFinite, ClosingAssumption DEF ClosingInv, ClosingData, PingsCounted
      <3> QED BY <1>2, <2>4, <2>5, <2>6, <3>3, <3>5, <3>9 DEF ClosingInv
    <2> QED BY <2>9, <2>10
  <1> QED BY <1>3, <1>4

\* The first write of a call: the holder of the mutex is alone in it.
LEMMA CanWriteKeeps ==
    ASSUME ClosingInv, NEW u \in Users, CanWrite(u)
    PROVE  ClosingInv'
  <1> USE DEF CanWrite, Goes
  <1>1. /\ auto # "none" /\ at[u] \in {"sending", "pinging", "closing"}
        /\ After(u) \in {"idle", "leaving", "end"}
    BY PlacesAre DEF ClosingInv, Unmade, After, Users
  <1>2. PICK place \in {"idle", "leaving", "end", "wait"} : at' = [at EXCEPT ![u] = place]
    BY <1>1
  <1>3. Calm
    BY <1>2 DEF Calm, ClosingInv, ClosingData
  <1>4. ClosingFlags'
    BY DEF ClosingInv, ClosingFlags, WriteFills
  <1>5. ClosingData'
    BY <1>2, PlacesAre DEF ClosingInv, ClosingData
  <1>6. Unmade'
    BY <1>1 DEF ClosingInv, Unmade
  <1>7. CASE closes' = closes
    BY <1>3, <1>4, <1>5, <1>6, <1>7, QuietKeeps DEF ClosingInv
  <1>8. CASE closes' # closes
    <2>1. at[u] = "closing" /\ closes' = closes + 1
      BY <1>8
    <2>2. closes' = 1 /\ proto' # "OPEN" /\ \A i \in DOMAIN packets : ~Owes(i)
      BY <2>1 DEF ClosingInv, OneCloser
    <2>3. \A v \in Users : at'[v] # "closing"
      BY <1>1, <1>2, PlacesAre DEF ClosingInv, ClosingData, Mutex
    <2>4. OneCloser'
      BY <2>2, <2>3 DEF OneCloser, Owes
    <2>5. Registered' /\ Mutex'
      BY <1>3, CalmKeeps DEF ClosingInv, Registered
    <2>6. PingsCounted'
      BY <1>3, CalmKeeps, AskingFinite, ClosingAssumption DEF ClosingInv, ClosingData, PingsCounted, Calm
    <2> QED BY <1>4, <1>5, <1>6, <2>4, <2>5, <2>6 DEF ClosingInv
  <1> QED BY <1>7, <1>8
-----------------------------------------------------------------------------
(* Packets *)

\* Nobody is about to write a CLOSE who was not before: every packet is one that was there,
\* under the number `was' gives it, with no more to send.
LEMMA OwesLess ==
    ASSUME ClosingInv, Calm, closes' = closes, proto' = "OPEN" => proto = "OPEN",
           NEW was, \A j \in DOMAIN packets' : was[j] \in DOMAIN packets,
           \A j, k \in DOMAIN packets' : was[j] = was[k] => j = k,
           \A j \in DOMAIN packets' : packets'[j].send = Closing => packets[was[j]].send = Closing
    PROVE  OneCloser'
  <1>1. \A v \in Users : at'[v] = "closing" => at[v] = "closing"
    BY DEF Calm
  <1>2. closes' <= 1 /\ (proto' = "OPEN" => closes' = 0)
    BY DEF ClosingInv, OneCloser
  <1>3. \A v \in Users : at'[v] = "closing" => proto' # "OPEN" /\ closes' = 0
    BY <1>1 DEF ClosingInv, OneCloser
  <1>4. ASSUME NEW i \in DOMAIN packets', packets'[i].send = Closing
        PROVE  /\ proto' # "OPEN" /\ closes' = 0
               /\ \A v \in Users : at'[v] # "closing"
               /\ \A j \in DOMAIN packets' : packets'[j].send = Closing => j = i
    <2>1. was[i] \in DOMAIN packets /\ Owes(was[i])
      BY <1>4 DEF Owes
    <2>2. /\ proto # "OPEN" /\ closes = 0 /\ (\A v \in Users : at[v] # "closing")
          /\ \A j \in DOMAIN packets : Owes(j) => j = was[i]
      BY <2>1 DEF ClosingInv, OneCloser
    <2>3. ASSUME NEW j \in DOMAIN packets', packets'[j].send = Closing PROVE j = i
      <3>1. was[j] \in DOMAIN packets /\ Owes(was[j])
        BY <2>3 DEF Owes
      <3> QED BY <2>2, <3>1
    <2> QED BY <1>1, <2>2, <2>3
  <1> QED BY <1>2, <1>3, <1>4 DEF OneCloser, Owes

\* A packet arrives; data_received has answered a CLOSE by going to the state CLOSING.
LEMMA ArrivesKeeps ==
    ASSUME ClosingInv, NEW send \in Sends, NEW event \in Pingers \cup {"close", "none"}, NEW eof \in BOOLEAN,
           Arrives(send, event, eof), link' \in {link, "closing"},
           proto' \in {proto, "CLOSING", "CLOSED"}, got' \in 0..MaxPackets, peer_closed' \in BOOLEAN,
           proto' = "OPEN" => proto = "OPEN", proto' # "CLOSED" => proto # "CLOSED",
           send = Closing => proto = "OPEN" /\ proto' # "OPEN",
           proto = "CLOSED" => proto' = "CLOSED"
    PROVE  ClosingInv'
  <1> USE DEF Arrives
  <1> DEFINE new == [send |-> send, event |-> event, begun |-> FALSE, eof |-> eof]
  <1>1. new \in Parcel /\ new.send = send
    BY DEF Parcel
  <1>2. packets' = Append(packets, new) /\ packets \in Seq(Parcel)
    BY DEF ClosingInv, ClosingData
  <1> HIDE DEF new
  <1>3. /\ packets' \in Seq(Parcel) /\ DOMAIN packets' = DOMAIN packets \cup {Len(packets) + 1}
        /\ packets'[Len(packets) + 1] = new /\ Len(packets) + 1 \notin DOMAIN packets
        /\ \A j \in DOMAIN packets : packets'[j] = packets[j]
    BY <1>1, <1>2
  <1>4. auto # "none" /\ link \in {"open", "eof"}
    BY DEF ClosingInv, Unmade
  <1>5. Calm
    BY DEF Calm
  <1>6. ClosingData'
    BY <1>3 DEF ClosingInv, ClosingData, Links
  <1>7. ClosingFlags'
    BY DEF ClosingInv, ClosingFlags
  <1>8. Unmade'
    BY <1>4 DEF ClosingInv, Unmade
  <1>9. Registered' /\ Mutex' /\ PingsCounted'
    BY <1>4 DEF ClosingInv, Registered, Mutex, PingsCounted, Asking
  <1>10. OneCloser'
    <2>1. CASE send = Closing
      <3>1. /\ proto = "OPEN" /\ closes' = 0 /\ (\A v \in Users : at'[v] # "closing")
            /\ \A i \in DOMAIN packets : packets[i].send # Closing
        BY <2>1 DEF ClosingInv, OneCloser, Owes
      <3>2. \A j \in DOMAIN packets' : packets'[j].send = Closing => j = Len(packets) + 1
        BY <1>3, <3>1
      <3>3. proto' # "OPEN"
        BY <2>1
      <3> QED BY <3>1, <3>2, <3>3 DEF OneCloser, Owes
    <2>2. CASE send # Closing
      <3>1. \A j \in DOMAIN packets' : packets'[j].send = Closing => j \in DOMAIN packets /\ packets[j].send = Closing
        BY <1>1, <1>3, <2>2
      <3> QED BY <3>1 DEF ClosingInv, OneCloser, Owes
    <2> QED BY <2>1, <2>2
  <1> QED BY <1>6, <1>7, <1>8, <1>9, <1>10 DEF ClosingInv

LEMMA FrameIs ==
    ASSUME ClosingInv, NEW send, NEW event, Frame(send, event)
    PROVE  Arrives(send, event, FALSE) /\ link' = link /\ got' \in 0..MaxPackets
  <1>1. got \in 0..MaxPackets /\ MaxPackets \in Nat
    BY ClosingAssumption DEF ClosingInv, ClosingData
  <1>2. got < MaxPackets /\ got' = got + 1 /\ Arrives(send, event, FALSE) /\ link' = link
    BY DEF Frame
  <1>3. got' \in 0..MaxPackets
    BY <1>1, <1>2
  <1> QED BY <1>2, <1>3

LEMMA PeerActions ==
    ASSUME ClosingInv, PeerPings \/ PeerPongs \/ PeerCloses \/ PeerEof
    PROVE  ClosingInv'
  <1> USE DEF Sends
  <1>1. /\ proto \in {"OPEN", "CLOSING", "CLOSED"} /\ got \in 0..MaxPackets /\ MaxPackets \in Nat
        /\ peer_closed \in BOOLEAN
    BY ClosingAssumption DEF ClosingInv, ClosingData, ClosingFlags
  <1>2. Closing # <<>> /\ Closing # <<"pong">> /\ Closing # <<"eof">>
    BY DEF Closing
  <1>3. CASE PeerPings
    <2>1. /\ Arrives(<<"pong">>, "none", FALSE) /\ link' = link /\ proto' = proto /\ got' \in 0..MaxPackets
          /\ peer_closed' \in BOOLEAN
      BY <1>1, <1>3, FrameIs DEF PeerPings
    <2> QED BY <1>1, <1>2, <2>1, ArrivesKeeps
  <1>4. CASE PeerPongs
    <2>1. PICK i \in DOMAIN pings : Frame(<<>>, pings[i])
      BY <1>4 DEF PeerPongs
    <2>2. pings[i] \in Pingers
      BY DEF ClosingInv, ClosingData
    <2>3. /\ Arrives(<<>>, pings[i], FALSE) /\ link' = link /\ proto' = proto /\ got' \in 0..MaxPackets
          /\ peer_closed' \in BOOLEAN
      BY <1>1, <1>4, <2>1, FrameIs DEF PeerPongs
    <2> QED BY <1>1, <1>2, <2>2, <2>3, ArrivesKeeps
  <1>5. CASE PeerCloses
    <2>1. /\ Arrives(Echo, "close", FALSE) /\ link' = link /\ got' \in 0..MaxPackets
          /\ peer_closed' \in BOOLEAN /\ proto' = IF proto = "OPEN" THEN "CLOSING" ELSE proto
      BY <1>1, <1>5, FrameIs DEF PeerCloses
    <2>2. Echo \in Sends /\ (Echo = Closing <=> proto = "OPEN")
      BY <1>2 DEF Echo, Closing
    <2> HIDE DEF Sends
    <2> QED BY <1>1, <2>1, <2>2, ArrivesKeeps
  <1>6. CASE PeerEof
    <2>1. /\ Arrives(<<"eof">>, "none", TRUE) /\ link' = "closing" /\ proto' = "CLOSED" /\ got' \in 0..MaxPackets
          /\ peer_closed' \in BOOLEAN
      BY <1>1, <1>6 DEF PeerEof
    <2> QED BY <1>1, <1>2, <2>1, ArrivesKeeps
  <1> QED BY <1>3, <1>4, <1>5, <1>6

\* connection_lost: every ping still waiting is one of self.pings, and fails.
LEMMA LostKeeps ==
    ASSUME ClosingInv, TransportLost \/ PeerVanishes
    PROVE  ClosingInv'
  <1>1. Lost(Range(pings)) /\ auto # "none"
    BY DEF TransportLost, PeerVanishes, ClosingInv, Unmade
  <1> USE <1>1 DEF Lost
  <1>2. Calm /\ at' \in [Users -> Places]
    BY PlacesAre DEF Calm, CancelHandler, ClosingInv, ClosingData, Users
  <1>3. waiter' \in [Pingers -> {"none", "pending", "acked", "failed"}] /\ \A p \in Pingers : waiter'[p] # "pending"
    BY DEF AbortPings, ClosingInv, ClosingData, Registered
  <1>4. ClosingData'
    BY <1>2, <1>3 DEF ClosingInv, ClosingData, Links
  <1>5. ClosingFlags'
    BY DEF ClosingInv, ClosingFlags
  <1>6. Mutex' /\ PingsCounted'
    BY <1>2, CalmKeeps, AskingFinite, ClosingAssumption DEF ClosingInv, ClosingData, PingsCounted, Calm
  <1>7. OneCloser'
    BY <1>2, OwesLess, \A j \in DOMAIN packets : [k \in DOMAIN packets |-> k][j] = j
  <1>8. Registered' /\ Unmade'
    BY <1>3 DEF Registered, Unmade
  <1> QED BY <1>4, <1>5, <1>6, <1>7, <1>8 DEF ClosingInv

\* What the end of the stream does besides the packet.
LEMMA EndOfStreamIs ==
    ASSUME ClosingInv, EndOfStream \/ UNCHANGED <<link, data_fut, aborting>>
    PROVE  /\ link' \in Links /\ data_fut' \in {"none", "pending", "result", "cancelled"} /\ aborting' \in BOOLEAN
           /\ (link' = "lost" <=> link = "lost") /\ (link' = "http" <=> link = "http")
           /\ aborting' => link' \in {"closing", "aborted", "lost"}
  <1> USE DEF ClosingInv, ClosingData, Unmade, Links
  <1>1. CASE UNCHANGED <<link, data_fut, aborting>>
    BY <1>1 DEF ClosingFlags
  <1>2. CASE EndOfStream /\ UNCHANGED <<link, aborting>> /\ data_fut' = "result"
    BY <1>2 DEF ClosingFlags
  <1>3. CASE /\ link' = Closed(link) /\ aborting' = (aborting \/ link \in {"open", "eof"})
             /\ UNCHANGED data_fut
    <2>1. link' \in Links /\ (link' = "lost" <=> link = "lost") /\ (link' = "http" <=> link = "http")
      BY <1>3 DEF Closed
    <2>2. aborting' => link' \in {"closing", "aborted", "lost"}
      BY <1>3 DEF Closed
    <2>3. aborting' \in BOOLEAN
      BY <1>3 DEF ClosingFlags
    <2> QED BY <1>3, <2>1, <2>2, <2>3
  <1> QED BY <1>1, <1>2, <1>3 DEF EndOfStream

LEMMA TailIs ==
    ASSUME NEW send \in Sends, send # <<>>
    PROVE  Tail(send) \in Sends /\ Tail(send) # Closing /\ (send[1] = "close" <=> send = Closing)
  <1>1. /\ Tail(<<"pong">>) = <<>> /\ Tail(<<"eof">>) = <<>> /\ Tail(Closing) = <<"eof">>
        /\ Closing[1] = "close" /\ <<"pong">>[1] = "pong" /\ <<"eof">>[1] = "eof"
    BY DEF Closing
  <1>2. Closing # <<>> /\ Closing # <<"pong">> /\ Closing # <<"eof">>
    BY DEF Closing
  <1> QED BY <1>1, <1>2 DEF Sends

\* The packet goes: those after it move up by one.
LEMMA Removed ==
    ASSUME NEW S, NEW s \in Seq(S), NEW i \in DOMAIN s
    PROVE  /\ RemoveAt(s, i) \in Seq(S)
           /\ DOMAIN RemoveAt(s, i) = 1..(Len(s) - 1)
           /\ \A j \in 1..(Len(s) - 1) : RemoveAt(s, i)[j] = s[IF j < i THEN j ELSE j + 1]
  <1> DEFINE a == SubSeq(s, 1, i - 1)
             b == SubSeq(s, i + 1, Len(s))
  <1>0. i \in 1..Len(s) /\ Len(s) \in Nat
    OBVIOUS
  <1>1. a \in Seq(S) /\ Len(a) = i - 1 /\ \A j \in 1..(i - 1) : a[j] = s[j]
    BY <1>0, SubSeqProperties
  <1>2. b \in Seq(S) /\ Len(b) = Len(s) - i /\ \A j \in 1..(Len(s) - i) : b[j] = s[i + j]
    BY <1>0, SubSeqProperties
  <1>3. RemoveAt(s, i) = a \o b
    BY DEF RemoveAt
  <1> HIDE DEF a, b
  <1>4. a \o b \in Seq(S) /\ Len(a \o b) = Len(s) - 1
    BY <1>0, <1>1, <1>2, ConcatProperties
  <1>5. ASSUME NEW j \in 1..(Len(s) - 1) PROVE (a \o b)[j] = s[IF j < i THEN j ELSE j + 1]
    <2>1. CASE j < i
      BY <1>0, <1>1, <1>2, <2>1, ConcatProperties
    <2>2. CASE ~(j < i)
      <3>1. (a \o b)[j] = b[j - (i - 1)]
        <4>1. j \in 1..(Len(a) + Len(b)) /\ ~(j <= Len(a))
          BY <1>0, <1>1, <1>2, <2>2
        <4>2. a \in Seq(S) /\ b \in Seq(S)
          BY <1>1, <1>2
        <4>3. (a \o b)[j] = IF j <= Len(a) THEN a[j] ELSE b[j - Len(a)]
          BY <4>1, <4>2, ConcatProperties
        <4> QED BY <1>1, <4>1, <4>3
      <3>2. b[j - (i - 1)] = s[i + (j - (i - 1))]
        <4>1. j - (i - 1) \in 1..(Len(s) - i)
          BY <1>0, <2>2
        <4> QED BY <1>2, <4>1
      <3>3. i + (j - (i - 1)) = j + 1
        BY <1>0
      <3> QED BY <2>2, <3>1, <3>2, <3>3
    <2> QED BY <2>1, <2>2
  <1>6. DOMAIN (a \o b) = 1..(Len(s) - 1)
    BY <1>0, <1>4
  <1> QED BY <1>3, <1>4, <1>5, <1>6

\* A pong settles the pings up to its own: the others stay registered.
LEMMA AckedKeeps ==
    ASSUME NEW owner, Acked(owner), pings \in Seq(Pingers),
           waiter \in [Pingers -> {"none", "pending", "acked", "failed"}]
    PROVE  /\ pings' \in Seq(Pingers) /\ waiter' \in [Pingers -> {"none", "pending", "acked", "failed"}]
           /\ \A p \in Pingers : waiter'[p] = "pending" => waiter[p] = "pending"
           /\ \A p \in Pingers : waiter'[p] = "pending" /\ p \in Range(pings) => p \in Range(pings')
  <1> DEFINE i == IF owner \in Range(pings) THEN CHOOSE j \in DOMAIN pings : pings[j] = owner ELSE 0
             old == SubSeq(pings, 1, i)
  <1>1. i \in 0..Len(pings) /\ Len(pings) \in Nat
    <2>1. owner \in Range(pings) => \E j \in DOMAIN pings : pings[j] = owner
      BY DEF Range
    <2>2. owner \in Range(pings) => (CHOOSE j \in DOMAIN pings : pings[j] = owner) \in DOMAIN pings
      BY <2>1
    <2> QED BY <2>2
  <1>2. /\ pings' = SubSeq(pings, i + 1, Len(pings))
        /\ waiter' = [p \in Pingers |-> IF p \in Range(old) /\ waiter[p] = "pending" THEN "acked" ELSE waiter[p]]
    BY DEF Acked
  <1> HIDE DEF i
  <1>3. old \in Seq(Pingers) /\ Len(old) = i /\ \A j \in 1..i : old[j] = pings[j]
    BY <1>1, SubSeqProperties
  <1>4. pings' \in Seq(Pingers) /\ Len(pings') = Len(pings) - i /\ \A j \in 1..(Len(pings) - i) : pings'[j] = pings[i + j]
    BY <1>1, <1>2, SubSeqProperties
  <1> HIDE DEF old
  <1>5. waiter' \in [Pingers -> {"none", "pending", "acked", "failed"}]
    BY <1>2
  <1>6. ASSUME NEW p \in Pingers, waiter'[p] = "pending"
        PROVE waiter[p] = "pending" /\ p \notin Range(old)
    BY <1>2, <1>6
  <1>7. ASSUME NEW p \in Pingers, p \in Range(pings), p \notin Range(old) PROVE p \in Range(pings')
    <2>1. PICK k \in 1..Len(pings) : pings[k] = p
      BY <1>7 DEF Range
    <2>2. ~(k <= i)
      BY <1>1, <1>3, <1>7, <2>1 DEF Range
    <2>3. k - i \in 1..(Len(pings) - i) /\ i + (k - i) = k
      BY <1>1, <2>2
    <2>4. pings'[k - i] = p /\ k - i \in DOMAIN pings'
      BY <1>1, <1>4, <2>1, <2>3
    <2> QED BY <2>4 DEF Range
  <1> QED BY <1>4, <1>5, <1>6, <1>7

\* A packet that is written over by one with less to send, or removed.
LEMMA PacketChanged ==
    ASSUME ClosingInv, Calm, closes' = closes, proto' = proto, NEW i \in DOMAIN packets,
           NEW q \in Parcel, q.send = Closing => packets[i].send = Closing,
           packets' = [packets EXCEPT ![i] = q] \/ packets' = RemoveAt(packets, i)
    PROVE  packets' \in Seq(Parcel) /\ OneCloser'
  <1>1. packets \in Seq(Parcel)
    BY DEF ClosingInv, ClosingData
  <1>2. CASE packets' = [packets EXCEPT ![i] = q]
    <2>1. /\ packets' \in Seq(Parcel) /\ DOMAIN packets' = DOMAIN packets
          /\ packets'[i] = q /\ \A j \in DOMAIN packets \ {i} : packets'[j] = packets[j]
      BY <1>1, <1>2
    <2> DEFINE was == [j \in DOMAIN packets |-> j]
    <2>2. \A j \in DOMAIN packets' : was[j] = j
      BY <2>1
    <2> HIDE DEF was
    <2>3. OneCloser'
      BY <2>1, <2>2, OwesLess
    <2> QED BY <2>1, <2>3
  <1>3. CASE packets' = RemoveAt(packets, i)
    <2> DEFINE was == [j \in 1..(Len(packets) - 1) |-> IF j < i THEN j ELSE j + 1]
    <2>1. /\ packets' \in Seq(Parcel) /\ DOMAIN packets' = 1..(Len(packets) - 1)
          /\ \A j \in DOMAIN packets' : packets'[j] = packets[was[j]]
      BY <1>1, <1>3, Removed
    <2>2. \A j \in DOMAIN packets' : was[j] \in DOMAIN packets
      BY <1>1, <2>1
    <2>3. \A j, k \in DOMAIN packets' : was[j] = was[k] => j = k
      BY <1>1, <2>1
    <2> HIDE DEF was
    <2>4. OneCloser'
      BY <2>1, <2>2, <2>3, OwesLess
    <2> QED BY <2>1, <2>4
  <1> QED BY <1>2, <1>3

\* async_data_received and async_eof_received go one step further.
LEMMA PacketKeeps ==
    ASSUME ClosingInv, NEW i \in DOMAIN packets, PacketStep(i)
    PROVE  ClosingInv'
  <1>1. PICK p \in Parcel : p = packets[i]
    BY DEF ClosingInv, ClosingData
  <1>2. PICK send : send = (IF p.begun \/ proto # "CLOSED" THEN p.send ELSE <<>>)
    OBVIOUS
  <1>3. send \in Sends /\ p.send \in Sends /\ (send # <<>> => send = p.send)
    BY <1>2 DEF Parcel, Sends
  <1>4. /\ at' = at \/ (at' = CancelHandler(at) /\ Receiving)
        /\ cancelled' = cancelled \/ cancelled' = TRUE
        /\ EndOfStream \/ UNCHANGED <<link, data_fut, aborting>>
        /\ (\E owner : Acked(owner)) \/ UNCHANGED <<pings, waiter>>
        /\ UNCHANGED <<proto, listening, auto, peer_closed, pinged, got, stopping>>
        /\ blocked' \in {blocked, TRUE}
    BY <1>1, <1>2 DEF PacketStep, WriteFills
  <1>5. Calm /\ at' \in [Users -> Places] /\ (auto = "none" => at' = at)
    BY <1>4, PlacesAre DEF Calm, CancelHandler, Receiving, ClosingInv, ClosingData, Unmade, Users
  <1>6. /\ pings' \in Seq(Pingers) /\ waiter' \in [Pingers -> {"none", "pending", "acked", "failed"}]
        /\ \A u \in Pingers : waiter'[u] = "pending" => waiter[u] = "pending"
        /\ \A u \in Pingers : waiter'[u] = "pending" /\ u \in Range(pings) => u \in Range(pings')
    BY <1>4, AckedKeeps DEF ClosingInv, ClosingData
  <1>7. /\ link' \in Links /\ data_fut' \in {"none", "pending", "result", "cancelled"} /\ aborting' \in BOOLEAN
        /\ (link' = "lost" <=> link = "lost") /\ (link' = "http" <=> link = "http")
        /\ aborting' => link' \in {"closing", "aborted", "lost"}
    BY <1>4, EndOfStreamIs
  <1>8. ClosingFlags'
    BY <1>4, <1>7 DEF ClosingInv, ClosingFlags
  <1>9. Registered'
    BY <1>6, <1>7 DEF ClosingInv, Registered
  <1>10. Unmade'
    BY <1>4, <1>5, <1>6, <1>7 DEF ClosingInv, Unmade
  <1>11. Mutex' /\ PingsCounted'
    BY <1>4, <1>5, CalmKeeps, AskingFinite, ClosingAssumption DEF ClosingInv, ClosingData, PingsCounted, Calm
  <1>12. packets' \in Seq(Parcel) /\ closes' \in Nat /\ OneCloser'
    <2> DEFINE begun == [p EXCEPT !.begun = TRUE]
               less  == [p EXCEPT !.begun = TRUE, !.send = Tail(@)]
    <2>1. begun \in Parcel /\ begun.send = p.send
      BY <1>1 DEF Parcel
    <2>2. p.send # <<>> => less \in Parcel /\ less.send = Tail(p.send) /\ less.send # Closing
      BY <1>1, <1>3, TailIs DEF Parcel
    <2>3. /\ [packets EXCEPT ![i].begun = TRUE] = [packets EXCEPT ![i] = begun]
          /\ [packets EXCEPT ![i].begun = TRUE, ![i].send = Tail(@)] = [packets EXCEPT ![i] = less]
      BY <1>1 DEF ClosingInv, ClosingData, Parcel
    <2>4. closes \in Nat
      BY DEF ClosingInv, ClosingData
    <2> HIDE DEF begun, less
    <2>5. \/ packets' = [packets EXCEPT ![i] = begun] /\ closes' = closes
          \/ packets' = RemoveAt(packets, i) /\ closes' = closes
          \/ /\ packets' = [packets EXCEPT ![i] = less] /\ send # <<>>
             /\ closes' = IF send[1] = "close" THEN closes + 1 ELSE closes
      BY <1>1, <1>2, <2>3 DEF PacketStep
    <2>6. CASE packets' = [packets EXCEPT ![i] = begun] /\ closes' = closes
      BY <1>1, <1>4, <1>5, <2>1, <2>4, <2>6, PacketChanged
    <2>7. CASE packets' = RemoveAt(packets, i) /\ closes' = closes
      BY <1>1, <1>4, <1>5, <2>4, <2>7, PacketChanged
    <2>8. CASE packets' = [packets EXCEPT ![i] = less] /\ send # <<>> /\ send[1] # "close" /\ closes' = closes
      BY <1>1, <1>3, <1>4, <1>5, <2>2, <2>4, <2>8, PacketChanged
    <2>9. CASE packets' = [packets EXCEPT ![i] = less] /\ send # <<>> /\ send[1] = "close" /\ closes' = closes + 1
      <3>1. p.send = Closing /\ less \in Parcel /\ less.send # Closing
        BY <1>3, <2>2, <2>9, TailIs
      <3>2. Owes(i)
        BY <1>1, <3>1 DEF Owes
      <3>3. /\ proto' # "OPEN" /\ closes' = 1 /\ (\A u \in Users : at[u] # "closing")
            /\ \A j \in DOMAIN packets : Owes(j) => j = i
        BY <1>4, <2>9, <3>2 DEF ClosingInv, OneCloser
      <3>4. /\ packets' \in Seq(Parcel) /\ DOMAIN packets' = DOMAIN packets
            /\ \A j \in DOMAIN packets : packets'[j] = IF j = i THEN less ELSE packets[j]
        BY <2>9, <3>1 DEF ClosingInv, ClosingData
      <3>5. \A j \in DOMAIN packets' : packets'[j].send # Closing
        BY <3>1, <3>3, <3>4 DEF Owes
      <3>6. \A u \in Users : at'[u] # "closing"
        BY <1>5, <3>3 DEF Calm
      <3>7. OneCloser'
        BY <3>3, <3>5, <3>6 DEF OneCloser, Owes
      <3> QED BY <3>3, <3>4, <3>7
    <2> QED BY <2>5, <2>6, <2>7, <2>8, <2>9
  <1>13. ClosingData'
    BY <1>4, <1>5, <1>6, <1>7, <1>12 DEF ClosingInv, ClosingData
  <1> QED BY <1>8, <1>9, <1>10, <1>11, <1>12, <1>13 DEF ClosingInv
-----------------------------------------------------------------------------
LEMMA ClosingStarts == ClosingInit => ClosingInv
  <1> SUFFICES ASSUME ClosingInit PROVE ClosingInv
    OBVIOUS
  <1> USE DEF ClosingInit
  <1>1. ClosingData
    BY PlacesAre, ClosingAssumption DEF ClosingData, Links
  <1>2. ClosingFlags
    BY DEF ClosingFlags
  <1>3. Mutex /\ OneCloser /\ Registered /\ Unmade
    BY PlacesAre DEF Mutex, OneCloser, Registered, Unmade, Users
  <1>4. PingsCounted
    <2>1. Asking(at) = {}
      BY DEF Asking, Pingers, Users
    <2>2. \A u \in Users : at[u] # "ping"
      OBVIOUS
    <2>3. Cardinality(Asking(at)) = 0
      BY <2>1, FS_EmptySet
    <2> QED BY <2>2, <2>3, ClosingAssumption DEF PingsCounted
  <1> QED BY <1>1, <1>2, <1>3, <1>4 DEF ClosingInv

LEMMA ClosingSteps == ClosingInv /\ [ClosingNext]_closing_vars => ClosingInv'
  <1> SUFFICES ASSUME ClosingInv, [ClosingNext]_closing_vars PROVE ClosingInv'
    OBVIOUS
  <1>1. CASE ClosingLoop
    BY <1>1, QuietActions, EndActions, LostKeeps, AcquireKeeps, CanWriteKeeps, PacketKeeps DEF ClosingLoop
  <1>2. CASE ClosingPeer
    BY <1>2, PeerActions, QuietActions, LostKeeps DEF ClosingPeer
  <1>3. CASE UNCHANGED closing_vars
    BY <1>3 DEF closing_vars, ClosingInv, ClosingData, ClosingFlags, Mutex, OneCloser, Owes, Registered,
                Unmade, PingsCounted, Asking
  <1>4. CASE ClosingNext /\ ~ClosingLoop /\ ~ClosingPeer
    BY <1>4, QuietActions, CallActions, EndActions DEF ClosingNext
  <1> QED BY <1>1, <1>2, <1>3, <1>4

LEMMA ParcelIsPacket == Parcel \subseteq Packet
  <1>1. Sends \subseteq Seq({"pong", "close", "eof"})
    BY DEF Sends, Closing
  <1> QED BY <1>1 DEF Parcel, Packet

LEMMA ClosingMeans == ClosingInv => ClosingTypeOK /\ ClosesOnce
  <1> SUFFICES ASSUME ClosingInv PROVE ClosingTypeOK /\ ClosesOnce
    OBVIOUS
  <1>1. packets \in Seq(Packet)
    BY ParcelIsPacket DEF ClosingInv, ClosingData
  <1>2. pinged \in 0..MaxPings
    BY AskingFinite, ClosingAssumption DEF ClosingInv, ClosingData, PingsCounted
  <1>3. stopping \in Range(Stages)
    <2>1. Stages = <<"no", "cancelled", "idle", "forced">> /\ DOMAIN Stages = 1..4
      BY DEF Stages
    <2>2. Stages[1] = "no" /\ Stages[2] = "cancelled" /\ Stages[3] = "idle" /\ Stages[4] = "forced"
      BY <2>1
    <2> QED BY <2>1, <2>2 DEF Range, ClosingInv, ClosingData
  <1>4. aborting => link \in {"closing", "aborted", "lost"}
    BY DEF ClosingInv, Unmade
  <1>5. ClosingTypeOK
    BY <1>1, <1>2, <1>3, <1>4 DEF ClosingTypeOK, ClosingInv, ClosingData, ClosingFlags, Links
  <1>6. ClosesOnce
    BY DEF ClosesOnce, OneClose, NoPingLeft, ClosingInv, OneCloser, Registered
  <1> QED BY <1>5, <1>6

LEMMA ClosingKept == ClosingSpec => []ClosingInv
  BY ClosingStarts, ClosingSteps, PTL DEF ClosingSpec

\* Every variable of the connection's end has its type, whatever the bounds on pings and
\* packets.  (impl.py, websocket_protocol.py)
THEOREM ClosingTyped == ClosingSpec => []ClosingTypeOK
  BY ClosingKept, ClosingMeans, PTL

\* However many pings and packets there are, and however the handler, the connection's task,
\* the keepalive, the shutdown and the answers to the peer interleave, at most one CLOSE
\* frame is written and no ping waits on a lost connection.
\* (close, fail_connection, end_connection, data_received, abort_pings)
THEOREM WebsocketClosesOnce == ClosingSpec => []ClosesOnce
  BY ClosingKept, ClosingMeans, PTL
-----------------------------------------------------------------------------
(* Both halves *)

LEMMA OffTyped == (AssemblerOff => TypeOK) /\ (ClosingOff => ClosingInv)
  <1>1. ASSUME AssemblerOff PROVE TypeOK
    <2>1. <<>> \in Events /\ Len(<<>>) <= MaxFrames
      BY AssemblerAssumption DEF Events
    <2> QED BY <1>1, <2>1, GetTyped DEF AssemblerOff, TypeOK
  <1>2. ASSUME ClosingOff PROVE ClosingInv
    <2> USE <1>2 DEF ClosingOff
    <2>0. at \in [Users -> Places]
      BY PlacesAre
    <2>1. ClosingData
      BY <2>0, ClosingAssumption DEF ClosingData, Links
    <2>5. ClosingFlags
      BY DEF ClosingFlags
    <2>2. Mutex /\ OneCloser /\ Registered /\ Unmade
      BY PlacesAre DEF Mutex, OneCloser, Registered, Unmade, Users
    <2>3. Asking(at) = {} /\ \A u \in Users : at[u] # "ping"
      BY DEF Asking, Pingers, Users
    <2>4. Cardinality(Asking(at)) = 0
      BY <2>3, FS_EmptySet
    <2> QED BY <2>1, <2>2, <2>3, <2>4, <2>5, ClosingAssumption DEF ClosingInv, PingsCounted
  <1> QED BY <1>1, <1>2

\* Every variable of either half of a websocket has its type.
\* (WebsocketFrameAssembler, WebsocketImplProtocol)
THEOREM HalvesTyped == HalvesSpec => []HalvesTypeOK
  <1> DEFINE Typed == TypeOK /\ ClosingInv
  <1>1. HalvesInit => Typed
    BY OffTyped, InitTyped, ClosingStarts DEF HalvesInit
  <1>2. Typed /\ [HalvesNext]_<<vars, closing_vars>> => Typed'
    <2> SUFFICES ASSUME Typed, [HalvesNext]_<<vars, closing_vars>> PROVE Typed'
      OBVIOUS
    <2>1. [Next]_vars /\ [ClosingNext]_closing_vars
      BY DEF HalvesNext
    <2> QED BY <2>1, StepTyped, ClosingSteps
  <1>3. Typed => HalvesTypeOK
    BY ClosingMeans DEF HalvesTypeOK
  <1> QED BY <1>1, <1>2, <1>3, PTL DEF HalvesSpec
==============================================================================
