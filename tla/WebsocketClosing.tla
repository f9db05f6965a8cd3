-------------------------- MODULE WebsocketClosing --------------------------
(***************************************************************************)
(* The life of a websocket from its handshake to the end of its transport: *)
(* sanic/server/websockets/impl.py and protocols/websocket_protocol.py     *)
(* with _websocket_handler of app.py.  What is received and how it reaches *)
(* the handler is FrameAssembler's; here are the handshake, send, ping,    *)
(* close, the keepalive, the end of the connection by either side, and the *)
(* auto closer that must see the transport closed whatever happens.        *)
(*                                                                         *)
(* Four tasks use conn_mutex and wait in it for a transport that may have  *)
(* paused writing: the handler, the connection's task (which closes after  *)
(* it), the keepalive and the closer made at a shutdown.  A task holds the *)
(* mutex exactly while it is sending, pinging or closing.  A packet from the peer becomes a *)
(* task of its own (`packets'), outside the mutex.                         *)
(***************************************************************************)
EXTENDS Naturals, FiniteSets, Sequences, SequencesExt

CONSTANTS
    MaxPings,     \* bound: pings sent by the server
    MaxPackets,   \* bound: packets the peer sends
    HalfClose     \* transport.can_write_eof(): FALSE under TLS

ASSUME ClosingAssumption == MaxPings \in Nat /\ MaxPackets \in Nat /\ HalfClose \in BOOLEAN

Users   == {"handler", "task", "keepalive", "closer"}
Pingers == {"handler", "keepalive"}
Writing == [send |-> "sending", ping |-> "pinging", close |-> "closing"]
Locked  == Range(Writing)     \* in the mutex; "send", "ping" and "close" wait for it
Places  == {"none", "idle", "wait", "recv", "stream", "leaving", "end"} \cup Locked \cup DOMAIN Writing
Packets == {"ping", "pong", "close", "eof"}

VARIABLES
    proto,       \* ws_proto.state
    link,        \* the transport
    blocked,     \* writing is paused: the peer does not read
    listening,   \* reading is not paused by fail_connection or end_connection
    at,          \* where each user of the mutex is
    cancelled,   \* how the handler ended: CancelledError or ConnectionClosed
    auto,        \* auto_close_connection
    data_fut,    \* data_finished_fut
    aborting,    \* a timer is set that calls transport.abort()
    packets,     \* tasks of data_received and eof_received: what each still has to send
    peer_closed, \* the peer has sent its CLOSE or EOF
    pings,       \* self.pings, in order: whose they are
    waiter,      \* the future of each pinger's last ping
    pinged,      \* pings sent so far
    got,         \* packets received so far
    closes,      \* history: CLOSE frames written
    stopping     \* how far the shutdown of the server is

closing_vars == <<proto, link, blocked, listening, at, cancelled, auto, data_fut,
                  aborting, packets, peer_closed, pings, waiter, pinged, got, closes, stopping>>

Stages == <<"no", "cancelled", "idle", "forced">>
Packet == [send : Seq({"pong", "close", "eof"}), event : Pingers \cup {"close", "none"},
           begun : BOOLEAN, eof : BOOLEAN]

ClosingTypeOK ==
    /\ proto \in {"OPEN", "CLOSING", "CLOSED"}
    /\ link \in {"http", "open", "eof", "closing", "aborted", "lost"}
    /\ blocked \in BOOLEAN /\ listening \in BOOLEAN /\ cancelled \in BOOLEAN
    /\ at \in [Users -> Places]
    /\ auto \in {"none", "new", "data", "half", "final", "done"}
    /\ data_fut \in {"none", "pending", "result", "cancelled"}
    /\ aborting \in BOOLEAN /\ (aborting => link \in {"closing", "aborted", "lost"})
    /\ packets \in Seq(Packet) /\ peer_closed \in BOOLEAN
    /\ pings \in Seq(Pingers) /\ waiter \in [Pingers -> {"none", "pending", "acked", "failed"}]
    /\ pinged \in 0..MaxPings /\ got \in 0..MaxPackets /\ closes \in Nat
    /\ stopping \in Range(Stages)

\* the request for an upgrade is being handled
ClosingInit ==
    /\ proto = "OPEN" /\ link = "http" /\ listening = TRUE /\ cancelled = FALSE
    /\ blocked \in BOOLEAN
    /\ at = [u \in Users |-> IF u = "task" THEN "idle" ELSE "none"]
    /\ auto = "none" /\ data_fut = "none" /\ aborting = FALSE /\ packets = <<>>
    /\ peer_closed = FALSE /\ pings = <<>> /\ waiter = [p \in Pingers |-> "none"]
    /\ pinged = 0 /\ got = 0 /\ closes = 0 /\ stopping = "no"

Goes(u, place) == at' = [at EXCEPT ![u] = place]
-----------------------------------------------------------------------------
(* The transport and what acts on it at once *)

Writable == link = "open"            \* write() raises after write_eof()

\* transport.close(), with a check that aborts it in the end
Closed(l) == IF l \in {"open", "eof"} THEN "closing" ELSE l

\* any write may fill the buffer above the high-water mark
WriteFills == blocked' \in {blocked, TRUE}

\* _force_disconnect: the auto closer is gone
ForceDisconnect(a) ==
    IF auto = "done"
      THEN /\ link' = Closed(link) /\ aborting' = TRUE
           /\ at' = [a EXCEPT !["keepalive"] = IF @ = "none" THEN @ ELSE "end"]
      ELSE /\ at' = a /\ UNCHANGED <<link, aborting>>

\* as if the state were not looked at
EndConnectionAnyhow(a) ==
    /\ listening' = FALSE
    /\ proto' = IF proto = "OPEN" THEN "CLOSING" ELSE proto
    /\ closes' = IF Writable THEN closes + 1 ELSE closes
    /\ data_fut' = IF data_fut = "pending" THEN "cancelled" ELSE data_fut
    /\ ForceDisconnect(a)

\* fail_connection and end_connection: a CLOSE frame now, past the mutex, and the
\* auto closer is told.  `a' is where the users of the mutex are afterwards.
EndConnection(a) ==
    /\ listening' = FALSE
    /\ proto' = IF proto = "OPEN" THEN "CLOSING" ELSE proto
    /\ closes' = IF proto = "OPEN" /\ Writable THEN closes + 1 ELSE closes
    /\ data_fut' = IF data_fut = "pending" THEN "cancelled" ELSE data_fut
    /\ ForceDisconnect(a)
-----------------------------------------------------------------------------
(* The handshake *)

\* connection_made: the auto closer and the keepalive are created
ConnectionMade(a) ==
    /\ data_fut' = "pending" /\ auto' = "new"
    /\ at' = [a EXCEPT !["keepalive"] = "idle"]

\* websocket_handshake: the 101 is written; then the application's handler is scheduled
Handshake101 ==
    /\ at["task"] = "idle" /\ link = "http" /\ ~blocked
    /\ link' = "open" /\ WriteFills
    /\ ConnectionMade([at EXCEPT !["handler"] = "idle"])
    /\ UNCHANGED <<proto, listening, cancelled, aborting, packets, peer_closed, pings,
                   waiter, pinged, got, closes, stopping>>

\* the peer leaves while the answer waits for the transport
HandshakeRefused ==
    /\ at["task"] = "idle" /\ link = "http"
    /\ link' = "lost" /\ Goes("task", "end")
    /\ UNCHANGED <<proto, blocked, listening, cancelled, auto, data_fut, aborting, packets,
                   peer_closed, pings, waiter, pinged, got, closes, stopping>>
-----------------------------------------------------------------------------
(* send(), ping() and close() *)

\* the wait for conn_mutex begins
Call(u, what) ==
    /\ Goes(u, what)
    /\ UNCHANGED <<proto, link, blocked, listening, cancelled, auto, data_fut, aborting, packets,
                   peer_closed, pings, waiter, pinged, got, closes, stopping>>

PingsLeft == pinged + Cardinality({u \in Pingers : at[u] = "ping"}) < MaxPings

HandlerCalls ==
    /\ at["handler"] = "idle"
    /\ \/ Call("handler", "send")
       \/ Call("handler", "close")
       \/ PingsLeft /\ "handler" \notin Range(pings) /\ Call("handler", "ping")

KeepaliveCalls == at["keepalive"] = "idle" /\ PingsLeft /\ Call("keepalive", "ping")

\* where a user goes when its call is over, or has raised
After(u) ==
    CASE u = "handler" -> "idle" [] u = "task" -> "leaving" [] OTHER -> "end"

MutexFree == \A u \in Users : at[u] \notin Locked

NewPing(u) ==
    /\ pings' = Append(pings, u) /\ waiter' = [waiter EXCEPT ![u] = "pending"]
    /\ pinged' = pinged + 1

Open(u) == proto = "OPEN" /\ (at[u] = "send" => data_fut = "pending")

\* The mutex is taken and the call runs to its first write, or finds the websocket
\* closing: WebsocketClosed, ServerError, or nothing to do.
Acquire(u) ==
    /\ at[u] \in DOMAIN Writing /\ MutexFree
    /\ Goes(u, IF Open(u) THEN Writing[at[u]] ELSE After(u))
    /\ proto' = IF Open(u) /\ at[u] = "close" THEN "CLOSING" ELSE proto
    /\ IF Open(u) /\ at[u] = "ping" THEN NewPing(u) ELSE UNCHANGED <<pings, waiter, pinged>>
    /\ UNCHANGED <<link, blocked, listening, cancelled, auto, data_fut, aborting, packets,
                   peer_closed, got, closes, stopping>>

\* HttpProtocol.send once writing is not paused: it raises on a transport that is
\* closing (RequestCancelled) or half closed
CanWrite(u) ==
    /\ at[u] \in Locked /\ ~blocked
    /\ IF Writable
         THEN /\ WriteFills
              /\ closes' = IF at[u] = "closing" THEN closes + 1 ELSE closes
              /\ \/ Goes(u, IF u = "keepalive" THEN "wait" ELSE After(u))
                 \/ u = "handler" /\ at[u] = "pinging" /\ Goes(u, "wait")
         ELSE UNCHANGED <<blocked, closes>> /\ Goes(u, After(u))
    /\ UNCHANGED <<proto, link, listening, cancelled, auto, data_fut, aborting, packets,
                   peer_closed, pings, waiter, pinged, got, stopping>>
-----------------------------------------------------------------------------
(* The keepalive *)

Pinged(u) ==
    /\ at[u] = "wait" /\ waiter[u] # "pending"
    /\ Goes(u, IF u = "keepalive" /\ waiter[u] = "failed" THEN "end" ELSE "idle")
    /\ UNCHANGED <<proto, link, blocked, listening, cancelled, auto, data_fut, aborting,
                   packets, peer_closed, pings, waiter, pinged, got, closes, stopping>>

\* no pong within ping_timeout: fail_connection(1011)
PingTimesOut ==
    /\ at["keepalive"] = "wait" /\ waiter["keepalive"] = "pending"
    /\ EndConnection([at EXCEPT !["keepalive"] = "end"])
    /\ UNCHANGED <<blocked, cancelled, auto, packets, peer_closed, pings, waiter, pinged,
                   got, stopping>>
-----------------------------------------------------------------------------
(* The handler and the connection's task *)

\* recv() or recv_burst(); recv_streaming()
HandlerReceives ==
    /\ at["handler"] = "idle" /\ \E how \in {"recv", "stream"} : Goes("handler", how)
    /\ UNCHANGED <<proto, link, blocked, listening, cancelled, auto, data_fut, aborting,
                   packets, peer_closed, pings, waiter, pinged, got, closes, stopping>>

\* it returns or raises, or a message came and it goes on
HandlerGoesOn ==
    /\ \/ at["handler"] \in {"recv", "stream"} /\ Goes("handler", "idle") /\ UNCHANGED cancelled
       \/ /\ at["handler"] = "idle" /\ Goes("handler", "end")
          /\ cancelled' \in BOOLEAN      \* by a ConnectionClosed, or not
    /\ UNCHANGED <<proto, link, blocked, listening, auto, data_fut, aborting, packets,
                   peer_closed, pings, waiter, pinged, got, closes, stopping>>

\* the finally of _websocket_handler: close() with its handshake, or none
HandlerOver ==
    /\ at["task"] = "idle" /\ at["handler"] = "end"
    /\ IF cancelled
         THEN /\ EndConnection([at EXCEPT !["task"] = "leaving"])
              /\ UNCHANGED <<blocked, cancelled, auto, packets, peer_closed, pings, waiter,
                             pinged, got, stopping>>
         ELSE Call("task", "close")

\* WebSocketProtocol.close at the end of connection_task
TaskLeaves ==
    /\ at["task"] = "leaving"
    /\ EndConnection([at EXCEPT !["task"] = "end"])
    /\ UNCHANGED <<blocked, cancelled, auto, packets, peer_closed, pings, waiter, pinged,
                   got, stopping>>

\* A cancellation reaches a handler at whatever await it is.
CancelHandler(a) ==
    [a EXCEPT !["handler"] = IF @ \in {"none", "end"} THEN @ ELSE "end"]
-----------------------------------------------------------------------------
(* auto_close_connection *)

\* the data phase is over: the keepalive is cancelled, the transport half closed
AutoWakes ==
    /\ \/ /\ auto \in {"new", "data"} /\ data_fut # "pending"
          /\ at' = [at EXCEPT !["keepalive"] = "end"]
          /\ link' = IF HalfClose /\ link = "open" THEN "eof" ELSE link
          /\ auto' = "half"
       \/ auto = "new" /\ data_fut = "pending" /\ auto' = "data" /\ UNCHANGED <<at, link>>
    /\ UNCHANGED <<proto, blocked, listening, cancelled, data_fut, aborting, packets,
                   peer_closed, pings, waiter, pinged, got, closes, stopping>>

\* its finally: close, and wait for connection_lost
AutoCloses ==
    /\ auto = "half"
    /\ link' = Closed(link)
    /\ auto' = IF link = "lost" THEN "done" ELSE "final"
    /\ UNCHANGED <<proto, blocked, listening, at, cancelled, data_fut, aborting, packets,
                   peer_closed, pings, waiter, pinged, got, closes, stopping>>

\* as if the timeout were not followed by an abort
AutoWaits ==
    /\ auto = "final" /\ link = "lost" /\ auto' = "done"
    /\ UNCHANGED <<proto, link, blocked, listening, at, cancelled, data_fut, aborting,
                   packets, peer_closed, pings, waiter, pinged, got, closes, stopping>>

\* wait_for_connection_lost: the answer is no when close_timeout has passed before
WaitForConnectionLost(lost) == auto = "final" /\ (lost <=> link = "lost")

\* lost, or close_timeout has passed and it aborts
AutoEnds ==
    /\ auto' = "done"
    /\ \/ WaitForConnectionLost(TRUE) /\ UNCHANGED link
       \/ WaitForConnectionLost(FALSE) /\ link' = "aborted"
    /\ UNCHANGED <<proto, blocked, listening, at, cancelled, data_fut, aborting, packets,
                   peer_closed, pings, waiter, pinged, got, closes, stopping>>

\* the timer of _force_disconnect, or of the check after SanicProtocol.close
AbortTimer ==
    /\ aborting /\ aborting' = FALSE
    /\ link' = IF link = "closing" THEN "aborted" ELSE link
    /\ UNCHANGED <<proto, blocked, listening, at, cancelled, auto, data_fut, packets,
                   peer_closed, pings, waiter, pinged, got, closes, stopping>>
-----------------------------------------------------------------------------
(* Packets from the peer *)

Arrives(send, event, eof) ==
    /\ link \in {"open", "eof"} /\ listening
    /\ packets' = Append(packets, [send |-> send, event |-> event, begun |-> FALSE, eof |-> eof])
    /\ UNCHANGED <<blocked, listening, at, cancelled, auto, data_fut, aborting, pings, waiter,
                   pinged, closes, stopping>>

Frame(send, event) ==
    /\ ~peer_closed /\ got < MaxPackets /\ got' = got + 1
    /\ Arrives(send, event, FALSE) /\ UNCHANGED link

PeerPings == Frame(<<"pong">>, "none") /\ UNCHANGED <<proto, peer_closed>>
PeerPongs ==
    /\ \E i \in DOMAIN pings : Frame(<<>>, pings[i])
    /\ UNCHANGED <<proto, peer_closed>>

\* CLOSE: ws_proto answers it if it has not sent one, and then the end of the stream
Echo == IF proto = "OPEN" THEN <<"close", "eof">> ELSE <<"eof">>
PeerCloses ==
    /\ Frame(Echo, "close")
    /\ proto' = (IF proto = "OPEN" THEN "CLOSING" ELSE proto) /\ peer_closed' = TRUE

\* EOF: eof_received answers False, and the transport closes by itself
PeerEof ==
    /\ Arrives(<<"eof">>, "none", TRUE)
    /\ proto' = "CLOSED" /\ link' = "closing" /\ UNCHANGED <<peer_closed, got>>

\* send_data's end of stream: the auto closer is told, or SanicProtocol.close
EndOfStream ==
    IF auto # "done" /\ data_fut = "pending"
      THEN data_fut' = "result" /\ UNCHANGED <<link, aborting>>
      ELSE /\ link' = Closed(link) /\ aborting' = (aborting \/ link \in {"open", "eof"})
           /\ UNCHANGED data_fut

Acked(owner) ==      \* process_pong: every ping up to that one
    LET i  == IF owner \in Range(pings) THEN CHOOSE j \in DOMAIN pings : pings[j] = owner ELSE 0
    IN /\ pings' = SubSeq(pings, i + 1, Len(pings))
       /\ waiter' = [p \in Pingers |->
                        IF p \in Range(SubSeq(pings, 1, i)) /\ waiter[p] = "pending"
                          THEN "acked" ELSE waiter[p]]

\* CLOSE and EOF cancel a receiving call; recv_streaming() does not see it before the next
\* chunk, which may never come
Receiving == at["handler"] = "recv"

\* async_data_received, async_eof_received: one thing sent, or the events.  The
\* state is looked at once; a write that raises ends the task and drops its events.
PacketStep(i) ==
    LET p    == packets[i]
        send == IF p.begun \/ proto # "CLOSED" THEN p.send ELSE <<>>
        left == [packets EXCEPT ![i].begun = TRUE, ![i].send = Tail(@)]
    IN /\ \/ /\ send # <<>> /\ send[1] # "eof" /\ blocked /\ ~p.begun
             /\ packets' = [packets EXCEPT ![i].begun = TRUE]
             /\ UNCHANGED <<blocked, closes, link, data_fut, aborting, at, cancelled, pings,
                            waiter>>
          \/ /\ send # <<>> /\ send[1] # "eof" /\ ~blocked
             /\ IF Writable
                  THEN /\ WriteFills /\ packets' = left
                       /\ closes' = IF send[1] = "close" THEN closes + 1 ELSE closes
                  ELSE packets' = RemoveAt(packets, i) /\ UNCHANGED <<blocked, closes>>
             /\ UNCHANGED <<link, data_fut, aborting, at, cancelled, pings, waiter>>
          \/ /\ send # <<>> /\ send[1] = "eof" /\ packets' = left
             /\ EndOfStream
             /\ UNCHANGED <<blocked, closes, at, cancelled, pings, waiter>>
          \/ /\ send = <<>> /\ packets' = RemoveAt(packets, i)
             /\ IF p.event \in Pingers THEN Acked(p.event) ELSE UNCHANGED <<pings, waiter>>
             /\ IF p.eof THEN EndOfStream ELSE UNCHANGED <<link, data_fut, aborting>>
             /\ IF (p.eof \/ p.event = "close") /\ Receiving
                  THEN at' = CancelHandler(at) /\ cancelled' = TRUE
                  ELSE UNCHANGED <<at, cancelled>>
             /\ UNCHANGED <<blocked, closes>>
       /\ UNCHANGED <<proto, listening, auto, peer_closed, pinged, got, stopping>>

PeerReads ==
    /\ blocked /\ blocked' = FALSE
    /\ UNCHANGED <<proto, link, listening, at, cancelled, auto, data_fut, aborting, packets,
                   peer_closed, pings, waiter, pinged, got, closes, stopping>>

\* abort_pings: those that are registered fail
AbortPings(failed) ==
    waiter' = [p \in Pingers |-> IF p \in failed /\ waiter[p] = "pending"
                                    THEN "failed" ELSE waiter[p]]

\* connection_lost: pings fail, and with them the keepalive; the task is cancelled
Lost(failed) ==
    /\ link' = "lost" /\ proto' = "CLOSED" /\ blocked' = FALSE
    /\ AbortPings(failed)
    /\ at' = CASE at["task"] = "idle" -> CancelHandler(at)
               [] at["task"] \in {"close", "closing"} -> [at EXCEPT !["task"] = "leaving"]
               [] OTHER -> at
    /\ cancelled' = (cancelled \/ at["handler"] # "end")
    /\ UNCHANGED <<listening, auto, data_fut, aborting, packets, peer_closed, pings, pinged,
                   got, closes, stopping>>

\* after a close and the last byte, or an abort
TransportLost ==
    /\ link = "aborted" \/ (link = "closing" /\ ~blocked)
    /\ Lost(Range(pings))

\* the network fails
PeerVanishes == link \in {"open", "eof", "closing"} /\ Lost(Range(pings))
-----------------------------------------------------------------------------
(* The shutdown of the server *)

Reaches(stage) ==
    /\ link # "http"
    /\ \E i \in 1..3 : stopping = Stages[i] /\ stage = Stages[i + 1]
    /\ stopping' = stage

\* _cancel_websocket_tasks, run before the server stops
CancelWebsocketTasks ==
    /\ Reaches("cancelled")
    /\ at' = CancelHandler(at)
    /\ cancelled' = (cancelled \/ at["handler"] # "end")
    /\ UNCHANGED <<proto, link, blocked, listening, auto, data_fut, aborting, packets,
                   peer_closed, pings, waiter, pinged, got, closes>>

\* close_if_idle: a task for close(1001), unless it is closing already
CloseIfIdle ==
    /\ Reaches("idle") /\ link # "lost"
    /\ IF proto = "OPEN"
         THEN Goes("closer", "close") ELSE UNCHANGED at
    /\ UNCHANGED <<proto, link, blocked, listening, cancelled, auto, data_fut, aborting, packets,
                   peer_closed, pings, waiter, pinged, got, closes>>

\* the graceful period is over: fail_connection(1001)
FailConnection ==
    /\ Reaches("forced") /\ link # "lost"
    /\ EndConnection(at)
    /\ UNCHANGED <<blocked, cancelled, auto, packets, peer_closed, pings, waiter, pinged, got>>
-----------------------------------------------------------------------------
ClosingLoop ==
    \/ HandshakeRefused \/ HandlerOver \/ TaskLeaves
    \/ AutoWakes \/ AutoCloses \/ AutoEnds \/ AbortTimer \/ TransportLost \/ PingTimesOut
    \/ \E u \in Users : Acquire(u) \/ CanWrite(u)
    \/ \E u \in Pingers : Pinged(u)
    \/ \E i \in DOMAIN packets : PacketStep(i)

ClosingPeer == PeerPings \/ PeerPongs \/ PeerCloses \/ PeerEof \/ PeerReads \/ PeerVanishes

ClosingNext ==
    \/ ClosingLoop \/ ClosingPeer \/ Handshake101
    \/ HandlerCalls \/ HandlerReceives \/ HandlerGoesOn \/ KeepaliveCalls
    \/ CancelWebsocketTasks \/ CloseIfIdle \/ FailConnection

\* The event loop runs what is ready: tasks, timers, connection_lost.  Nothing is
\* assumed of the peer, the handler or the operator.
ClosingFairness ==
    /\ WF_closing_vars(HandlerOver \/ TaskLeaves) /\ WF_closing_vars(AutoWakes \/ AutoCloses)
    /\ WF_closing_vars(AutoEnds) /\ WF_closing_vars(AbortTimer)
    /\ WF_closing_vars(TransportLost) /\ WF_closing_vars(PingTimesOut)
    /\ \A u \in Users : WF_closing_vars(Acquire(u) \/ CanWrite(u))
    /\ \A u \in Pingers : WF_closing_vars(Pinged(u))
    /\ WF_closing_vars(\E i \in DOMAIN packets : PacketStep(i))

ClosingSpec == ClosingInit /\ [][ClosingNext]_closing_vars /\ ClosingFairness
-----------------------------------------------------------------------------
\* At most one CLOSE frame is written, by whichever of the handler, the task, the
\* shutdown, the keepalive's failure and the answer to the peer's comes first: each
\* of them looks at the state in the step that changes it, some without the mutex.
\* (close, fail_connection, end_connection, data_received)
OneClose == closes <= 1

\* "They'll never receive a pong once the connection is closed": no ping is left
\* waiting when the connection is lost, not even one that was waiting to be written.
\* (abort_pings, ping)
NoPingLeft == link = "lost" => \A p \in Pingers : waiter[p] # "pending"

\* A connection closes once, and leaves nobody waiting for its peer.
ClosesOnce == OneClose /\ NoPingLeft

\* Once the data phase is over - the handler has ended, the peer has closed, a ping
\* was not answered, the server was stopped - the transport is closed, even if the
\* peer never reads, never answers and never closes.
\* ("The try/finally ensures that the transport never remains open")
DataOver == data_fut # "pending" \/ at["task"] = "end"
TransportEnds == []<>(link = "http" \/ (DataOver => link = "lost"))

\* When the transport is lost everything that served it ends: the handler, the task,
\* the keepalive, the closer and the auto closer.
\* (connection_lost, auto_close_connection)
Served   == {"handler", "task", "keepalive", "closer"}
Finished == auto \in {"none", "done"} /\ \A u \in Served : at[u] \in {"none", "end"}
LostEndsAll == []<>(link = "lost" => Finished)

\* However a connection ends, nothing of it stays behind.
ClosingEnds == TransportEnds /\ LostEndsAll
=============================================================================
