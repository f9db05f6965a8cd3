--------------------------- MODULE FrameAssembler ---------------------------
(***************************************************************************)
(* The receiving side of a websocket: WebsocketFrameAssembler              *)
(* (sanic/server/websockets/frame.py) with recv, recv_burst,               *)
(* recv_streaming, process_events and the pausing of the transport         *)
(* (server/websockets/impl.py), for one handler.                           *)
(*                                                                         *)
(* Three kinds of task take turns: those of data_received(), which hold    *)
(* process_event_mutex one after the other in the order of the packets     *)
(* (`Worker'); the task of assembler.get() that recv and recv_burst start  *)
(* (`Getter'); and the handler.  A step runs a task to an await that may   *)
(* suspend it.  A packet of several frames is one Receive after another,   *)
(* and no packet is overtaken while it waits to answer a ping.             *)
(*                                                                         *)
(* `chunks' stands for self.chunks and, once get_iter() has swapped it for *)
(* chunks_queue, for what its loops have still to yield; `sentinel' is the *)
(* None at the end of chunks_queue.                                        *)
(***************************************************************************)
EXTENDS Naturals, Sequences

CONSTANTS
    MaxFrames,    \* bound: data frames the client sends
    MaxRecv,      \* max_recv of recv_burst
    AfterCancel   \* what becomes of a handler cancelled in the middle of a call:
                  \* "ended", or "idle" when it catches that and goes on

ASSUME AssemblerAssumption ==
    /\ MaxFrames \in Nat
    /\ MaxRecv \in Nat \ {0}
    /\ AfterCancel \subseteq {"ended", "idle"}

DataFrame == [n : 1..MaxFrames, fin : BOOLEAN]
Close     == [n |-> 0, fin |-> TRUE]
Frames    == Seq(DataFrame)
Events    == Seq(DataFrame \cup {Close})
GetTask   == [at : {"none", "start", "wait", "done", "raised"},
              timeout : {"none", "zero", "some"}, result : Frames]

VARIABLES
    sent, read,        \* history: data frames received, and given to the handler
    state,             \* of ws_proto
    events,            \* frames waiting for process_event_mutex
    reading,           \* pause_frame_fut is None
    can_pause,
    \* the assembler
    chunks, streaming, sentinel,
    message_complete, message_fetched, get_in_progress, paused,
    putting,           \* put() awaits message_fetched
    get,               \* the task of get(): where it is, its timeout and its result
    \* the handler
    handler, recv_cancel,
    messages,          \* of recv_burst, one after the other
    failsafe           \* a ServerError "only here as a failsafe" was raised

wire      == <<sent, state, reading>>
assembler == <<chunks, streaming, sentinel, message_complete, message_fetched, get_in_progress, paused>>
call      == <<read, handler, recv_cancel, messages, can_pause, get>>
vars      == <<wire, events, assembler, putting, call, failsafe>>

NoGet == [at |-> "none", timeout |-> "none", result |-> <<>>]

TypeOK ==
    /\ sent \in Frames /\ Len(sent) <= MaxFrames
    /\ read \in Frames
    /\ state \in {"OPEN", "CLOSING", "CLOSED"}
    /\ events \in Events
    /\ chunks \in Frames /\ messages \in Frames
    /\ reading \in BOOLEAN /\ can_pause \in BOOLEAN
    /\ streaming \in BOOLEAN /\ sentinel \in BOOLEAN
    /\ message_complete \in BOOLEAN /\ message_fetched \in BOOLEAN
    /\ get_in_progress \in BOOLEAN /\ paused \in BOOLEAN
    /\ putting \in BOOLEAN /\ failsafe \in BOOLEAN
    /\ get \in GetTask
    /\ handler \in {"idle", "recv", "burst", "sleep", "stream", "ended"}
    /\ recv_cancel \in {"none", "pending", "done"}

Init ==
    /\ sent = <<>> /\ read = <<>> /\ state = "OPEN" /\ events = <<>>
    /\ reading = TRUE /\ can_pause = TRUE
    /\ chunks = <<>> /\ streaming = FALSE /\ sentinel = FALSE
    /\ message_complete = FALSE /\ message_fetched = FALSE
    /\ get_in_progress = FALSE /\ paused = FALSE /\ putting = FALSE
    /\ get = NoGet /\ handler = "idle" /\ recv_cancel = "none"
    /\ messages = <<>> /\ failsafe = FALSE

(***************************************************************************)
(* The connection.                                                         *)
(***************************************************************************)
CancelRecv == recv_cancel' = IF recv_cancel = "pending" THEN "done" ELSE recv_cancel

Receive ==
    /\ state = "OPEN" /\ reading /\ Len(sent) < MaxFrames
    /\ \E fin \in BOOLEAN :
          LET frame == [n |-> Len(sent) + 1, fin |-> fin]
          IN sent' = Append(sent, frame) /\ events' = Append(events, frame)
    /\ UNCHANGED <<state, reading, assembler, putting, call, failsafe>>

ReceiveClose ==
    /\ state = "OPEN" /\ reading
    /\ state' = "CLOSING"
    /\ events' = Append(events, Close)
    /\ UNCHANGED <<sent, reading, assembler, putting, call, failsafe>>

EofReceived ==
    /\ state # "CLOSED" /\ reading
    /\ state' = "CLOSED"
    /\ CancelRecv
    /\ UNCHANGED <<sent, events, reading, assembler, putting, failsafe,
                   read, handler, messages, can_pause, get>>

(***************************************************************************)
(* process_events and put.                                                 *)
(***************************************************************************)
ProcessClose(frame) ==
    /\ frame = Close
    /\ CancelRecv
    /\ UNCHANGED <<wire, assembler, putting, failsafe,
                   read, handler, messages, can_pause, get>>

PutPart(frame) ==
    /\ frame # Close /\ ~frame.fin
    /\ chunks' = Append(chunks, frame)
    /\ UNCHANGED <<wire, streaming, sentinel, message_complete, message_fetched,
                   get_in_progress, paused, putting, call, failsafe>>

\* Nobody waiting for the message: no more of them for now.
PauseFrames == can_pause /\ reading

\* mutant of PutLast: a close frame is put as well
PutClose(frame) ==
    /\ frame.fin
    /\ chunks' = Append(chunks, frame)
    /\ sentinel' = streaming /\ message_complete' = TRUE /\ putting' = TRUE
    /\ UNCHANGED <<wire, streaming, message_fetched, get_in_progress, paused, call, failsafe>>

PutLast(frame) ==
    /\ frame # Close /\ frame.fin
    /\ chunks' = Append(chunks, frame)
    /\ IF get_in_progress
       THEN UNCHANGED <<paused, reading>>
       ELSE paused' = PauseFrames /\ reading' = (reading /\ ~PauseFrames)
    /\ sentinel' = streaming
    /\ failsafe' = (failsafe \/ message_complete \/ message_fetched)
    /\ message_complete' = TRUE
    /\ putting' = TRUE
    /\ UNCHANGED <<sent, state, streaming, message_fetched, get_in_progress, call>>

ProcessEvent ==
    /\ ~putting /\ events # <<>>
    /\ events' = Tail(events)
    /\ LET frame == Head(events)
       IN ProcessClose(frame) \/ PutPart(frame) \/ PutLast(frame)

\* mutant of PutFetched: the event stays set
PutFetchedUncleared ==
    /\ putting /\ message_fetched
    /\ putting' = FALSE
    /\ UNCHANGED <<wire, events, assembler, call, failsafe>>

PutFetched ==
    /\ putting /\ message_fetched
    /\ putting' = FALSE /\ message_fetched' = FALSE
    /\ UNCHANGED <<wire, events, chunks, streaming, sentinel, message_complete,
                   get_in_progress, paused, call, failsafe>>

Worker == ProcessEvent \/ PutFetched

(***************************************************************************)
(* get.                                                                    *)
(***************************************************************************)
\* mutant of ResumeFrames: the transport stays paused
ResumeUnheard == paused' = FALSE /\ UNCHANGED reading

ResumeFrames == paused' = FALSE /\ reading' = (reading \/ paused)

\* mutant of Fetch: the chunks are not dropped
FetchCopy(wrong) ==
    /\ failsafe' = (failsafe \/ wrong \/ message_fetched)
    /\ message_complete' = FALSE /\ message_fetched' = TRUE
    /\ UNCHANGED chunks /\ streaming' = FALSE /\ sentinel' = FALSE

\* The message leaves the assembler, which put() is told.
Fetch(wrong) ==
    /\ failsafe' = (failsafe \/ wrong \/ message_fetched)
    /\ message_complete' = FALSE /\ message_fetched' = TRUE
    /\ chunks' = <<>> /\ streaming' = FALSE /\ sentinel' = FALSE

\* From the end of get()'s wait on: a message, or None.
GetEnds(wrong) ==
    /\ ResumeFrames
    /\ get_in_progress' = FALSE
    /\ IF message_complete
       THEN Fetch(wrong) /\ get' = [get EXCEPT !.at = "done", !.result = chunks]
       ELSE /\ get' = [get EXCEPT !.at = "done"]
            /\ failsafe' = (failsafe \/ wrong)
            /\ UNCHANGED <<chunks, streaming, sentinel, message_complete, message_fetched>>

\* read_mutex is free: one handler starts one get() at a time.
GetStart ==
    /\ get.at = "start"
    /\ \/ /\ get.timeout = "zero" /\ ~message_complete
          /\ get' = [get EXCEPT !.at = "done"]
          /\ UNCHANGED <<reading, assembler, failsafe>>
       \/ /\ get.timeout = "zero" => message_complete
          /\ get_in_progress
          /\ failsafe' = TRUE
          /\ get' = [get EXCEPT !.at = "raised"]
          /\ UNCHANGED <<reading, assembler>>
       \/ /\ get.timeout # "zero" /\ ~message_complete /\ ~get_in_progress
          /\ get_in_progress' = TRUE
          /\ get' = [get EXCEPT !.at = "wait"]
          /\ UNCHANGED <<reading, chunks, streaming, sentinel, message_complete,
                         message_fetched, paused, failsafe>>
       \/ /\ message_complete /\ ~get_in_progress
          /\ GetEnds(FALSE)
    /\ UNCHANGED <<sent, state, events, putting, read, handler, recv_cancel,
                   messages, can_pause>>

GetWakes ==
    /\ get.at = "wait" /\ message_complete
    /\ GetEnds(~get_in_progress)
    /\ UNCHANGED <<sent, state, events, putting, read, handler, recv_cancel,
                   messages, can_pause>>

GetTimesOut ==
    /\ get.at = "wait" /\ get.timeout = "some" /\ ~message_complete
    /\ GetEnds(~get_in_progress)
    /\ UNCHANGED <<sent, state, events, putting, read, handler, recv_cancel,
                   messages, can_pause>>

Getter == GetStart \/ GetWakes \/ GetTimesOut

(***************************************************************************)
(* recv, recv_burst and recv_streaming.                                    *)
(***************************************************************************)
NewGet(timeout) == [at |-> "start", timeout |-> timeout, result |-> <<>>]

\* WebsocketClosed
CallClosed ==
    /\ handler = "idle" /\ state = "CLOSED"
    /\ handler' = "ended"
    /\ UNCHANGED <<wire, events, assembler, putting, failsafe,
                   read, recv_cancel, messages, can_pause, get>>

CallRecv ==
    /\ handler = "idle" /\ state # "CLOSED"
    /\ handler' = "recv" /\ recv_cancel' = "pending"
    /\ \E timeout \in {"none", "zero", "some"} : get' = NewGet(timeout)
    /\ UNCHANGED <<wire, events, assembler, putting, failsafe, read, messages, can_pause>>

CallBurst ==
    /\ handler = "idle" /\ state # "CLOSED"
    /\ handler' = "burst" /\ recv_cancel' = "pending"
    /\ can_pause' = FALSE
    /\ get' = NewGet("zero")
    /\ UNCHANGED <<wire, events, assembler, putting, failsafe, read, messages>>

\* mutant of CallStreaming: no None for a message that is already complete
CallStreamingOpen ==
    /\ handler = "idle" /\ state # "CLOSED" /\ ~get_in_progress
    /\ get_in_progress' = TRUE
    /\ streaming' = TRUE /\ sentinel' = FALSE
    /\ can_pause' = FALSE
    /\ handler' = "stream" /\ recv_cancel' = "pending"
    /\ UNCHANGED <<wire, events, putting, read, messages, get,
                   chunks, message_complete, message_fetched, paused, failsafe>>

CallStreaming ==
    /\ handler = "idle" /\ state # "CLOSED"
    /\ IF get_in_progress
       THEN /\ failsafe' = TRUE
            /\ handler' = "ended"
            /\ UNCHANGED <<assembler, recv_cancel, can_pause>>
       ELSE /\ get_in_progress' = TRUE
            /\ streaming' = TRUE /\ sentinel' = message_complete
            /\ can_pause' = FALSE
            /\ handler' = "stream" /\ recv_cancel' = "pending"
            /\ UNCHANGED <<chunks, message_complete, message_fetched, paused, failsafe>>
    /\ UNCHANGED <<wire, events, putting, read, messages, get>>

\* The finally of each of the three.
Leave(next) ==
    /\ handler' = next
    /\ recv_cancel' = "none" /\ can_pause' = TRUE
    /\ messages' = <<>> /\ get' = NoGet

\* What get() returned, or the ServerError it raised, goes to the handler.
GetOver  == get.at \in {"done", "raised"}
CallOver == IF get.at = "raised" THEN "ended" ELSE "idle"

RecvReturns ==
    /\ handler = "recv" /\ GetOver
    /\ read' = read \o get.result
    /\ Leave(CallOver)
    /\ UNCHANGED <<wire, events, assembler, putting, failsafe>>

Count(frames) == Len(SelectSeq(frames, LAMBDA frame : frame.fin))

BurstReturns ==
    /\ handler = "burst" /\ GetOver
    /\ get.result = <<>> \/ Count(messages \o get.result) >= MaxRecv
    /\ read' = IF get.at = "raised" THEN read ELSE read \o messages \o get.result
    /\ Leave(CallOver)
    /\ UNCHANGED <<wire, events, assembler, putting, failsafe>>

BurstSleeps ==
    /\ handler = "burst" /\ get.at = "done"
    /\ get.result # <<>> /\ Count(messages \o get.result) < MaxRecv
    /\ messages' = messages \o get.result
    /\ handler' = "sleep" /\ get' = NoGet
    /\ UNCHANGED <<wire, events, assembler, putting, failsafe, read, recv_cancel, can_pause>>

BurstGoesOn ==
    /\ handler = "sleep"
    /\ handler' = "burst" /\ get' = NewGet("zero")
    /\ UNCHANGED <<wire, events, assembler, putting, failsafe, read, recv_cancel,
                   messages, can_pause>>

StreamYields ==
    /\ handler = "stream" /\ chunks # <<>> /\ recv_cancel # "done"
    /\ read' = Append(read, Head(chunks))
    /\ chunks' = Tail(chunks)
    /\ UNCHANGED <<wire, events, streaming, sentinel, message_complete, message_fetched,
                   get_in_progress, paused, putting, failsafe,
                   handler, recv_cancel, messages, can_pause, get>>

StreamEnds ==
    /\ handler = "stream" /\ chunks = <<>> /\ sentinel
    /\ ResumeFrames
    /\ get_in_progress' = FALSE
    /\ Fetch(~get_in_progress \/ ~message_complete)
    /\ Leave("idle")
    /\ UNCHANGED <<sent, state, events, putting, read>>

\* CancelledError: the get() that waits is cancelled with the call, or what it
\* fetched is dropped; recv_streaming drops its generator.
Cancelled(next) ==
    /\ handler \in {"recv", "burst", "sleep", "stream"}
    /\ Leave(next)
    /\ UNCHANGED <<wire, events, assembler, putting, failsafe, read>>

\* by the end of the connection: seen in asyncio.wait, or at the next chunk
RecvCancelled ==
    /\ recv_cancel = "done"
    /\ handler \in {"recv", "burst"} \/ (handler = "stream" /\ chunks # <<>>)
    /\ \E next \in AfterCancel : Cancelled(next)

\* by the application, say wait_for(ws.recv(), 1)
Interrupted == \E next \in AfterCancel : Cancelled(next)

\* connection_lost() cancels the handler, wherever it is.
ConnectionLost ==
    /\ handler # "ended"
    /\ state' = "CLOSED"
    /\ Leave("ended")
    /\ UNCHANGED <<sent, reading, events, assembler, putting, failsafe, read>>

Handler ==
    \/ CallClosed \/ CallRecv \/ CallBurst \/ CallStreaming
    \/ RecvReturns \/ BurstReturns \/ BurstSleeps \/ BurstGoesOn
    \/ StreamYields \/ StreamEnds \/ RecvCancelled

Next ==
    \/ Receive \/ ReceiveClose \/ EofReceived \/ ConnectionLost
    \/ Worker \/ Getter \/ Handler \/ Interrupted

Spec == Init /\ [][Next]_vars

\* The event loop runs every task that is ready; the handler always calls again.
AssemblerFairness == WF_vars(Worker) /\ WF_vars(Getter) /\ WF_vars(Handler)

FairSpec == Spec /\ AssemblerFairness
-----------------------------------------------------------------------------
\* None of the errors that "should be guarded against" is ever raised: no
\* interleaving of put(), get() and get_iter() finds a message where there
\* should be none, or a second reader.
NoFailsafe == ~failsafe

\* The transport is paused only for a message that waits to be fetched, and
\* the assembler knows it paused it: it is never left paused with nothing to
\* make a get() resume it.
PausedForMessage ==
    /\ paused <=> ~reading
    /\ paused => message_complete /\ putting

\* Why NoFailsafe holds: a message in the assembler is held by the put() that
\* completed it, until it is fetched, and one reader at a time is in progress.
Handshake ==
    /\ message_complete => putting /\ ~message_fetched
    /\ message_fetched => putting
    /\ sentinel => message_complete
    /\ get.at = "wait" => handler = "recv" /\ get_in_progress
    /\ get.at = "start" /\ handler # "recv" => get.timeout = "zero"
    /\ get.at # "none" => handler \in {"recv", "burst"}
    /\ handler = "stream" => get_in_progress
    /\ get_in_progress => handler \in {"stream", "ended"} \/ get.at = "wait"

\* Messages reach the handler whole, in the order they were sent, each once,
\* through whichever mix of recv, recv_burst and recv_streaming it reads them,
\* and none is skipped as long as the handler runs.
Channel == INSTANCE MessageChannel
               WITH streams <- handler = "stream", over <- handler = "ended"
ImplementsChannel == Channel!Spec

\* A message received is a message read, if the handler keeps on calling and
\* is not ended: pausing, an early None or a stream never strands it.
MessageRead ==
    []<>(\/ handler = "ended"
         \/ \A n \in 1..Len(sent) : sent[n].fin => Len(read) >= n)
=============================================================================
