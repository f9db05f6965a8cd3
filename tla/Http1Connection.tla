--------------------------- MODULE Http1Connection ---------------------------
(***************************************************************************)
(* One HTTP/1.1 connection of a Sanic worker, from connection_made to the  *)
(* end of its transport: class Http (sanic/http/http1.py), HttpProtocol    *)
(* and SanicProtocol (sanic/server/protocols), and the part of             *)
(* Sanic.handle_request / handle_exception that decides what is sent.      *)
(*                                                                         *)
(* The event loop is one thread.  `pc' says where the connection task is:  *)
(* at an await that really suspends (Suspended), or running between two    *)
(* awaits.  A callback of the loop (data, timer, connection_lost, closer)  *)
(* can only run while the task is suspended.                               *)
(*                                                                         *)
(* Bytes are tokens: "half" and "head" are the two pieces of a request     *)
(* head, "byte" one unit of body, "size", "zero" and "end" the pieces of a *)
(* chunked body, "junk" a chunk header that does not parse.                *)
(***************************************************************************)
EXTENDS Integers, Sequences

CONSTANTS
    Kinds,          \* the requests a client may send, see KindType
    Styles,         \* how handlers respond: subset of {"whole", "sized", "chunked"}
    MaxRequests,    \* bound: requests one client sends on the connection
    MaxWire,        \* bound: writes a handler may add to the wire
    BufferSize,     \* config REQUEST_BUFFER_SIZE, in tokens
    MaxSize,        \* config REQUEST_MAX_SIZE, in units of body
    HighWater,      \* write buffer size above which the transport pauses writing
    ContentLength,  \* the length announced by a "sized" response
    GiveUp          \* the framings of the bodies whose handlers put a timeout of
                    \* their own around awaits

KindType == [body : Nat, framing : {"none", "length", "chunked", "junk"},
             keep : BOOLEAN, valid : BOOLEAN, upgrade : BOOLEAN,
             head : BOOLEAN, expect : BOOLEAN]

ASSUME ConnectionAssumption ==
    /\ Kinds \subseteq KindType
    /\ Styles \subseteq {"whole", "sized", "chunked"}
    /\ MaxRequests \in Nat /\ MaxWire \in Nat
    /\ BufferSize \in Nat \ {0} /\ MaxSize \in Nat
    /\ HighWater \in Nat /\ ContentLength \in Nat \ {0}
    /\ GiveUp \subseteq {"none", "length", "chunked", "junk"}

VARIABLES
    \* the client
    sent,                 \* how many requests it has begun to send
    planned,              \* the tokens of the current one not delivered yet
    \* the operator
    stopping,             \* the worker shuts down
    \* the transport (asyncio)
    tr,                   \* "open", "closing" (is_closing()), "lost"
    write_buffer,         \* writes the peer's kernel has not taken
    reading,              \* FALSE after pause_reading()
    \* the protocol object
    attached,             \* protocol.transport is not None
    can_write,            \* the event _can_write
    recv_buffer,
    data_received,        \* the event _data_received
    stale,                \* now - _time exceeds every timeout
    timer,                \* _callback_check_timeouts is scheduled
    closer,               \* _async_protocol_transport_close: "none", "check", "abort"
    cancelled,            \* task.cancel() was called, CancelledError not yet raised
    \* the Http object
    stage, keep_alive, exception,
    cycle,                \* how often http1() has entered Stage.REQUEST
    request,              \* the kind of the current request
    request_body, request_bytes_left, request_bytes, expecting_continue,
    lifted,               \* request_max_size was set to infinity
    response,             \* "none" or the style of self.response
    response_func, response_bytes_left,
    \* the connection task
    pc, ctx,              \* where it is, and for which frame it sends or reads
    pending,              \* the write in progress and the assignments after it
    \* what was written to the transport
    wire

client    == <<sent, planned, stopping>>
transport == <<tr, write_buffer, reading>>
protocol  == <<attached, can_write, recv_buffer, data_received, stale, timer,
               closer, cancelled>>
body      == <<request_body, request_bytes_left, request_bytes,
               expecting_continue, lifted>>
answer    == <<response, response_func, response_bytes_left>>
http      == <<stage, keep_alive, exception, cycle, request>>
task      == <<pc, ctx, pending, wire>>
vars      == <<client, transport, protocol, http, body, answer, task>>

------------------------------------------------------------------------------
(* Data *)

NoKind == [body |-> 0, framing |-> "none", keep |-> FALSE, valid |-> TRUE,
           upgrade |-> FALSE, head |-> FALSE, expect |-> FALSE]

Token(t) == [t |-> t, kind |-> NoKind]

\* the body of a request as it travels: n bytes, or n chunks of one byte each,
\* the last chunk and the final CRLF
BodyTokens(k) ==
    CASE k.framing = "none"   -> <<>>
      [] k.framing = "junk"   -> <<Token("junk")>>
      [] k.framing = "length" -> [i \in 1..k.body |-> Token("byte")]
      [] OTHER ->
           [i \in 1..(2 * k.body + 2) |->
              Token(IF i = 2 * k.body + 1 THEN "zero"
                    ELSE IF i = 2 * k.body + 2 THEN "end"
                    ELSE IF i % 2 = 1 THEN "size" ELSE "byte")]

Message(k) == <<Token("half"), [t |-> "head", kind |-> k]>> \o BodyTokens(k)

Idle == [item |-> "none", stage |-> "IDLE", func |-> "none", left |-> 0]

Stages == {"IDLE", "REQUEST", "HANDLER", "RESPONSE", "FAILED"}
Funcs  == {"none", "header", "chunked", "normal", "ignored"}

\* awaits at which the loop may run something else
Waiting   == {"idle", "header", "read_wait", "end_wait"}
Suspended == Waiting \cup {"start", "handler", "write_wait", "herr", "err1",
                           "err2", "nap", "done"}
Running   == {"loop", "parse", "read", "send", "after", "fail", "cancel",
              "drain", "finish"}
Frames    == {"handler", "tail", "herr", "final", "err1", "err2", "drain"}

------------------------------------------------------------------------------
(* The frames of the task: where control goes when a send or a read made   *)
(* by a frame returns, raises an Exception, or raises CancelledError.      *)
(*   handler  the route handler      tail   handle_request after it        *)
(*   herr     handle_exception called by handle_request                    *)
(*   final    response.send() at the end of a streamed response            *)
(*   err1, err2  the two handle_exception calls of error_response          *)
(*   drain    http1() consuming what is left of the request body           *)

OnReturn(c) ==
    CASE c = "handler"           -> "handler"
      [] c \in {"tail", "herr"}  -> "after"
      [] OTHER                   -> "drain"
OnRaise(c) ==
    CASE c \in {"handler", "tail"} -> "herr"
      [] c \in {"herr", "final"}   -> "fail"
      [] c = "err1"                -> "err2"
      [] OTHER                     -> "finish"
OnCancel(c) ==
    IF c \in {"handler", "tail", "herr", "final"} THEN "cancel" ELSE "finish"

\* what a CancelledError thrown at suspension point p leads to
CancelAt(p) ==
    CASE p = "start" -> "done"
      [] p \in {"idle", "nap", "err1", "err2"} -> "finish"
      [] p \in {"header", "handler", "herr"} -> "cancel"
      [] OTHER -> OnCancel(ctx)

------------------------------------------------------------------------------
(* Operations shared by the actions *)

\* (variant: reading is not resumed)
ReceiveMoreNoResume(p, orelse) ==
    /\ IF attached THEN data_received' = FALSE /\ pc' = p
                   ELSE pc' = orelse /\ UNCHANGED data_received
    /\ UNCHANGED reading

\* await receive_more(): resume_reading, clear the event, wait at p.  Without
\* a transport the call raises, and control goes to `orelse'.
ReceiveMore(p, orelse) ==
    IF attached
      THEN /\ reading' = TRUE
           /\ data_received' = FALSE
           /\ pc' = p
      ELSE /\ pc' = orelse
           /\ UNCHANGED <<reading, data_received>>

\* protocol.close()
Close ==
    /\ timer' = FALSE
    /\ IF attached /\ tr = "open"
         THEN tr' = "closing" /\ closer' = "check"
         ELSE UNCHANGED <<tr, closer>>

\* begin `await self._send(item)'; s, f and l are assigned after it returns
BeginSend(item, s, f, l) ==
    /\ pending' = [item |-> item, stage |-> s, func |-> f, left |-> l]
    /\ pc' = "send"

\* (variant: response_func is not replaced)
SendHeaderAgain(d, end) ==
    LET whole == end \/ response = "whole"
    IN /\ BeginSend(IF whole THEN "whole" ELSE "head",
                    IF whole THEN "IDLE" ELSE "RESPONSE", "header", 0)
       /\ expecting_continue' = FALSE
       /\ UNCHANGED <<stage, response_func, response_bytes_left>>

\* (variant: the stage of a streamed response is that of a whole one)
SendHeaderIdle(d, end) ==
    LET whole == end \/ response = "whole"
        func  == IF whole THEN "none" ELSE "chunked"
    IN /\ response_func' = func
       /\ expecting_continue' = FALSE
       /\ BeginSend(IF whole THEN "whole" ELSE "head", "IDLE", func, 0)
       /\ UNCHANGED <<stage, response_bytes_left>>

\* http1_response_header: the next response_func is chosen before the await
SendHeader(d, end) ==
    LET whole == end \/ response = "whole"
        func  == IF request.head THEN "ignored"
                 ELSE IF whole THEN "none"
                 ELSE IF response = "sized" THEN "normal" ELSE "chunked"
        left  == IF func = "normal" THEN ContentLength - d
                                    ELSE response_bytes_left
    IN /\ response_func' = func
       /\ response_bytes_left' = left
       /\ expecting_continue' = FALSE
       /\ BeginSend(IF whole \/ request.head THEN "whole" ELSE "head",
                    IF whole THEN "IDLE" ELSE "RESPONSE", func, left)
       /\ UNCHANGED stage

\* http1_response_chunked and http1_response_normal
SendBody(c, d, end) ==
    /\ UNCHANGED <<stage, response_func, response_bytes_left, expecting_continue>>
    /\ \/ /\ response_func = "chunked"
          /\ IF end THEN BeginSend("last", "IDLE", "none", response_bytes_left)
             ELSE IF d > 0
               THEN BeginSend("data", stage, response_func, response_bytes_left)
               ELSE pc' = OnReturn(c) /\ UNCHANGED pending
       \/ /\ response_func = "normal"
          /\ LET left == response_bytes_left - d
             IN IF left < 0 \/ (left > 0 /\ end)
                  THEN pc' = OnRaise(c) /\ UNCHANGED pending
                ELSE IF left = 0 THEN BeginSend("last", "IDLE", "none", 0)
                ELSE BeginSend("data", stage, response_func, left)

\* head_response_ignored is not a coroutine: awaiting its None raises TypeError
SendIgnored(c, end) ==
    /\ response_func = "ignored"
    /\ IF end THEN response_func' = "none" /\ stage' = "IDLE"
              ELSE UNCHANGED <<response_func, stage>>
    /\ pc' = OnRaise(c)
    /\ UNCHANGED <<response_bytes_left, expecting_continue, pending>>

\* BaseHTTPResponse.send(d units of data, end_stream) called by frame c
ResponseSend(c, d, end) ==
    /\ ctx' = c
    /\ \/ /\ response_func = "none"
          /\ pc' = IF end /\ d = 0 THEN OnReturn(c) ELSE OnRaise(c)
          /\ UNCHANGED <<stage, response_func, response_bytes_left,
                         expecting_continue, pending>>
       \/ response_func = "header" /\ SendHeader(d, end)
       \/ SendBody(c, d, end)
       \/ SendIgnored(c, end)

------------------------------------------------------------------------------
(* The connection task *)

\* connection_task -> _setup_connection: a fresh Http, first check_timeouts
TaskStart ==
    /\ pc = "start" /\ ~cancelled
    /\ timer' = TRUE
    /\ pc' = "loop"
    /\ UNCHANGED <<client, transport, attached, can_write, recv_buffer, stale,
                   data_received, closer, cancelled, http, body, answer, ctx,
                   pending, wire>>

\* http1(): the while condition, init_for_request and the wait for bytes
Loop ==
    /\ pc = "loop"
    /\ IF keep_alive /\ stage = "IDLE"
         THEN /\ request' = NoKind
              /\ exception' = "none"
              /\ request_body' = "none" /\ request_bytes_left' = 0
              /\ request_bytes' = 0 /\ expecting_continue' = FALSE
              /\ lifted' = FALSE
              /\ response' = "none"
              /\ IF recv_buffer = <<>>
                   THEN /\ ReceiveMore("idle", "finish")
                        /\ UNCHANGED <<stage, cycle, response_func>>
                   ELSE /\ stage' = "REQUEST"
                        /\ cycle' = cycle + 1
                        /\ response_func' = "header"
                        /\ pc' = "parse"
                        /\ UNCHANGED <<reading, data_received>>
         ELSE /\ pc' = "finish"
              /\ UNCHANGED <<request, exception, body, response, stage, cycle,
                             response_func, reading, data_received>>
    /\ UNCHANGED <<client, tr, write_buffer, attached, can_write, recv_buffer,
                   stale, timer, closer, cancelled, keep_alive,
                   response_bytes_left, ctx, pending, wire>>

IdleWake ==
    /\ pc = "idle" /\ data_received /\ ~cancelled
    /\ stage' = "REQUEST"
    /\ cycle' = cycle + 1
    /\ response_func' = "header"
    /\ pc' = "parse"
    /\ UNCHANGED <<client, transport, protocol, keep_alive, exception, request,
                   body, response, response_bytes_left, ctx, pending, wire>>

\* http1_request_header: the bytes in the buffer hold no whole head yet
HeadIncomplete ==
    recv_buffer = <<>> \/ (Len(recv_buffer) = 1 /\ recv_buffer[1].t = "half")

ParseWait ==
    /\ pc = "parse" /\ HeadIncomplete
    /\ ReceiveMore("header", "fail")
    /\ UNCHANGED <<client, tr, write_buffer, attached, can_write, recv_buffer,
                   stale, timer, closer, cancelled, http, body, answer, ctx,
                   pending, wire>>

HeaderWake ==
    /\ pc = "header" /\ data_received /\ ~cancelled
    /\ pc' = "parse"
    /\ UNCHANGED <<client, transport, protocol, http, body, answer, ctx,
                   pending, wire>>

\* the head does not parse (or is refused) before it is taken off the buffer
ParseBad ==
    /\ pc = "parse" /\ ~HeadIncomplete
    /\ recv_buffer[1].t = "half" => ~recv_buffer[2].kind.valid
    /\ pc' = "fail"
    /\ UNCHANGED <<client, transport, protocol, http, body, answer, ctx,
                   pending, wire>>

ParseGood ==
    /\ pc = "parse" /\ ~HeadIncomplete
    /\ Len(recv_buffer) >= 2 /\ recv_buffer[1].t = "half"
    /\ LET k == recv_buffer[2].kind
       IN /\ k.valid
          /\ request' = k
          /\ keep_alive' = k.keep
          /\ request_body' = CASE k.framing = "none"   -> "none"
                               [] k.framing = "length" -> "length"
                               [] OTHER                -> "chunked"
          /\ request_bytes' = IF k.framing = "length" THEN k.body ELSE 0
          /\ request_bytes_left' = IF k.framing = "length" THEN k.body ELSE 0
          /\ expecting_continue' = (k.expect /\ k.framing # "none")
    /\ recv_buffer' = SubSeq(recv_buffer, 3, Len(recv_buffer))
    /\ stage' = "HANDLER"
    /\ lifted' \in BOOLEAN      \* the route may be a streaming one
    /\ pc' = "handler"
    /\ ctx' = "handler"
    /\ UNCHANGED <<client, transport, attached, can_write, data_received, stale,
                   timer, closer, cancelled, exception, cycle, answer, pending,
                   wire>>

------------------------------------------------------------------------------
(* The route handler.  Every action is one await or call of it.            *)

InHandler == pc = "handler" /\ ~cancelled

\* reading the body: by a streaming handler, or receive_body() before it
HandlerRead ==
    /\ InHandler /\ request_body # "none"
    /\ pc' = "read" /\ ctx' = "handler"
    /\ UNCHANGED <<client, transport, protocol, http, body, answer, pending, wire>>

\* request.respond(); a second call raises ServerError
HandlerRespond ==
    /\ InHandler
    /\ \/ /\ response = "none" /\ stage = "HANDLER"
          /\ response' \in Styles
          /\ UNCHANGED <<pc, stage>>
       \/ /\ response # "none"
          /\ pc' = "herr"
          /\ UNCHANGED <<response, stage>>
    /\ UNCHANGED <<client, transport, protocol, keep_alive, exception, cycle,
                   request, body, response_func, response_bytes_left, ctx,
                   pending, wire>>

\* response.send(data) by a handler that holds the response of the request
HandlerSend ==
    /\ InHandler /\ response # "none" /\ Len(wire) < MaxWire
    /\ \E d \in 0..1, end \in BOOLEAN : ResponseSend("handler", d, end)
    /\ UNCHANGED <<client, transport, protocol, keep_alive, exception, cycle,
                   request, request_body, request_bytes_left, request_bytes,
                   lifted, response, wire>>

HandlerRaise ==
    /\ InHandler
    /\ pc' = "herr"
    /\ UNCHANGED <<client, transport, protocol, http, body, answer, ctx,
                   pending, wire>>

\* the handler returns: handle_request sends what was returned, or ends the
\* response the handler began
HandlerReturn ==
    /\ InHandler
    /\ response' = IF response = "none" THEN "whole" ELSE response
    /\ ResponseSend("tail", 0, TRUE)
    /\ UNCHANGED <<client, transport, protocol, keep_alive, exception, cycle,
                   request, request_body, request_bytes_left, request_bytes,
                   lifted, wire>>

\* a websocket handler returns nothing; the connection is not reused
HandlerReturnWebsocket ==
    /\ InHandler /\ request.upgrade
    /\ pc' = "after"
    /\ UNCHANGED <<client, transport, protocol, http, body, answer, ctx,
                   pending, wire>>

\* asyncio.wait_for() around a read or a send expires and is caught
HandlerGivesUp ==
    /\ request.framing \in GiveUp /\ ctx = "handler" /\ ~cancelled
    /\ pc \in {"read_wait", "end_wait", "write_wait"}
    /\ pc' = "handler"
    /\ pending' = Idle
    /\ UNCHANGED <<client, transport, protocol, http, body, answer, ctx, wire>>

------------------------------------------------------------------------------
(* Sending *)

\* protocol.send(): wait for _can_write
Send ==
    /\ pc = "send" /\ ~can_write
    /\ pc' = "write_wait"
    /\ UNCHANGED <<client, transport, protocol, http, body, answer, ctx,
                   pending, wire>>

MayWrite == pc = "send" \/ (pc = "write_wait" /\ ~cancelled)

\* (variant: is_closing() is not asked)
WriteUnchecked ==
    /\ MayWrite /\ can_write /\ attached
    /\ wire' = Append(wire, [item |-> pending.item, cycle |-> cycle])
    /\ write_buffer' = write_buffer + 1
    /\ can_write' = (write_buffer' <= HighWater)
    /\ stale' = FALSE
    /\ pending' = Idle
    /\ IF pending.item = "continue"
         THEN pc' = "read" /\ UNCHANGED <<stage, response_func, response_bytes_left>>
         ELSE /\ pc' = OnReturn(ctx)
              /\ stage' = pending.stage
              /\ response_func' = pending.func
              /\ response_bytes_left' = pending.left
    /\ UNCHANGED <<client, tr, reading, attached, recv_buffer, data_received,
                   timer, closer, cancelled, keep_alive, exception, cycle,
                   request, body, response, ctx>>

\* transport.write() and the assignments that follow the await
Write ==
    /\ MayWrite /\ can_write /\ attached /\ tr = "open"
    /\ wire' = Append(wire, [item |-> pending.item, cycle |-> cycle])
    /\ write_buffer' = write_buffer + 1
    /\ can_write' = (write_buffer' <= HighWater)
    /\ stale' = FALSE
    /\ pending' = Idle
    /\ IF pending.item = "continue"
         THEN pc' = "read" /\ UNCHANGED <<stage, response_func, response_bytes_left>>
         ELSE /\ pc' = OnReturn(ctx)
              /\ stage' = pending.stage
              /\ response_func' = pending.func
              /\ response_bytes_left' = pending.left
    /\ UNCHANGED <<client, tr, reading, attached, recv_buffer, data_received,
                   timer, closer, cancelled, keep_alive, exception, cycle,
                   request, body, response, ctx>>

\* the transport is closing: RequestCancelled, a CancelledError; or it is gone:
\* AttributeError
WriteRefused ==
    /\ MayWrite /\ can_write /\ (~attached \/ tr # "open")
    /\ pc' = IF attached THEN OnCancel(ctx) ELSE OnRaise(ctx)
    /\ pending' = Idle
    /\ UNCHANGED <<client, transport, protocol, http, body, answer, ctx, wire>>

WriteCancelled ==
    /\ pc = "write_wait" /\ cancelled
    /\ pc' = OnCancel(ctx)
    /\ pending' = Idle
    /\ cancelled' = FALSE
    /\ UNCHANGED <<client, transport, attached, can_write, recv_buffer, stale,
                   data_received, timer, closer, http, body, answer, ctx, wire>>

------------------------------------------------------------------------------
(* Http.read(), called by the handler or by the final drain (ctx) *)

TooLarge == ~lifted /\ request_bytes > MaxSize

NeedsChunkHeader == request_body = "chunked" /\ request_bytes_left = 0

\* a 100-continue the client asked for precedes the first read
ReadContinue ==
    /\ pc = "read" /\ expecting_continue
    /\ expecting_continue' = FALSE
    /\ BeginSend("continue", stage, response_func, response_bytes_left)
    /\ UNCHANGED <<client, transport, protocol, http, request_body, answer,
                   request_bytes_left, request_bytes, lifted, ctx, wire>>

\* chunk header, or data, not in the buffer yet
ReadWait ==
    /\ pc = "read" /\ ~expecting_continue /\ recv_buffer = <<>>
    /\ NeedsChunkHeader \/ (~TooLarge /\ request_bytes_left > 0)
    /\ ReceiveMore("read_wait", OnRaise(ctx))
    /\ UNCHANGED <<client, tr, write_buffer, attached, can_write, recv_buffer,
                   stale, timer, closer, cancelled, http, body, answer, ctx,
                   pending, wire>>

ReadChunkHeader ==
    /\ pc = "read" /\ ~expecting_continue /\ NeedsChunkHeader
    /\ recv_buffer # <<>>
    /\ \/ /\ recv_buffer[1].t = "size"
          /\ recv_buffer' = Tail(recv_buffer)
          /\ request_bytes_left' = 1
          /\ request_bytes' = request_bytes + 1
          /\ UNCHANGED <<keep_alive, request_body, reading, data_received, pc>>
       \/ /\ recv_buffer[1].t = "zero"
          /\ request_body' = "none"
          /\ IF Len(recv_buffer) > 1
               THEN /\ recv_buffer' = SubSeq(recv_buffer, 3, Len(recv_buffer))
                    /\ pc' = OnReturn(ctx)
                    /\ UNCHANGED <<reading, data_received>>
               ELSE /\ ReceiveMore("end_wait", OnRaise(ctx))
                    /\ UNCHANGED recv_buffer
          /\ UNCHANGED <<keep_alive, request_bytes_left, request_bytes>>
       \/ /\ recv_buffer[1].t \notin {"size", "zero"}
          /\ keep_alive' = FALSE
          /\ pc' = OnRaise(ctx)
          /\ UNCHANGED <<recv_buffer, request_body, request_bytes_left,
                         request_bytes, reading, data_received>>
    /\ UNCHANGED <<client, tr, write_buffer, attached, can_write, stale, timer,
                   closer, cancelled, stage, exception, cycle, request, lifted,
                   expecting_continue, answer, ctx, pending, wire>>

\* PayloadTooLarge; in the drain it is caught, after a little sleep
ReadTooLarge ==
    /\ pc = "read" /\ ~expecting_continue /\ ~NeedsChunkHeader /\ TooLarge
    /\ keep_alive' = FALSE
    /\ pc' = IF ctx = "drain" THEN "nap" ELSE OnRaise(ctx)
    /\ UNCHANGED <<client, transport, protocol, stage, exception, cycle,
                   request, body, answer, ctx, pending, wire>>

ReadEnd ==
    /\ pc = "read" /\ ~expecting_continue /\ ~NeedsChunkHeader /\ ~TooLarge
    /\ request_bytes_left = 0
    /\ request_body' = "none"
    /\ pc' = OnReturn(ctx)
    /\ UNCHANGED <<client, transport, protocol, http, request_bytes_left,
                   request_bytes, expecting_continue, lifted, answer, ctx,
                   pending, wire>>

\* (variant: all that is in the buffer is counted as body)
ReadDataAll ==
    /\ pc = "read" /\ ~expecting_continue /\ ~TooLarge
    /\ request_bytes_left > 0 /\ recv_buffer # <<>>
    /\ recv_buffer' = SubSeq(recv_buffer, request_bytes_left + 1, Len(recv_buffer))
    /\ request_bytes_left' = request_bytes_left - Len(recv_buffer)
    /\ pc' = OnReturn(ctx)
    /\ UNCHANGED <<client, transport, attached, can_write, data_received, stale,
                   timer, closer, cancelled, http, request_body, request_bytes,
                   expecting_continue, lifted, answer, ctx, pending, wire>>

\* up to request_bytes_left units leave the buffer, whatever they are
ReadData ==
    /\ pc = "read" /\ ~expecting_continue /\ ~TooLarge
    /\ request_bytes_left > 0 /\ recv_buffer # <<>>
    /\ LET n == IF Len(recv_buffer) < request_bytes_left
                  THEN Len(recv_buffer) ELSE request_bytes_left
       IN /\ recv_buffer' = SubSeq(recv_buffer, n + 1, Len(recv_buffer))
          /\ request_bytes_left' = request_bytes_left - n
    /\ pc' = OnReturn(ctx)
    /\ UNCHANGED <<client, transport, attached, can_write, data_received, stale,
                   timer, closer, cancelled, http, request_body, request_bytes,
                   expecting_continue, lifted, answer, ctx, pending, wire>>

ReadWake ==
    /\ pc = "read_wait" /\ data_received /\ ~cancelled
    /\ pc' = "read"
    /\ UNCHANGED <<client, transport, protocol, http, body, answer, ctx,
                   pending, wire>>

\* the final CRLF of a chunked body has arrived
ReadEndWake ==
    /\ pc = "end_wait" /\ data_received /\ ~cancelled
    /\ recv_buffer' = SubSeq(recv_buffer, 3, Len(recv_buffer))
    /\ pc' = OnReturn(ctx)
    /\ UNCHANGED <<client, transport, attached, can_write, data_received, stale,
                   timer, closer, cancelled, http, body, answer, ctx, pending,
                   wire>>

------------------------------------------------------------------------------
(* After the handler, and errors *)

\* handle_exception called by handle_request: silent once a response began
HandleException ==
    /\ pc = "herr" /\ ~cancelled
    /\ IF stage = "HANDLER"
         THEN /\ response' = "whole"
              /\ ResponseSend("herr", 0, TRUE)
         ELSE /\ pc' = "after"
              /\ UNCHANGED <<response, stage, response_func, ctx, pending,
                             response_bytes_left, expecting_continue>>
    /\ UNCHANGED <<client, transport, protocol, keep_alive, exception, cycle,
                   request, request_body, request_bytes_left, request_bytes,
                   lifted, wire>>

\* http1() once request_handler has returned
After ==
    /\ pc = "after"
    /\ CASE stage = "HANDLER" /\ ~request.upgrade ->
              /\ pc' = "fail"
              /\ UNCHANGED <<stage, response_func, response_bytes_left, ctx,
                             expecting_continue, pending>>
         [] stage = "RESPONSE" -> ResponseSend("final", 0, TRUE)
         [] OTHER ->
              /\ pc' = "drain"
              /\ UNCHANGED <<stage, response_func, response_bytes_left, ctx,
                             expecting_continue, pending>>
    /\ UNCHANGED <<client, transport, protocol, keep_alive, exception, cycle,
                   request, request_body, request_bytes_left, request_bytes,
                   lifted, response, wire>>

\* except CancelledError in http1()
CancelBranch ==
    /\ pc = "cancel"
    /\ IF ~attached
         THEN pc' = "finish" /\ UNCHANGED <<exception, keep_alive>>
         ELSE /\ exception' = "none"
              /\ keep_alive' = FALSE
              /\ pc' = "fail"
    /\ UNCHANGED <<client, transport, protocol, stage, cycle, request, body,
                   answer, ctx, pending, wire>>

\* error_response(): only the REQUEST and HANDLER stages can still respond
ErrorResponse ==
    /\ pc = "fail"
    /\ keep_alive' = (keep_alive /\ stage = "HANDLER")
    /\ IF stage \in {"REQUEST", "HANDLER"}
         THEN stage' = "HANDLER" /\ pc' = "err1"
         ELSE pc' = "drain" /\ UNCHANGED stage
    /\ UNCHANGED <<client, transport, protocol, exception, cycle, request, body,
                   answer, ctx, pending, wire>>

\* the error handler has produced a response: first and second attempt
ErrorHandled ==
    /\ pc \in {"err1", "err2"} /\ ~cancelled
    /\ IF stage = "HANDLER"
         THEN /\ response' = "whole"
              /\ ResponseSend(pc, 0, TRUE)
         ELSE /\ pc' = "drain"
              /\ UNCHANGED <<response, stage, response_func, ctx, pending,
                             response_bytes_left, expecting_continue>>
    /\ UNCHANGED <<client, transport, protocol, keep_alive, exception, cycle,
                   request, request_body, request_bytes_left, request_bytes,
                   lifted, wire>>

\* (variant: the rest of the body is left where it is)
DrainNothing ==
    /\ pc = "drain"
    /\ pc' = "loop"
    /\ ctx' = "drain" /\ lifted' = FALSE
    /\ UNCHANGED <<client, transport, protocol, http, request_body,
                   request_bytes_left, request_bytes, expecting_continue,
                   answer, pending, wire>>

\* the rest of the body is read and thrown away, with the size limit back
Drain ==
    /\ pc = "drain"
    /\ ctx' = "drain"
    /\ lifted' = FALSE
    /\ pc' = IF request_body # "none" THEN "read" ELSE "loop"
    /\ UNCHANGED <<client, transport, protocol, http, request_body,
                   request_bytes_left, request_bytes, expecting_continue,
                   answer, pending, wire>>

NapEnd ==
    /\ pc = "nap" /\ ~cancelled
    /\ pc' = "loop"
    /\ UNCHANGED <<client, transport, protocol, http, body, answer, ctx,
                   pending, wire>>

\* a CancelledError at any other await
Cancelled ==
    /\ cancelled
    /\ pc \in {"start", "idle", "header", "handler", "read_wait", "end_wait",
               "herr", "err1", "err2", "nap"}
    /\ cancelled' = FALSE
    /\ pc' = CancelAt(pc)
    /\ UNCHANGED <<client, transport, attached, can_write, recv_buffer, stale,
                   data_received, timer, closer, http, body, answer, ctx,
                   pending, wire>>

\* (variant: a connection that failed is not closed)
FinishUnclosed ==
    /\ pc = "finish"
    /\ IF stage = "IDLE" THEN Close ELSE timer' = FALSE /\ UNCHANGED <<tr, closer>>
    /\ pc' = "done"
    /\ cancelled' = FALSE
    /\ UNCHANGED <<client, write_buffer, reading, attached, can_write, stale,
                   recv_buffer, data_received, http, body, answer, ctx,
                   pending, wire>>

\* the finally clause of connection_task
Finish ==
    /\ pc = "finish"
    /\ Close
    /\ pc' = "done"
    /\ cancelled' = FALSE
    /\ UNCHANGED <<client, write_buffer, reading, attached, can_write, stale,
                   recv_buffer, data_received, http, body, answer, ctx,
                   pending, wire>>

------------------------------------------------------------------------------
(* Callbacks of the event loop and the outside world: only at an await     *)

AtAwait == pc \in Suspended

\* the client decides on its next request (pipelining is allowed)
ClientRequest ==
    /\ planned = <<>> /\ sent < MaxRequests
    /\ \E k \in Kinds : planned' = Message(k)
    /\ sent' = sent + 1
    /\ UNCHANGED <<stopping, transport, protocol, http, body, answer, task>>

\* HttpProtocol.data_received
DataReceived ==
    /\ AtAwait /\ planned # <<>> /\ tr = "open" /\ reading
    /\ recv_buffer' = Append(recv_buffer, Head(planned))
    /\ planned' = Tail(planned)
    /\ stale' = FALSE
    /\ reading' = (Len(recv_buffer') < BufferSize)
    /\ data_received' = TRUE
    /\ UNCHANGED <<sent, stopping, tr, write_buffer, attached, can_write,
                   timer, closer, cancelled, http, body, answer, task>>

\* the peer closes its side: the transport starts closing by itself, once it
\* reads or writes
PeerClosed ==
    /\ AtAwait /\ tr = "open" /\ (reading \/ write_buffer > 0)
    /\ tr' = "closing"
    /\ UNCHANGED <<client, write_buffer, reading, protocol, http, body, answer,
                   task>>

\* the peer's kernel takes a write; below the low mark writing resumes
SocketDrain ==
    /\ AtAwait /\ tr # "lost" /\ write_buffer > 0
    /\ write_buffer' = write_buffer - 1
    /\ can_write' = (can_write \/ write_buffer' = 0)
    /\ UNCHANGED <<client, tr, reading, attached, recv_buffer, data_received,
                   stale, timer, closer, cancelled, http, body, answer, task>>

\* SanicProtocol.connection_lost, once everything is flushed or thrown away
ConnectionLost ==
    /\ AtAwait /\ tr = "closing" /\ write_buffer = 0
    /\ tr' = "lost"
    /\ can_write' = TRUE
    /\ cancelled' = (pc # "done")
    /\ UNCHANGED <<client, write_buffer, reading, attached, recv_buffer,
                   data_received, stale, timer, closer, http, body, answer, task>>

\* time passes without traffic
TimePasses ==
    /\ AtAwait /\ ~stale
    /\ stale' = TRUE
    /\ UNCHANGED <<client, transport, attached, can_write, recv_buffer,
                   data_received, timer, closer, cancelled, http, body, answer,
                   task>>

\* (variant: a connection kept alive has no timeout)
CheckTimeoutsNotIdle ==
    /\ AtAwait /\ timer
    /\ IF pc = "done" \/ (stage = "HANDLER" /\ request.upgrade)
         THEN timer' = FALSE /\ UNCHANGED <<exception, cancelled>>
         ELSE /\ stale
              /\ timer' = FALSE
              /\ cancelled' = (cancelled \/ stage # "IDLE")
              /\ exception' = CASE stage = "REQUEST" -> "request_timeout"
                                [] stage = "IDLE"    -> exception
                                [] OTHER             -> "response_timeout"
    /\ UNCHANGED <<client, transport, attached, can_write, recv_buffer, stale,
                   data_received, closer, stage, keep_alive, cycle, request,
                   body, answer, task>>

\* HttpProtocol.check_timeouts.  It reschedules itself only when nothing has
\* expired; a websocket upgrade ends it, and so does the cancel of the task.
CheckTimeouts ==
    /\ AtAwait /\ timer
    /\ IF pc = "done" \/ (stage = "HANDLER" /\ request.upgrade)
         THEN timer' = FALSE /\ UNCHANGED <<exception, cancelled>>
         ELSE /\ stale
              /\ timer' = FALSE
              /\ cancelled' = TRUE
              /\ exception' = CASE stage = "REQUEST" -> "request_timeout"
                                [] stage = "IDLE"    -> exception
                                [] OTHER             -> "response_timeout"
    /\ UNCHANGED <<client, transport, attached, can_write, recv_buffer, stale,
                   data_received, closer, stage, keep_alive, cycle, request,
                   body, answer, task>>

\* _async_protocol_transport_close: done when the transport is lost, an abort
\* when it is not (at once, or when the timeout for flushing has run out)
CheckClosed ==
    /\ AtAwait /\ closer = "check"
    /\ IF attached /\ tr # "lost"
         THEN closer' = "abort" /\ UNCHANGED attached
         ELSE closer' = "none" /\ attached' = FALSE
    /\ UNCHANGED <<client, transport, can_write, recv_buffer, data_received,
                   stale, timer, cancelled, http, body, answer, task>>

\* SanicProtocol.abort: the transport drops its buffer and closes
Abort ==
    /\ attached' = FALSE
    /\ IF attached /\ tr # "lost"
         THEN tr' = "closing" /\ write_buffer' = 0
         ELSE UNCHANGED <<tr, write_buffer>>

CloserAbort ==
    /\ AtAwait /\ closer = "abort"
    /\ closer' = "none"
    /\ Abort
    /\ UNCHANGED <<client, reading, can_write, recv_buffer, data_received,
                   stale, timer, cancelled, http, body, answer, task>>

\* graceful shutdown (serve._cleanup) calls close_if_idle on every connection
ShutdownBegin ==
    /\ AtAwait /\ ~stopping
    /\ stopping' = TRUE
    /\ IF pc \in {"start", "done"} \/ stage = "IDLE"
         THEN Close ELSE UNCHANGED <<timer, tr, closer>>
    /\ UNCHANGED <<sent, planned, write_buffer, reading, attached, can_write,
                   recv_buffer, data_received, stale, cancelled, http, body,
                   answer, task>>

\* at the end of the graceful period the connections left are aborted
ShutdownAbort ==
    /\ AtAwait /\ stopping /\ attached
    /\ Abort
    /\ UNCHANGED <<client, reading, can_write, recv_buffer, stale,
                   data_received, timer, closer, cancelled, http, body, answer,
                   task>>

------------------------------------------------------------------------------
(* The specification *)

Init ==
    /\ sent = 0 /\ planned = <<>> /\ stopping = FALSE
    /\ tr = "open" /\ write_buffer = 0 /\ reading = TRUE
    /\ attached = TRUE /\ can_write = TRUE /\ recv_buffer = <<>>
    /\ data_received = FALSE /\ stale = FALSE /\ timer = FALSE
    /\ closer = "none" /\ cancelled = FALSE
    /\ stage = "IDLE" /\ keep_alive = TRUE /\ exception = "none"
    /\ cycle = 0 /\ request = NoKind
    /\ request_body = "none" /\ request_bytes_left = 0 /\ request_bytes = 0
    /\ expecting_continue = FALSE /\ lifted = FALSE
    /\ response = "none" /\ response_func = "none" /\ response_bytes_left = 0
    /\ pc = "start" /\ ctx = "handler" /\ pending = Idle /\ wire = <<>>

Handler ==
    \/ HandlerRead \/ HandlerRespond \/ HandlerSend \/ HandlerRaise
    \/ HandlerReturn \/ HandlerReturnWebsocket \/ HandlerGivesUp

\* what the task does by itself, the handler's own decisions apart
TaskStep ==
    \/ TaskStart \/ Loop \/ IdleWake \/ ParseWait \/ HeaderWake \/ ParseBad
    \/ ParseGood \/ Send \/ Write \/ WriteRefused \/ WriteCancelled
    \/ ReadContinue \/ ReadWait \/ ReadChunkHeader \/ ReadTooLarge \/ ReadEnd
    \/ ReadData \/ ReadWake \/ ReadEndWake \/ HandleException \/ After
    \/ CancelBranch \/ ErrorResponse \/ ErrorHandled \/ Drain \/ NapEnd
    \/ Cancelled \/ Finish

Peer == ClientRequest \/ DataReceived \/ PeerClosed \/ SocketDrain

Loopback ==
    \/ ConnectionLost \/ TimePasses \/ CheckTimeouts \/ CheckClosed
    \/ CloserAbort

Shutdown == ShutdownBegin \/ ShutdownAbort

Next == Handler \/ TaskStep \/ Peer \/ Loopback \/ Shutdown

Spec == Init /\ [][Next]_vars

\* The loop runs what is ready: the task, its timers and its callbacks.  Nothing
\* is assumed of the client, of the handler or of the operator.
Fairness ==
    /\ WF_vars(TaskStep)
    /\ WF_vars(ConnectionLost)
    /\ WF_vars(TimePasses)
    /\ WF_vars(CheckTimeouts)
    /\ WF_vars(CheckClosed)
    /\ WF_vars(CloserAbort)
    /\ WF_vars(ShutdownAbort)

FairSpec == Spec /\ Fairness

------------------------------------------------------------------------------
(* Properties *)

Tokens == [t : {"half", "head", "byte", "size", "zero", "end", "junk"},
           kind : KindType]

ClientType ==
    sent \in Nat /\ planned \in Seq(Tokens) /\ stopping \in BOOLEAN
TransportType ==
    tr \in {"open", "closing", "lost"} /\ write_buffer \in Nat /\ reading \in BOOLEAN
ProtocolType ==
    /\ attached \in BOOLEAN /\ can_write \in BOOLEAN
    /\ recv_buffer \in Seq(Tokens)
    /\ data_received \in BOOLEAN /\ stale \in BOOLEAN /\ timer \in BOOLEAN
    /\ closer \in {"none", "check", "abort"} /\ cancelled \in BOOLEAN
HttpType ==
    /\ stage \in Stages /\ keep_alive \in BOOLEAN
    /\ exception \in {"none", "request_timeout", "response_timeout"}
    /\ cycle \in Nat /\ request \in KindType
BodyType ==
    /\ request_body \in {"none", "length", "chunked"}
    /\ request_bytes_left \in Nat /\ request_bytes \in Nat
    /\ expecting_continue \in BOOLEAN /\ lifted \in BOOLEAN
AnswerType ==
    /\ response \in {"none", "whole", "sized", "chunked"}
    /\ response_func \in Funcs /\ response_bytes_left \in Nat
TaskType ==
    /\ pc \in Suspended \cup Running /\ ctx \in Frames
    /\ pending \in [item : {"none", "continue", "head", "whole", "data", "last"},
                    stage : Stages, func : Funcs, left : Nat]
WireType ==
    wire \in Seq([item : {"continue", "head", "whole", "data", "last"},
                  cycle : Nat])

\* Types of all variables, and what is being written while a send is in progress.
TypeOK ==
    /\ ClientType /\ TransportType /\ ProtocolType /\ HttpType /\ BodyType
    /\ AnswerType /\ TaskType /\ WireType
    /\ pc \in {"send", "write_wait"} <=> pending.item # "none"

Heads(c)  == {i \in 1..Len(wire) : wire[i].cycle = c /\ wire[i].item \in {"head", "whole"}}
Ends(c)   == {i \in 1..Len(wire) : wire[i].cycle = c /\ wire[i].item \in {"last", "whole"}}
Pieces(c) == {i \in 1..Len(wire) : wire[i].cycle = c /\ wire[i].item \in {"data", "last"}}

\* What a peer can parse: a request gets at most one response head, no piece of
\* a body travels without or before its head, nothing follows the end of a
\* response, and a 100 Continue never comes after the head.
\* (http1_response_header replaces response_func before its await, and stage
\* after it; errors and timeouts answer in between.)
WellFramed ==
    \A c \in {wire[i].cycle : i \in 1..Len(wire)} :
        /\ \A i, j \in Heads(c) : i = j
        /\ \A i \in Pieces(c) : \E j \in Heads(c) : j < i
        /\ \A i \in Ends(c), j \in 1..Len(wire) : wire[j].cycle = c => j <= i
        /\ \A i \in Heads(c), j \in 1..Len(wire) :
              wire[j] = [item |-> "continue", cycle |-> c] => j < i

\* On an open transport a request head is only looked for where one begins:
\* whatever the handler and the errors did, no byte of the previous body is left
\* in front of it.
\* (read(), the final drain of http1(), keep_alive.)
RequestBoundary ==
    pc = "parse" /\ tr = "open" => recv_buffer[1].t = "half"

\* On an open transport the loop goes on to another request only over a finished
\* response.  (`while self.keep_alive and self.stage is Stage.IDLE')
NextAfterEnd ==
    [][cycle' > cycle /\ cycle > 0 /\ tr = "open" => Ends(cycle) # {}]_vars

\* The connection implements the request/response cycle it promises.
Phase == IF cycle = 0 \/ Ends(cycle) # {} THEN "ended"
         ELSE IF Heads(cycle) # {} THEN "begun" ELSE "taken"

Cycle == INSTANCE RequestCycle WITH
            taken <- cycle, phase <- Phase, open <- (tr = "open")

ImplementsCycle == Cycle!Spec

\* Backpressure on reading never starves the task: while it waits for data on an
\* open transport, reading goes on or the data that paused it is waiting to be
\* seen.  (data_received pauses, receive_more resumes.)
NoStarvation ==
    pc \in Waiting /\ tr = "open" /\ ~reading => data_received

\* A connection task never ends without closing its transport.
NeverLeftOpen == pc = "done" => tr # "open"

\* The task of a connection whose client has stopped sending ends, whether the
\* connection is lost (the CancelledError gets it out of whatever it awaits), times
\* out or is closed.
ConnectionEnds == <>(pc = "done")
==============================================================================
