-------------------------------- MODULE Streams --------------------------------
(***************************************************************************)
(* One request on a stream that is not Http: the HTTPReceiver of HTTP/3    *)
(* (sanic/http/http3.py) and the ASGIApp (sanic/asgi.py), each with the    *)
(* handle_request and handle_exception of sanic/app.py that drive it.      *)
(*                                                                         *)
(* Both have a respond() and a send() of their own, and the application is *)
(* the same: it answers, and what it raises is answered once more, until   *)
(* something was sent.  A run is one task of HTTP/3 or the one call of an  *)
(* ASGI server; in HTTP/3 a body that is too large cancels the run and     *)
(* starts another on the same stream.  Requests do not meet, so one stands *)
(* for all.  A response is a number; a piece on the wire is its kind and   *)
(* the response it is of; the body of a head is part of the next piece.    *)
(***************************************************************************)
EXTENDS Integers, Sequences

CONSTANTS
    MaxSize,        \* request_max_size, in chunks
    MaxChunks,      \* bound: chunks of a request
    MaxResponses,   \* bound: responses that are made
    MaxWire,        \* bound: pieces that are sent
    MayCatchCancel  \* a handler may catch its cancellation, and go on

ASSUME StreamsAssumption ==
    /\ MaxSize \in Nat /\ MaxChunks \in Nat /\ MaxResponses \in Nat /\ MaxWire \in Nat
    /\ MayCatchCancel \in BOOLEAN

Over == {"over", "cancelled", "failed"}

VARIABLES
    protocol,      \* of the stream; "refused" when no request could be made
    http_stage,    \* stage
    connected,     \* response, the one that is connected to the stream; 0: none
    headers_sent,
    head_only,
    body,          \* [more: request_body, size: request_bytes]
    runs,          \* [at, level, resp, cancel]
    future,        \* the run of the receiver
    responses,     \* how many were made
    reread,        \* history: an ASGI handler read on when its response had ended
    wire           \* history: what was sent

stream_vars == <<protocol, http_stage, connected, headers_sent, head_only, body, runs, future, responses,
                 reread, wire>>

Run(at, level) == [at |-> at, level |-> level, resp |-> 0, cancel |-> "no"]

\* level 0 is handle_request, 1 its handle_exception, 2 the one of run(e) or of
\* __call__, 3 the last one of __call__
LastLevel == IF protocol = "http3" THEN 2 ELSE 3

StreamsInit ==
    /\ protocol = "none" /\ http_stage = "IDLE" /\ connected = 0 /\ headers_sent = FALSE
    /\ head_only = FALSE /\ body = [more |-> TRUE, size |-> 0] /\ runs = <<>> /\ future = 0
    /\ responses = 0 /\ reread = FALSE /\ wire = <<>>

StreamsOff ==
    /\ protocol = "refused" /\ http_stage = "IDLE" /\ connected = 0 /\ headers_sent = FALSE
    /\ head_only = FALSE /\ body = [more |-> FALSE, size |-> 0] /\ runs = <<>> /\ future = 0
    /\ responses = 0 /\ reread = FALSE /\ wire = <<>>

Working(i)    == i \in DOMAIN runs /\ runs[i].at \notin Over /\ runs[i].cancel # "now"
At(i, places) == Working(i) /\ runs[i].at \in places

\* task.cancel(), nothing to a task that is over: it is delivered now to one that
\* awaits, and to the one that is running when it next awaits anything
CancelRun(rs, i, when) == [rs EXCEPT ![i].cancel = IF rs[i].at \in Over THEN "no" ELSE when]

\* an exception leaves handle_request or handle_exception, with the stage it found:
\* HTTPReceiver.run runs once more with it, ASGIApp.__call__ handles it twice
Escapes(rs, i, stage) ==
    LET level == rs[i].level
    IN /\ runs' = [rs EXCEPT ![i] =
                     IF level = LastLevel THEN [@ EXCEPT !.at = "failed", !.cancel = "no"]
                     ELSE [Run("raised", level + 1) EXCEPT !.cancel = rs[i].cancel]]
       /\ http_stage' = IF protocol = "http3" /\ level = 1 THEN "HANDLER" ELSE stage

\* run() sets the stage when it returns
Leaves(i) ==
    /\ runs' = [runs EXCEPT ![i] = [@ EXCEPT !.at = "over", !.cancel = "no"]]
    /\ http_stage' = IF protocol = "http3" THEN "IDLE" ELSE http_stage
-----------------------------------------------------------------------------
(* The request *)

\* Headers that cannot be decoded raise BadRequest to whom has called, and nobody answers.
Made(ok, new) ==
    /\ protocol = "none"
    /\ protocol' = IF ok THEN new ELSE "refused"
    /\ runs' = (IF ok THEN <<Run("start", 0)>> ELSE <<>>) /\ future' = Len(runs')
    /\ UNCHANGED <<http_stage, connected, headers_sent, body, responses, reread, wire>>

\* HTTP/3: HeadersReceived on a new stream
HeadersReceived(ok, is_head) == Made(ok, "http3") /\ head_only' = (ok /\ is_head)

\* an ASGI server calls the application
Create(ok) == Made(ok, "asgi") /\ UNCHANGED head_only

TooLarge(size) == size > MaxSize

\* as if a body that is too large only ended the run
CutOff ==
    /\ protocol = "http3" /\ body.size < MaxChunks
    /\ body' = [body EXCEPT !.size = @ + 1]
    /\ runs' = IF TooLarge(body'.size) THEN CancelRun(runs, future, "now") ELSE runs
    /\ UNCHANGED <<protocol, http_stage, connected, headers_sent, head_only, responses, reread, future, wire>>

\* DataReceived: receive_body raises PayloadTooLarge, whatever has been sent by then
DataReceived ==
    /\ protocol = "http3" /\ body.size < MaxChunks
    /\ body' = [body EXCEPT !.size = @ + 1]
    /\ IF TooLarge(body'.size)
         THEN /\ runs' = Append(CancelRun(runs, future, "now"), Run("start", 2))
              /\ future' = Len(runs) + 1
         ELSE UNCHANGED <<runs, future>>
    /\ UNCHANGED <<protocol, http_stage, connected, headers_sent, head_only, responses, reread, wire>>

\* ASGIApp.read, before the handler or by it.  A client that disconnects ends the
\* body like its last chunk.
ReadMessage(i, more) ==
    /\ protocol = "asgi" /\ At(i, {"handling"}) /\ body.more /\ body.size < MaxChunks
    /\ body' = [more |-> more, size |-> body.size + 1]
    /\ http_stage' = IF http_stage = "IDLE" THEN "REQUEST" ELSE http_stage
    /\ reread' = (reread \/ http_stage = "IDLE")
    /\ UNCHANGED <<protocol, connected, headers_sent, head_only, runs, future, responses, wire>>

\* run() and __call__ start
StartRun(i) ==
    /\ At(i, {"start"})
    /\ runs' = [runs EXCEPT ![i].at = IF runs[i].level = 0 THEN "handling" ELSE "raised"]
    /\ http_stage' = "HANDLER"
    /\ UNCHANGED <<protocol, connected, headers_sent, head_only, body, future, responses, reread, wire>>
-----------------------------------------------------------------------------
(* respond() *)

\* connects a new response; the one before is disconnected
Connect(i, at) ==
    /\ responses < MaxResponses /\ responses' = responses + 1 /\ connected' = responses'
    /\ runs' = [runs EXCEPT ![i] = [@ EXCEPT !.resp = responses', !.at = at]]
    /\ UNCHANGED http_stage

\* request.respond(), by a handler or an error handler that sends by itself.  What an
\* error handler raises is answered in its place.
RespondFirst(i) ==
    /\ At(i, {"handling", "checked"}) /\ runs[i].resp = 0
    /\ IF connected = 0 /\ http_stage = "HANDLER" THEN Connect(i, runs[i].at)
       ELSE /\ runs[i].at = "handling" /\ UNCHANGED <<connected, responses>>
            /\ Escapes(runs, i, IF connected # 0 THEN http_stage ELSE "FAILED")
    /\ UNCHANGED <<protocol, headers_sent, head_only, body, future, reread, wire>>

\* The handler returns: what it returned is the response, unless there is one.
Return(i) ==
    /\ At(i, {"handling"})
    /\ IF connected # 0
         THEN runs' = [runs EXCEPT ![i] = [@ EXCEPT !.at = "answering", !.resp = connected]]
              /\ UNCHANGED <<connected, responses, http_stage>>
       ELSE IF http_stage = "HANDLER" THEN Connect(i, "answering")
       ELSE UNCHANGED <<connected, responses>> /\ Escapes(runs, i, "FAILED")
    /\ UNCHANGED <<protocol, headers_sent, head_only, body, future, reread, wire>>

RunRaises(i) ==
    /\ At(i, {"handling"}) /\ Escapes(runs, i, http_stage)
    /\ UNCHANGED <<protocol, connected, headers_sent, head_only, body, future, responses, reread, wire>>

\* handle_exception: silent when a response has begun
HandleException(i) ==
    /\ At(i, {"raised"})
    /\ IF http_stage = "HANDLER"
         THEN runs' = [runs EXCEPT ![i].at = "checked"] /\ UNCHANGED http_stage
         ELSE Leaves(i)
    /\ UNCHANGED <<protocol, connected, headers_sent, head_only, body, future, responses, reread, wire>>

\* An error handler has returned a response: reset_response() and respond(), which both
\* want the stage of a handler.  Or it has responded by itself, and returned nothing.
AnswerError(i, returned) ==
    /\ At(i, {"checked"}) /\ (returned \/ runs[i].resp # 0)
    /\ IF ~returned /\ connected # 0
         THEN runs' = [runs EXCEPT ![i] = [@ EXCEPT !.at = "answering", !.resp = connected]]
              /\ UNCHANGED <<connected, responses, http_stage>>
       ELSE IF returned /\ http_stage = "HANDLER" THEN Connect(i, "answering")
       ELSE UNCHANGED <<connected, responses>> /\ Escapes(runs, i, IF returned THEN "FAILED" ELSE http_stage)
    /\ UNCHANGED <<protocol, headers_sent, head_only, body, future, reread, wire>>
-----------------------------------------------------------------------------
(* send() *)

\* as if only the first piece needed a response that has not ended
SendsAnyway(i, end) == runs[i].resp = connected

\* the response is connected, and the stream is ready for it
ReadyHttp3      == http_stage = "RESPONSE" \/ ~headers_sent
ReadyAsgi(end)  == http_stage # "IDLE" \/ end
Sends(i, end)   == runs[i].resp = connected /\ IF protocol = "http3" THEN ReadyHttp3 ELSE ReadyAsgi(end)

Pieces(i, end) ==
    (IF (protocol = "http3" /\ ~headers_sent) \/ (protocol = "asgi" /\ http_stage = "HANDLER")
       THEN <<[kind |-> "head", resp |-> connected]>> ELSE <<>>)
    \o <<[kind |-> IF end THEN "end" ELSE "data", resp |-> connected]>>

\* send(data, end_stream).  ASGI passes over the end of a response that has ended;
\* HTTP/3 sends the head of a response to HEAD and cancels its run.
Transmit(i, end) ==
    /\ Len(wire) < MaxWire
    /\ wire' = IF protocol = "asgi" /\ http_stage = "IDLE" THEN wire ELSE wire \o Pieces(i, end)
    /\ headers_sent' = (protocol = "http3")

HeadRun(i) ==
    IF head_only /\ ~headers_sent THEN CancelRun(runs, future, IF future = i THEN "soon" ELSE "now")
                                 ELSE runs

\* by a handler or an error handler
SendPiece(i, end) ==
    /\ At(i, {"handling", "checked"}) /\ runs[i].resp # 0
    /\ IF Sends(i, end)
         THEN Transmit(i, end) /\ http_stage' = (IF end THEN "IDLE" ELSE "RESPONSE") /\ runs' = HeadRun(i)
         ELSE runs[i].at = "handling" /\ Escapes(runs, i, http_stage) /\ UNCHANGED <<wire, headers_sent>>
    /\ UNCHANGED <<protocol, connected, head_only, body, future, responses, reread>>

\* response.send(end_stream=True), and the run is over
AnswerRun(i) ==
    /\ At(i, {"answering"})
    /\ IF Sends(i, TRUE)
         THEN /\ Transmit(i, TRUE) /\ http_stage' = "IDLE"
              /\ runs' = [HeadRun(i) EXCEPT ![i] = [@ EXCEPT !.at = "over", !.cancel = "no"]]
         ELSE Escapes(runs, i, http_stage) /\ UNCHANGED <<wire, headers_sent>>
    /\ UNCHANGED <<protocol, connected, head_only, body, future, responses, reread>>
-----------------------------------------------------------------------------
(* Cancellation *)

CancelEnds(i) ==
    /\ i \in DOMAIN runs /\ runs[i].at \notin Over /\ runs[i].cancel # "no"
    /\ runs' = [runs EXCEPT ![i] = [@ EXCEPT !.at = "cancelled", !.cancel = "no"]]
    /\ UNCHANGED <<protocol, http_stage, connected, headers_sent, head_only, body, future, responses, reread, wire>>

CancelCaught(i) ==
    /\ MayCatchCancel
    /\ i \in DOMAIN runs /\ runs[i].at = "handling" /\ runs[i].cancel # "no"
    /\ runs' = [runs EXCEPT ![i].cancel = "no"]
    /\ UNCHANGED <<protocol, http_stage, connected, headers_sent, head_only, body, future, responses, reread, wire>>

\* in the response middleware of an error: it is connected once more and sent all the
\* same, or what that raises takes the place of the cancellation
CancelAnswered(i) ==
    /\ i \in DOMAIN runs /\ runs[i].at = "answering" /\ runs[i].level > 0 /\ runs[i].cancel # "no"
    /\ IF http_stage # "HANDLER"
         THEN Escapes([runs EXCEPT ![i].cancel = "no"], i, "FAILED") /\ UNCHANGED <<connected, headers_sent, wire>>
       ELSE IF headers_sent
         THEN Escapes([runs EXCEPT ![i].cancel = "no"], i, http_stage) /\ connected' = runs[i].resp /\ UNCHANGED <<headers_sent, wire>>
       ELSE /\ Len(wire) < MaxWire /\ headers_sent' = TRUE /\ http_stage' = "IDLE"
            /\ connected' = runs[i].resp
            /\ runs' = [runs EXCEPT ![i] = [@ EXCEPT !.at = "cancelled", !.cancel = "no"]]
            /\ wire' = wire \o <<[kind |-> "head", resp |-> connected'], [kind |-> "end", resp |-> connected']>>
    /\ UNCHANGED <<protocol, head_only, body, future, responses, reread>>
-----------------------------------------------------------------------------
StreamsNext ==
    \/ \E ok \in BOOLEAN : Create(ok) \/ \E is_head \in BOOLEAN : HeadersReceived(ok, is_head)
    \/ DataReceived
    \/ \E i \in DOMAIN runs :
         \/ \E more \in BOOLEAN : ReadMessage(i, more)
         \/ StartRun(i) \/ RespondFirst(i) \/ Return(i) \/ RunRaises(i) \/ HandleException(i)
         \/ \E returned \in BOOLEAN : AnswerError(i, returned)
         \/ \E end \in BOOLEAN : SendPiece(i, end)
         \/ AnswerRun(i) \/ CancelEnds(i) \/ CancelCaught(i) \/ CancelAnswered(i)

StreamsSpec == StreamsInit /\ [][StreamsNext]_stream_vars
-----------------------------------------------------------------------------
StreamsTypeOK ==
    /\ protocol \in {"none", "refused", "http3", "asgi"}
    /\ http_stage \in {"IDLE", "REQUEST", "HANDLER", "RESPONSE", "FAILED"}
    /\ responses \in 0..MaxResponses /\ connected \in 0..responses
    /\ headers_sent \in BOOLEAN /\ head_only \in BOOLEAN /\ reread \in BOOLEAN
    /\ body \in [more : BOOLEAN, size : 0..MaxChunks]
    /\ runs \in Seq([at : {"start", "handling", "raised", "checked", "answering"} \cup Over,
                     level : 0..3, resp : 0..responses, cancel : {"no", "soon", "now"}])
    /\ future \in 0..Len(runs)
    /\ wire \in Seq([kind : {"head", "data", "end"}, resp : 1..responses])

Ended == \E p \in DOMAIN wire : wire[p].kind = "end"

\* What is sent of a request is one response: its head first and once, then its
\* pieces, and nothing when it has ended, whoever has responded, raised, been
\* cancelled or run again in between.  (An ASGI handler that reads on when its
\* response has ended is the exception: the stage is REQUEST then, and the end is
\* sent again.)
OneResponse ==
    \A p \in DOMAIN wire :
       /\ wire[p].kind = "head" <=> p = 1
       /\ wire[p].resp = wire[1].resp
       /\ wire[p].kind = "end" => p = Len(wire) \/ reread

\* A request is answered: when every run is over something was sent, and a run that
\* came to answer has sent an end, or found one.  So a body that is too large is
\* answered although its run was cancelled.
AnsweredAtEnd ==
    (runs # <<>> /\ \A i \in DOMAIN runs : runs[i].at \in Over) =>
        /\ wire # <<>>
        /\ \A i \in DOMAIN runs : runs[i].at = "over" /\ runs[i].resp # 0 => Ended
==============================================================================
