------------------------------ MODULE RequestData ------------------------------
(***************************************************************************)
(* What is read of one request, and when (sanic/request/types.py, with     *)
(* sanic/headers.py and sanic/request/form.py), and the error page that is *)
(* made for it (sanic/errorpages.py, sanic/exceptions.py).                 *)
(*                                                                         *)
(* Views of a request are computed when first read and then cached, each   *)
(* in its own way, while the body arrives and middleware replaces headers. *)
(* A parse is known by what was parsed: a form is its content type and the *)
(* chunks of the body it is from.  A view that was never read is Unread.   *)
(***************************************************************************)
EXTENDS Selecting, Integers, SequencesExt

CONSTANTS
    Requests,      \* what clients send: [headers, chunks, content]
    Replacements,  \* what middleware may make of a header: <<name, value>>
    Raisable,      \* the exceptions that are tried
    ErrorFormats,  \* <<error_format of the route, FALLBACK_ERROR_FORMAT>>
    ProxiesCount,
    MaxRead,       \* bound: reads
    MaxReplaced    \* bound: headers that are replaced

HeaderNames == {"accept", "content-type", "cookie", "authorization", "x-request-id",
                "forwarded", "x-forwarded-for", "host"}
Contents    == {"json", "null", "form", "broken"}   \* what the whole body is

Formats     == <<"text", "json", "html">>

Unread  == [value |-> "unread"]
Nil     == [value |-> "nothing"]
Invalid == [value |-> "invalid"]
BadRequest == [value |-> "bad request"]

\* a header as it was parsed; of Accept a list of media, with q as ranks, if it is valid
IsHeader(name, value) ==
    /\ value # Unread
    /\ name = "accept" /\ value # Invalid =>
          /\ DOMAIN value = {"value", "list"} /\ IsFiniteSet(value.list)
          /\ \A media \in value.list : media.q \in Nat

DataAssumption ==
    /\ ProxiesCount \in Nat /\ MaxRead \in Nat /\ MaxReplaced \in Nat
    /\ \A r \in Requests :
          /\ r.content \in Contents /\ DOMAIN r.headers \subseteq HeaderNames
          /\ \A name \in DOMAIN r.headers : IsHeader(name, r.headers[name])
    /\ \A r \in Replacements : r[1] \in HeaderNames /\ IsHeader(r[1], r[2])
    /\ \A format \in ErrorFormats : format[2] \in ToSet(Formats) \cup {"auto"}
ASSUME DataAssumption

VARIABLES
    req,       \* as it was sent but for the headers that were replaced; its route and fallback
    stream,    \* [left: what has not been read of the body, body, taken, received]
    views,     \* what is cached
    told,      \* the last answer of each view to a handler
    page,      \* the error page
    reads,     \* how many there were
    replaced   \* how many headers were

data_vars == <<req, stream, views, told, page, reads, replaced>>

Views   == {"accept", "form", "files", "json", "id", "cookies", "token", "forwarded", "remote_addr",
            "scheme", "host", "args"}
NoPage  == [status |-> 0, mime |-> "", headers |-> ""]

DataInit ==
    /\ \E r \in Requests, format \in ErrorFormats, is_stream \in BOOLEAN :
          /\ req = [headers |-> r.headers, content |-> r.content, chunks |-> r.chunks,
                        route |-> "routing", error_format |-> format[1], is_stream |-> is_stream,
                        fallback |-> format[2]]
          /\ stream = [left |-> r.chunks, body |-> <<>>, taken |-> FALSE, received |-> FALSE]
    /\ views = <<>> /\ told = <<>> /\ page = NoPage /\ reads = 0 /\ replaced = 0

DataOff ==
    /\ req = [headers |-> <<>>, content |-> "broken", chunks |-> <<>>, route |-> "routed",
                  error_format |-> "", is_stream |-> TRUE, fallback |-> "auto"]
    /\ stream = [left |-> <<>>, body |-> <<>>, taken |-> TRUE, received |-> TRUE]
    /\ views = <<>> /\ told = <<>> /\ reads = MaxRead /\ replaced = MaxReplaced
    /\ page = [NoPage EXCEPT !.status = 500]

Has(name)     == name \in DOMAIN req.headers
Header(name)  == IF Has(name) THEN req.headers[name] ELSE Nil
Cached(v)     == IF v \in DOMAIN views THEN views[v] ELSE Unread
Told(v)       == IF v \in DOMAIN told THEN told[v] ELSE Unread
Reading       == reads < MaxRead /\ page = NoPage /\ reads' = reads + 1

-----------------------------------------------------------------------------
(* The body *)

\* as if it did not look for a body first
ReceiveAgain ==
    stream' = [stream EXCEPT !.received = TRUE, !.body = stream.left, !.left = <<>>]

\* joins what is left of the stream, unless there is a body
ReceiveBody ==
    stream' = [stream EXCEPT !.received = TRUE,
                             !.body = IF @ = <<>> THEN stream.left ELSE @,
                             !.left = IF stream.body = <<>> THEN <<>> ELSE @]

\* the body is there before a handler and its middleware run, unless the handler streams it
Route ==
    /\ req.route = "routing" /\ page = NoPage
    /\ req' = [req EXCEPT !.route = "routed"]
    /\ IF req.is_stream THEN UNCHANGED stream ELSE ReceiveBody
    /\ UNCHANGED <<views, told, page, reads, replaced>>

ReadBody ==
    /\ req.route = "routed" /\ page = NoPage /\ ReceiveBody
    /\ UNCHANGED <<req, views, told, page, reads, replaced>>

\* async for data in request.stream
Take ==
    /\ req.route = "routed" /\ req.is_stream /\ stream.left # <<>> /\ page = NoPage
    /\ stream' = [stream EXCEPT !.left = Tail(@), !.taken = TRUE]
    /\ UNCHANGED <<req, views, told, page, reads, replaced>>

ReplaceHeader(name, value) ==
    /\ replaced < MaxReplaced /\ page = NoPage /\ Header(name) # value
    /\ req' = [req EXCEPT !.headers = Updated(@, [n \in {name} |-> value])] /\ replaced' = replaced + 1
    /\ UNCHANGED <<stream, views, told, page, reads>>

-----------------------------------------------------------------------------
(* The views: what each is, of the headers and of the body as they are now *)

Whole    == stream.body = req.chunks
\* loads(body) raises unless the body is whole; an empty one is nothing
LoadJson ==
    IF stream.body = <<>> THEN Nil
    ELSE IF ~Whole \/ req.content \notin {"json", "null"} THEN BadRequest
    ELSE IF req.content = "null" THEN Nil
    ELSE [value |-> "json", body |-> stream.body]

\* whatever fails leaves an empty form; the files are from the same parse
GetForm ==
    IF Has("content-type") /\ Header("content-type").form /\ req.content = "form"
    THEN [value |-> "form", type |-> Header("content-type"), body |-> stream.body]
    ELSE [value |-> "form", type |-> Nil, body |-> <<>>]

\* The last element of Forwarded that has the secret; the address as many proxies from the end
\* of X-Forwarded-For, with the X-Forwarded-Host and -Proto of the same headers
ParseForwarded ==
    LET h == Header("forwarded")
        trusted == IF Has("forwarded") THEN {i \in DOMAIN h.elements : h.elements[i].secret} ELSE {}
    IN  IF trusted = {} THEN Nil
        ELSE [value |-> "forwarded", options |-> h.elements[Max(trusted)]]
ParseXForwarded ==
    LET h == Header("x-forwarded-for")
    IN  IF ~Has("x-forwarded-for") \/ ProxiesCount = 0 \/ Len(h.proxies) < ProxiesCount
        THEN Nil
        ELSE [value |-> "forwarded",
              options |-> [h.options EXCEPT !.for = h.proxies[Len(h.proxies) - ProxiesCount + 1]]]

Forwarded ==
    IF Cached("forwarded") # Unread THEN Cached("forwarded")
    ELSE IF ParseForwarded # Nil THEN ParseForwarded ELSE ParseXForwarded

\* of a view: where it is from, and the part it is, if that is said there
PartOf(forwarded, part, otherwise) ==
    IF forwarded # Nil /\ forwarded.options[part] # ""
    THEN [value |-> forwarded.options[part], by |-> forwarded]
    ELSE [value |-> otherwise, by |-> forwarded]

RemoteAddr == IF Cached("remote_addr") # Unread THEN Cached("remote_addr") ELSE PartOf(Forwarded, "for", "")
Scheme == IF Cached("scheme") # Unread THEN Cached("scheme") ELSE PartOf(Forwarded, "proto", "http")
Host == PartOf(Forwarded, "host", IF Has("host") THEN Header("host").value ELSE "")

\* No Accept header accepts everything, an empty one nothing; an invalid one raises.
Anything == [type |-> "*", subtype |-> "*", q |-> 2]
ParseAccept ==
    IF Has("accept") THEN Header("accept") ELSE [value |-> "accept", list |-> {Anything}]
Accept == IF Cached("accept") # Unread THEN Cached("accept") ELSE ParseAccept

-----------------------------------------------------------------------------
(* Reading them *)

Tell(cached, answers) ==
    /\ Reading
    /\ views' = Updated(views, cached)
    /\ told' = Updated(told, answers)
    /\ UNCHANGED <<req, stream, page, replaced>>

\* nothing, and what raised, is not cached
Json ==
    IF Cached("json") \notin {Unread, Nil} THEN Cached("json") ELSE LoadJson
ReadJson ==
    Tell(IF Json = BadRequest THEN <<>> ELSE [json |-> Json], [json |-> Json])

\* form and files
ReadForm ==
    LET form == IF Cached("form") # Unread THEN Cached("form") ELSE GetForm
    IN  Tell([form |-> form, files |-> form], [form |-> form, files |-> form])

\* get_form() parses again
ReadFormAgain ==
    Tell([form |-> GetForm, files |-> GetForm], [form |-> GetForm])

\* Of the headers that are read as they are: cookies are cached, whether there are any or not;
\* a token that is not there is looked for again; an id that is not there is made.
ReadCookies ==
    LET cookies == IF Cached("cookies") # Unread THEN Cached("cookies") ELSE Header("cookie")
    IN  Tell([cookies |-> cookies], [cookies |-> cookies])
Token == IF Cached("token") \notin {Unread, Nil} THEN Cached("token") ELSE Header("authorization")
ReadToken == Tell([token |-> Token], [token |-> Token])
RequestId ==
    IF Cached("id") # Unread THEN Cached("id")
    ELSE IF Has("x-request-id") THEN Header("x-request-id") ELSE [value |-> "uuid"]
ReadId == Tell([id |-> RequestId], [id |-> RequestId])

\* the URL never changes: each set of options has a parse of its own
ReadArgs(options) ==
    LET parsed == (IF Cached("args") = Unread THEN {} ELSE Cached("args").of) \cup {options}
    IN  Tell([args |-> [value |-> "args", of |-> parsed]], [args |-> [value |-> "args", of |-> {options}]])

ReadAccept ==
    Tell(IF Accept = Invalid THEN <<>> ELSE [accept |-> Accept], [accept |-> Accept])

ReadRemoteAddr ==
    Tell([forwarded |-> Forwarded, remote_addr |-> RemoteAddr], [remote_addr |-> RemoteAddr])
ReadScheme == Tell([forwarded |-> Forwarded, scheme |-> Scheme], [scheme |-> Scheme])
ReadHost   == Tell([forwarded |-> Forwarded], [host |-> Host])
\* url, url_for
ReadUrl ==
    Tell([forwarded |-> Forwarded, scheme |-> Scheme], [scheme |-> Scheme, host |-> Host])

-----------------------------------------------------------------------------
(* The error page *)

\* the classes: their status, and the header that some of them make of their arguments
StatusCode ==
    [Exception |-> 500, NotFound |-> 404, BadRequest |-> 400, MethodNotAllowed |-> 405,
     ServerError |-> 500, ServiceUnavailable |-> 503, URLBuildError |-> 500, FileNotFound |-> 404,
     RequestTimeout |-> 408, PayloadTooLarge |-> 413, HeaderNotFound |-> 400, InvalidHeader |-> 400,
     RangeNotSatisfiable |-> 416, ExpectationFailed |-> 417, Forbidden |-> 403,
     InvalidRangeType |-> 416, PyFileError |-> 500, Unauthorized |-> 401, WebsocketClosed |-> 500]
HeadersOf(exception) ==
    CASE exception = "MethodNotAllowed" -> "Allow"
      [] exception \in {"RangeNotSatisfiable", "InvalidRangeType"} -> "Content-Range"
      [] exception = "Unauthorized" -> "WWW-Authenticate"
      [] OTHER -> ""
Quiet(exception) ==
    exception \notin {"Exception", "ServerError", "URLBuildError", "PyFileError"}

\* MediaType.match, of one without parameters
MatchesMime(media, mime) ==
    /\ media.type \in {"*", mime.type}
    /\ media.subtype \in {"*", mime.subtype}

Mime(type, subtype) == [type |-> type, subtype |-> subtype]
MimeByConfig ==
    [text |-> Mime("text", "plain"), json |-> Mime("application", "json"),
     html |-> Mime("text", "html")]

\* AcceptList.match: the highest q, then the first of the arguments.  Only the type is used of the
\* answer, so that the order of the entries does not matter.
Match(accept, formats) ==
    LET hits == {hit \in accept.list \X DOMAIN formats :
                    MatchesMime(hit[1], MimeByConfig[formats[hit[2]]])}
        best == Max({hit[1].q : hit \in hits})
    IN  IF hits = {} THEN ""
        ELSE formats[Min({hit[2] : hit \in {x \in hits : x[1].q = best}})]

Literally(accept, format) ==
    \E media \in accept.list :
        media.type = MimeByConfig[format].type /\ media.subtype = MimeByConfig[format].subtype

\* guess_mime, once Accept is valid
Guess ==
    LET config  == IF req.route = "routed" THEN ToSet(Formats) \cap {req.error_format} ELSE {}
        given   == Kept(Formats, IF config # {} THEN config ELSE {req.fallback})
        auto    == req.fallback = "auto"
        json    == /\ given = <<>> /\ auto /\ Match(Accept, <<"json">>) # ""
                   /\ \/ Literally(Accept, "json")
                      \/ Has("content-type") /\ Header("content-type").json
                      \/ Json \notin {Nil, BadRequest}
        first   == IF json THEN <<"json">> ELSE given
        others  == IF auto THEN Kept(Formats, ToSet(Formats) \ ToSet(first)) ELSE <<>>
    IN  Match(Accept, first \o others)

\* The page of the default handler.  What is not quiet is logged with the URL.  If Accept is
\* invalid the handler fails: "An error occurred while handling an error".
BasePage == "html"
ErrorPage(exception) ==
    LET logged == IF Quiet(exception) THEN views
                  ELSE Updated(views, [forwarded |-> Forwarded, scheme |-> Scheme])
    IN  /\ page = NoPage
        /\ IF Accept = Invalid
           THEN views' = logged /\ page' = [status |-> 500, mime |-> "text", headers |-> ""]
           ELSE /\ views' = Updated(logged, [accept |-> Accept])
                /\ page' = [status |-> StatusCode[exception], headers |-> HeadersOf(exception),
                            mime |-> IF Guess = "" THEN BasePage ELSE Guess]
        /\ UNCHANGED <<req, stream, told, reads, replaced>>

DataNext ==
    \/ Route \/ ReadBody \/ Take
    \/ \E r \in Replacements : ReplaceHeader(r[1], r[2])
    \/ ReadJson \/ ReadForm \/ ReadFormAgain \/ ReadCookies \/ ReadToken \/ ReadId \/ ReadAccept
    \/ \E options \in {"blank", "strict"} : ReadArgs(options)
    \/ ReadRemoteAddr \/ ReadScheme \/ ReadHost \/ ReadUrl
    \/ \E exception \in Raisable : ErrorPage(exception)

DataSpec == DataInit /\ [][DataNext]_data_vars

-----------------------------------------------------------------------------
DataTypeOK ==
    /\ DOMAIN views \cup DOMAIN told \subseteq Views
    /\ reads \in 0..MaxRead /\ replaced \in 0..MaxReplaced
    /\ page.status \in {0} \cup {StatusCode[e] : e \in DOMAIN StatusCode}
    /\ stream.taken \in BOOLEAN /\ stream.received \in BOOLEAN
    /\ IsSuffix(stream.left, req.chunks) /\ IsSuffix(stream.body, req.chunks)

\* Everything that a handler is told of how the client came - remote_addr, scheme, host and so
\* the URL - is told of one and the same set of proxy headers, in whatever order it is read and
\* whatever middleware makes of the headers in between.
OneForwarded ==
    \A v, w \in {"remote_addr", "scheme", "host"} \cap DOMAIN told : told[v].by = told[w].by

\* A handler is not told one thing at first and another later, but of the body when get_form()
\* parses it again, and of a host, a token or a JSON body that was not there: the caches of the
\* views know what was said, whoever else has read them since, the error page too.
AsTold ==
    \A v \in DOMAIN told :
        /\ v \in {"id", "cookies", "accept", "remote_addr", "scheme"} => told[v] \in {Invalid, Cached(v)}
        /\ v \in {"json", "token"} => told[v] \in {Nil, BadRequest, Cached(v)}
        /\ v = "args" => told[v].of \subseteq Cached(v).of

\* What a handler reads of a body that was received is of the whole body, if it did not take
\* chunks of it itself, however often it is received: JSON even if it was read before, a form if
\* it is read then for the first time, or parsed again.
WholeBodyRead ==
    /\ stream.received /\ ~stream.taken => Whole
    /\ Told("json") \notin {Unread, Nil, BadRequest} => Told("json").body = req.chunks
    /\ Cached("files") = Cached("form")

\* The error page is in a format that the client accepts no less than any other, if the choice is
\* automatic: the route's own format if it is such a one, or else JSON if the client says so
\* by name.  If it is not automatic, it is the one format that is set, if the client accepts it.
PageAccepted ==
    LET Quality(format) ==
            Max({0} \cup {1 + m.q : m \in {x \in Cached("accept").list : MatchesMime(x, MimeByConfig[format])}})
        Best(format) == \A f \in ToSet(Formats) : Quality(f) <= Quality(format)
        route == req.route = "routed" /\ req.error_format \in ToSet(Formats)
    IN  page # NoPage /\ Cached("accept") # Unread =>
            /\ req.fallback = "auto" =>
                  /\ Best(page.mime)
                  /\ route /\ Best(req.error_format) => page.mime = req.error_format
                            \/ Quality(req.error_format) = 0
                  /\ ~route /\ Literally(Cached("accept"), "json") /\ Best("json") => page.mime = "json"
            /\ req.fallback # "auto" /\ ~route /\ Quality(req.fallback) > 0 =>
                  page.mime = req.fallback

\* What a handler reads of a request, at whatever time, fits together, and so does the error page.
ReadsAgree == OneForwarded /\ AsTold /\ WholeBodyRead /\ PageAccepted
===============================================================================
