---------------------------- MODULE RequestHandling ----------------------------
(***************************************************************************)
(* What the application does with a request, while it may still be         *)
(* amended: Sanic.handle_request and handle_exception (sanic/app.py), the  *)
(* middleware they run, Request.respond, the router's cache and            *)
(* ErrorHandler.lookup's, and the connection's error_response, which hands *)
(* back what escapes them.                                                 *)
(*                                                                         *)
(* One request is handled at a time: two share nothing but the router,     *)
(* both caches and the collections of middleware, which each of them reads *)
(* between two awaits, as one after the other do.  Every step that awaits  *)
(* lets the application be amended before the next one.                    *)
(***************************************************************************)
EXTENDS Selecting, Integers, SequencesExt

CONSTANTS
    Declarations,       \* routes: [by, path, name, view, is_stream], "by" what declares them
    Early,          \* what of it all is there when the server starts
    Asked,          \* what is asked for: [path, method]
    Functions,      \* middleware: [fn, attach_to, priority, route_names]
    ErrorHandlers,  \* [exception, scope]: of one route, or of all
    OwnMRO,         \* of each class of exception of the application, it and its ancestors in order
    MaxRequests, MaxFailures  \* bounds: requests; what one request lets user code raise

Nothing      == "none"
All       == "all routes"
NoHandler == [exception |-> Nothing, scope |-> All]   \* a lookup that found none
Places    == {"request", "response"}

\* the decorators with a method of their own; those that leave the body alone
get     == [methods |-> {"GET"}, ignore_body |-> TRUE]
head    == [methods |-> {"HEAD"}, ignore_body |-> TRUE]
options == [methods |-> {"OPTIONS"}, ignore_body |-> TRUE]
\* and those that do not
post   == [methods |-> {"POST"}, ignore_body |-> FALSE]
put    == [methods |-> {"PUT"}, ignore_body |-> FALSE]
patch  == [methods |-> {"PATCH"}, ignore_body |-> FALSE]
delete == [methods |-> {"DELETE"}, ignore_body |-> FALSE]
\* a websocket route has no methods, which the router takes for GET
websocket == [methods |-> {"GET"}, ignore_body |-> FALSE]

\* add_route of a HTTPMethodView: the methods its class has, and its streams
ViewMethods(view) == {"GET", "HEAD", "POST", "PUT", "OPTIONS", "PATCH", "DELETE"} \cap view

\* route()
RouteFor(d) ==
    LET view  == [methods |-> ViewMethods(d.view), ignore_body |-> FALSE]
        by    == [get |-> get, head |-> head, options |-> options, post |-> post, put |-> put,
                  patch |-> patch, delete |-> delete, websocket |-> websocket, view |-> view][d.by]
    IN  [path |-> d.path, name |-> d.name, methods |-> by.methods,
         ignore_body |-> by.ignore_body, is_stream |-> d.is_stream,
         is_websocket |-> d.by = "websocket"]

Routes  == {RouteFor(d) : d \in Declarations}
NoRoute == [path |-> Nothing, name |-> All, methods |-> {}, ignore_body |-> FALSE,
            is_stream |-> FALSE, is_websocket |-> FALSE]
Scopes  == {All} \cup {route.name : route \in Routes}

\* the classes of sanic.exceptions that are raised here, and Python's; BaseException is the last
\* of all and of no concern
SanicMRO ==
    LET http == <<"HTTPException", "SanicException", "Exception">>
    IN  [Exception |-> <<"Exception">>, SanicException |-> Tail(http), HTTPException |-> http,
         NotFound |-> <<"NotFound">> \o http, MethodNotAllowed |-> <<"MethodNotAllowed">> \o http,
         PayloadTooLarge |-> <<"PayloadTooLarge">> \o http, ServerError |-> <<"ServerError">> \o http,
         RuntimeError |-> <<"RuntimeError", "Exception">>, TypeError |-> <<"TypeError", "Exception">>]

MRO     == Updated(SanicMRO, OwnMRO)
Classes == DOMAIN MRO

\* a class comes first in its order, and the orders of its ancestors are in it
ASSUME HandlingAssumption ==
    /\ \A d \in Declarations : d.path # Nothing
    /\ IsFiniteSet(Functions) /\ \A f \in Functions : f.attach_to \in Places /\ f.priority \in Int
    /\ \A c \in Classes :
          /\ MRO[c] \in Seq(Classes) /\ MRO[c] # <<>> /\ MRO[c][1] = c
          /\ \A i \in DOMAIN MRO[c] : ToSet(MRO[MRO[c][i]]) \subseteq ToSet(MRO[c])
    /\ Nothing \notin Classes /\ \A h \in ErrorHandlers : h.exception \in Classes

VARIABLES
    is_started,
    definition,       \* of each middleware: Middleware._counter when it was made; 0: not yet
    collection,       \* request_middleware, response_middleware and the named ones, by scope
    extra,            \* route.extra.request_middleware and response_middleware
    router,           \* [routes, finalized]
    route_cache,      \* lru_cache of Router.get: a path to a route
    cached_handlers,  \* of the ErrorHandler: (class, scope) to a handler or Nothing
    request,          \* the request that is handled, and where its task is
    served            \* requests so far

app_vars      == <<is_started, definition, collection, extra, router>>
caches        == <<route_cache, cached_handlers>>
handling_vars == <<app_vars, caches, request, served>>

NoRequest ==
    [pc        |-> "idle",      \* what its task awaits
     route     |-> NoRoute,
     run       |-> TRUE,        \* run_middleware
     todo      |-> <<>>,        \* middleware its loop has still to call
     live      |-> Nothing,        \* the loop is over the application's own collection, of this place
     torn      |-> FALSE,       \* which was changed under it
     erring    |-> FALSE,       \* in handle_exception
     nested    |-> FALSE,       \* the handler awaits respond()
     stage     |-> "handler",   \* of the stream: "handler", "response" or "idle"
     response  |-> Nothing, responded |-> FALSE,
     connected |-> FALSE,       \* stream.response
     started   |-> FALSE,       \* _response_middleware_started
     exception |-> Nothing, handler |-> NoHandler,
     attempt   |-> 0,           \* error_response calls
     failures  |-> 0,
     sent      |-> 0,           \* history: answers that were begun
     due       |-> {},          \* history: request middleware registered when they began to run
     stale     |-> FALSE,       \* history: when its route was no longer of the finalized router
     ran       |-> [request |-> <<>>, response |-> <<>>]]  \* history: what was called

HandlingInit ==
    /\ is_started = FALSE /\ definition = [f \in Functions |-> 0]
    /\ collection = [place \in Places |-> [scope \in Scopes |-> <<>>]]
    /\ extra = [route \in Routes |-> [place \in Places |-> <<>>]]
    /\ router = [routes |-> {}, finalized |-> FALSE]
    /\ route_cache = <<>> /\ cached_handlers = <<>>
    /\ request = NoRequest /\ served = 0

\* everything is registered and every request served: no step is left
HandlingOff ==
    /\ is_started = TRUE /\ definition = [f \in Functions |-> 1]
    /\ collection = [place \in Places |-> [scope \in Scopes |-> <<>>]]
    /\ extra = [route \in Routes |-> [place \in Places |-> <<>>]]
    /\ router = [routes |-> Routes, finalized |-> TRUE]
    /\ route_cache = <<>> /\ cached_handlers = [key \in Classes \X Scopes |-> NoHandler]
    /\ request = NoRequest /\ served = MaxRequests

-----------------------------------------------------------------------------
(* Registration and finalization.                                           *)

InTime(item) == is_started <=> item \notin Early

\* Middleware.order, descending, by the numbers the middleware have
Before(f, g, number) ==
    \/ f.priority > g.priority
    \/ f.priority = g.priority /\ number[f] < number[g]

AllOf(registered, place, scopes) == UNION {ToSet(registered[place][scope]) : scope \in scopes}

\* finalize_middleware: one collection
Finalized(registered, place, scopes) ==
    LET all   == AllOf(registered, place, scopes)
        order == Sorted(all, {pair \in all \X all : Before(pair[1], pair[2], definition')})
    IN  IF place = "request" THEN order ELSE Reverse(order)

\* Sanic.finalize: every route of the router, then the application's own collections
FinalizeTo(registered, routes) ==
    /\ extra' = [route \in Routes |->
                    IF route \notin routes THEN extra[route]
                    ELSE [place \in Places |-> Finalized(registered, place, {All, route.name})]]
    /\ collection' = [place \in Places |->
                        [registered[place] EXCEPT ![All] = Finalized(registered, place, {All})]]

\* as if what is registered later waited for the next finalize
AmendOnly(registered, routes) == collection' = registered /\ UNCHANGED extra

\* Sanic.amend: finalizes again, unless a change has failed before and left it unfinalized.
\* The collections are new ones then, and a loop goes on over its old one.
Refinalizes == is_started /\ router.finalized
AmendTo(registered, routes) ==
    IF Refinalizes THEN FinalizeTo(registered, routes) ELSE collection' = registered /\ UNCHANGED extra
OldLoop(r) == IF Refinalizes THEN [r EXCEPT !.live = Nothing] ELSE r

\* register_middleware: request middleware at the end, response middleware at the front
Entered(fs, f)    == IF f.attach_to = "request" THEN Append(fs, f) ELSE <<f>> \o fs
WithMiddleware(f) == [collection EXCEPT ![f.attach_to][All] = Entered(@, f)]

\* register_named_middleware
WithNamedMiddleware(f) ==
    [collection EXCEPT ![f.attach_to] =
        [scope \in Scopes |-> IF scope \in f.route_names THEN Entered(@[scope], f) ELSE @[scope]]]

\* _apply_middleware
WithApplied(f) == IF f.route_names = {} THEN WithMiddleware(f) ELSE WithNamedMiddleware(f)

\* app.middleware, on_request, on_response.  A loop over the application's own collection
\* finds it changed
RegisterMiddleware(f) ==
    LET number == 1 + Cardinality({g \in Functions : definition[g] # 0})
    IN  /\ definition[f] = 0 /\ InTime(f)
        /\ definition' = [definition EXCEPT ![f] = number]
        /\ AmendTo(WithApplied(f), router.routes)
        /\ request' = OldLoop([request EXCEPT !.torn =
                        @ \/ (request.live = f.attach_to /\ f.route_names = {})])
        /\ UNCHANGED <<is_started, router, caches, served>>

\* Router.add: a route overwrites what it conflicts with, if its blueprint allows it
Others(route) == {r \in router.routes : r.path # route.path \/ r.methods \cap route.methods = {}}
Fits(route, overwrite) == overwrite \/ Others(route) = router.routes

\* _apply_route.  If adding raises, amend does not get to finalize the router again
AddRoute(route, overwrite) ==
    /\ route \notin router.routes
    /\ InTime(route)
    /\ UNCHANGED <<is_started, definition, caches, served>>
    /\ \/ /\ Fits(route, overwrite)
          /\ router' = [router EXCEPT !.routes = Others(route) \cup {route}]
          /\ AmendTo(collection, router'.routes)
          /\ request' = OldLoop(request)
       \/ /\ ~Fits(route, overwrite)
          /\ router' = [router EXCEPT !.finalized = FALSE]
          /\ UNCHANGED <<collection, extra, request>>

\* ErrorHandler.add, _add: what a lookup has cached under the key refuses the handler
AddTo(handlers, h) ==
    LET key == <<h.exception, h.scope>>
    IN  key \notin DOMAIN handlers /\ handlers' = Updated(handlers, [k \in {key} |-> h])

\* app.exception, for all routes or, of a blueprint, for its own
AddExceptionHandler(h) ==
    /\ InTime(h) /\ AddTo(cached_handlers, h)
    /\ UNCHANGED <<app_vars, route_cache, request, served>>

\* _startup
StartServing ==
    /\ ~is_started
    /\ Early \subseteq router.routes \cup {f \in Functions : definition[f] # 0}
                     \cup {cached_handlers[key] : key \in DOMAIN cached_handlers}
    /\ is_started' = TRUE
    /\ router' = [router EXCEPT !.finalized = TRUE]
    /\ UNCHANGED <<definition, caches, request, served>>
    /\ FinalizeTo(collection, router.routes)

-----------------------------------------------------------------------------
(* The request.  A step is what its task does from one await to the next.   *)

\* ErrorHandler.lookup: an exact class for the route, then for all; then the nearest
\* ancestor for the route, then for all.  What is found is cached for the route, Nothing too.
Lookup(class, name) ==
    LET exact == {scope \in {name, All} : /\ <<class, scope>> \in DOMAIN cached_handlers
                                         /\ cached_handlers[<<class, scope>>] # NoHandler}
        places(scope) == {i \in DOMAIN MRO[class] : <<MRO[class][i], scope>> \in DOMAIN cached_handlers}
        nearest(scope) == cached_handlers[<<MRO[class][Min(places(scope))], scope>>]
        found == IF places(name) # {} THEN nearest(name)
                 ELSE IF places(All) # {} THEN nearest(All) ELSE NoHandler
    IN  IF exact # {}
        THEN [handler |-> cached_handlers[<<class, IF name \in exact THEN name ELSE All>>],
              cached  |-> cached_handlers]
        ELSE [handler |-> found, cached |-> Updated(cached_handlers, [key \in {<<class, name>>} |-> found])]

\* a loop over the middleware of the route or, if it has none, of the application
Collection(r, place) ==
    IF r.route # NoRoute /\ extra[r.route][place] # <<>>
    THEN [todo |-> extra[r.route][place], live |-> Nothing]
    ELSE [todo |-> collection[place][All], live |-> place]
Loop(r, place, c) ==
    [r EXCEPT !.todo = c.todo, !.live = c.live, !.torn = FALSE,
              !.stale = @ \/ ~router.finalized \/ r.route \notin router.routes \cup {NoRoute}]
Left(r) == [r EXCEPT !.todo = <<>>, !.live = Nothing]

\* as if it did not look whether the answer has begun
ExceptionAnyway(r, class, run) ==
    [Left(r) EXCEPT !.exception = class, !.erring = TRUE, !.nested = FALSE, !.handler = NoHandler,
                    !.stage = "handler", !.pc = "error handler"]

\* handle_exception up to its first await.  Once the answer has begun, it only looks for a
\* handler to warn of
Exception(r, class, run) ==
    LET e == [Left(r) EXCEPT !.exception = class, !.erring = TRUE, !.nested = FALSE, !.handler = NoHandler]
        c == Collection(r, "request")
    IN  IF r.stage # "handler" THEN [e EXCEPT !.pc = "warn"]
        ELSE IF run /\ c.todo # <<>> THEN [Loop(e, "request", c) EXCEPT !.pc = "error request"]
        ELSE [e EXCEPT !.pc = "error handler"]

\* as if it handed every failure back
EscapeForEver(r, class) == Exception([r EXCEPT !.attempt = @ + 1, !.ran = NoRequest.ran], class, FALSE)

\* error_response of the connection gets what escapes handle_exception: it hands it back,
\* then what escapes that; a third failure closes the connection
Escape(r, class) ==
    IF r.attempt = 2 \/ (r.attempt = 0 /\ r.stage # "handler") THEN [Left(r) EXCEPT !.pc = "end"]
    ELSE Exception([r EXCEPT !.attempt = @ + 1, !.ran = NoRequest.ran], class, r.attempt = 0)

Raise(r, class) ==
    IF ~r.erring THEN Exception(r, class, r.run)
    ELSE IF r.pc = "error request" THEN Exception(r, class, FALSE)
    ELSE Escape(r, class)

\* the end of respond(): the handler goes on, or the answer is sent, unless it is none
Responded(r) ==
    LET responded == [Left(r) EXCEPT !.responded = TRUE]
    IN  IF r.nested THEN [responded EXCEPT !.pc = "handler", !.nested = FALSE]
        ELSE IF r.response = "response" THEN [responded EXCEPT !.pc = "send"]
        ELSE Raise([responded EXCEPT !.pc = "send"], "ServerError")

\* respond() of the stream; what is no response it does not get
ConnectTo(r, response) == [Left(r) EXCEPT !.response = response, !.connected = response = "response"]

\* Request.respond up to its first await
Respond(r, response) ==
    LET given == ConnectTo(r, response)
        c     == Collection(r, "response")
    IN  IF r.connected THEN Raise(r, "ServerError")
        ELSE IF r.started \/ c.todo = <<>> THEN Responded(given)
        ELSE [Loop(given, "response", c) EXCEPT !.pc = "response", !.started = TRUE]

\* handle_exception answers anew: reset_response, respond
RespondAnew(r, response) ==
    Respond([r EXCEPT !.pc = "send", !.connected = FALSE, !.responded = FALSE], response)

Then(r) == request' = r /\ UNCHANGED <<app_vars, caches, served>>
MayFail    == request.failures < MaxFailures
Failing(r) == [r EXCEPT !.failures = @ + 1]

\* Router._get; a router that is not finalized resolves nothing
There(asked)    == {route \in router.routes : route.path = asked.path}
Resolved(asked) == {route \in There(asked) : router.finalized /\ asked.method \in route.methods}
Unresolved(asked) ==
    IF ~router.finalized THEN "TypeError"
    ELSE IF There(asked) = {} THEN "NotFound" ELSE "MethodNotAllowed"

\* Router.get: the cache, or the routes
Receive(asked) ==
    LET Routed(route) == [NoRequest EXCEPT !.pc = "body", !.route = route]
    IN  /\ is_started /\ request.pc = "idle" /\ served < MaxRequests
        /\ served' = served + 1
        /\ UNCHANGED <<app_vars, cached_handlers>>
        /\ \/ /\ asked \in DOMAIN route_cache
              /\ request' = Routed(route_cache[asked])
              /\ UNCHANGED route_cache
           \/ /\ asked \notin DOMAIN route_cache
              /\ \E route \in Resolved(asked) :
                    /\ request' = Routed(route)
                    /\ route_cache' = Updated(route_cache, [key \in {asked} |-> route])
           \/ /\ asked \notin DOMAIN route_cache /\ Resolved(asked) = {}
              /\ request' = Raise(NoRequest, Unresolved(asked))
              /\ UNCHANGED route_cache

\* the body is received, unless the route ignores or streams it; then its middleware runs
Body ==
    LET c == [todo |-> extra[request.route]["request"], live |-> Nothing]
        r == [Loop(request, "request", c) EXCEPT !.run = FALSE, !.due =
                AllOf(collection, "request", {All, request.route.name})]
    IN  /\ request.pc = "body"
        /\ \/ Then([r EXCEPT !.pc = IF r.todo = <<>> THEN "handler" ELSE "request"])
           \/ /\ MayFail /\ ~request.route.ignore_body /\ ~request.route.is_stream
              /\ Then(Raise(Failing(request), "PayloadTooLarge"))

\* _run_request_middleware: one of them returns, and the loop calls the next.  A deque that
\* has changed has no next, not even after its last.
Ran(place) == [request EXCEPT !.todo = Tail(@), !.ran[place] = Append(@, Head(request.todo))]
RequestMiddleware ==
    LET r == Ran("request")
    IN  /\ request.pc \in {"request", "error request"}
        /\ \/ Then(IF r.torn THEN Raise(r, "RuntimeError")
                 ELSE IF r.todo # <<>> THEN r
                 ELSE [Left(r) EXCEPT !.pc = IF r.erring THEN "error handler" ELSE "handler"])
           \/ Then(IF r.erring THEN RespondAnew(r, "response") ELSE Respond(r, "response"))
           \/ \E class \in DOMAIN OwnMRO : MayFail /\ Then(Raise(Failing(r), class))

\* _run_response_middleware: an answer of its own ends the loop; an exception ends it, too
ResponseMiddleware ==
    LET r == Ran("response")
    IN  /\ request.pc = "response"
        /\ \/ Then(IF r.torn \/ r.todo = <<>> THEN Responded(r) ELSE r)
           \/ Then(Responded([r EXCEPT !.response = "response", !.connected = TRUE]))
           \/ MayFail /\ Then(Responded(Failing(r)))

\* the handler of the route.  That of a websocket route returns when the connection is over.
HandlerReturns(response) ==
    /\ request.pc = "handler"
    /\ request.route.is_websocket => response = Nothing
    /\ Then(IF request.responded THEN [request EXCEPT !.response = "response", !.pc = "send"]
          ELSE IF response # Nothing THEN Respond(request, response)
          ELSE IF request.route.is_websocket THEN [request EXCEPT !.pc = "end"]
          ELSE Raise(request, "ServerError"))

HandlerRaises(class) ==
    request.pc = "handler" /\ MayFail /\ Then(Raise(Failing(request), class))

Begun(r) == IF r.stage = "handler" THEN [r EXCEPT !.stage = "response", !.sent = @ + 1] ELSE r

\* await request.respond(), await response.send()
HandlerResponds ==
    /\ request.pc = "handler" /\ ~request.route.is_websocket
    /\ Then(Respond([request EXCEPT !.nested = TRUE], "response"))
HandlerWrites ==
    /\ request.pc = "handler" /\ request.responded /\ request.stage = "handler"
    /\ Then(Begun(request))

\* ErrorHandler.response.  A handler that returns nothing gets the default answer; one that
\* raises, another.
HandleError ==
    LET found == Lookup(request.exception, request.route.name)
        r     == [request EXCEPT !.handler = found.handler]
    IN  /\ request.pc \in {"error handler", "warn"}
        /\ cached_handlers' = found.cached
        /\ UNCHANGED <<app_vars, route_cache, served>>
        /\ \/ request.pc = "warn" /\ request' = [r EXCEPT !.pc = "end"]
           \/ request.pc = "error handler" /\ request' = RespondAnew(r, "response")
           \/ /\ request.pc = "error handler" /\ found.handler # NoHandler
              /\ request' = RespondAnew(r, "junk")

\* response.send(end_stream=True); it raises if what was sent is not what was announced
Send ==
    /\ request.pc = "send"
    /\ \/ Then([Begun(request) EXCEPT !.pc = "end", !.stage = "idle"])
       \/ MayFail /\ Then(Raise(Begun(Failing(request)), "ServerError"))

\* the task is cancelled, and the connection takes it from there; an error that is about to
\* be answered is answered all the same
CancelRequest ==
    /\ request.pc \notin {"idle", "end"}
    /\ Then(IF request.erring /\ request.pc = "response" /\ request.response = "response"
          THEN [Begun(Left(request)) EXCEPT !.pc = "end", !.stage = "idle"]
          ELSE NoRequest)

Finish == request.pc = "end" /\ Then(NoRequest)

Amend ==
    \/ \E f \in Functions : RegisterMiddleware(f)
    \/ \E route \in Routes, overwrite \in BOOLEAN : AddRoute(route, overwrite)
    \/ \E h \in ErrorHandlers : AddExceptionHandler(h)

HandlingNext ==
    \/ Amend \/ StartServing
    \/ \E asked \in Asked : Receive(asked)
    \/ Body \/ RequestMiddleware \/ ResponseMiddleware \/ HandleError \/ Send \/ CancelRequest \/ Finish
    \/ \E response \in {Nothing, "response", "junk"} : HandlerReturns(response)
    \/ \E class \in DOMAIN OwnMRO : HandlerRaises(class)
    \/ HandlerResponds \/ HandlerWrites

HandlingSpec == HandlingInit /\ [][HandlingNext]_handling_vars

-----------------------------------------------------------------------------
HandlingTypeOK ==
    /\ is_started \in BOOLEAN /\ definition \in [Functions -> Nat]
    /\ \A place \in Places :
          /\ \A scope \in Scopes : ToSet(collection[place][scope]) \subseteq Functions
          /\ \A route \in Routes : ToSet(extra[route][place]) \subseteq Functions
    /\ router.routes \subseteq Routes /\ router.finalized \in BOOLEAN
    /\ DOMAIN route_cache \subseteq Asked
    /\ DOMAIN cached_handlers \subseteq (Classes \X Scopes)
    /\ request.attempt \in 0..2 /\ request.failures \in 0..MaxFailures /\ served \in 0..MaxRequests
    /\ request.route \in Routes \cup {NoRoute} /\ request.live \in Places \cup {Nothing}

\* When the handler of a route is called, all the request middleware that is registered for
\* the application or the route has run, once each and by priority, then by definition; the
\* response middleware that has run is in the opposite order, and none has run twice, even if
\* the handler answered, failed, and its error was answered.  It is so however the application
\* was amended meanwhile, as long as the route was not overwritten while the router's cache
\* still knows it and no amendment has failed.
MiddlewareInOrder ==
    ~request.stale /\ request.attempt = 0 =>
        /\ \A i, j \in DOMAIN request.ran["request"] :
              i < j => Before(request.ran["request"][i], request.ran["request"][j], definition)
        /\ \A i, j \in DOMAIN request.ran["response"] :
              i < j => Before(request.ran["response"][j], request.ran["response"][i], definition)
        /\ request.pc = "handler" => ToSet(request.ran["request"]) = request.due

\* A request is never answered twice, whatever fails and is answered with an error, and it is
\* not left without an answer, even a broken one: unless it became a websocket, or its task was
\* cancelled, or the answers to its errors failed three times.
AnsweredOnce ==
    /\ request.sent <= 1
    /\ request.pc = "end" =>
        \/ request.sent = 1
        \/ request.route.is_websocket /\ request.exception = Nothing
        \/ request.attempt = 2

\* An exception is given to a handler that was registered for its class or a class it derives
\* from, for the route of the request or for all routes: whatever was looked up before.
HandlerFits ==
    request.handler # NoHandler =>
        /\ request.handler.exception \in ToSet(MRO[request.exception])
        /\ request.handler.scope \in {All, request.route.name}

\* Whatever fails, at whatever point, is answered by who is concerned, once.
ErrorsAnswered == AnsweredOnce /\ HandlerFits
===============================================================================
