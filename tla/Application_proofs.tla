--------------------------- MODULE Application_proofs ---------------------------
(***************************************************************************)
(* What an application is made of, for any routes, handlers, signals,      *)
(* files, ranges and values, and any number of requests, dispatches,       *)
(* changes and exceptions.                                                 *)
(*                                                                         *)
(* HandlingInv.  Whether the answer to a request has begun is told by the  *)
(* stage (Core), and an error's task by the exception it is about; what is *)
(* cached under a class fits the class (Fitting), so that what is found    *)
(* under an ancestor fits the heirs: Python's MROs agree with each other.  *)
(*                                                                         *)
(* MiddlewareInv.  Middleware are numbered as they are registered          *)
(* (Numbered), what is finalized lists them by priority and number         *)
(* (Collected), and what a loop has called, followed by what it has still  *)
(* to call, is such a listing (Orderly), while an amendment makes new      *)
(* lists and leaves the loop its own.                                      *)
(*                                                                         *)
(* SignalsInv.  What a dispatch has called, followed by what it has still  *)
(* to call, are the handlers concerned, in their order (Proceeds), and     *)
(* whoever has been told was waiting for it.                               *)
(*                                                                         *)
(* StaticInv.  What was said of the version that is there is so of it:     *)
(* the stream has sent so much of it (StreamFits), the open file is no     *)
(* earlier one (OpenFits), and so is the copy.  Of an earlier version      *)
(* nothing is claimed.                                                     *)
(*                                                                         *)
(* DataInv.  What a handler was told is cached (ToldFits), and what is     *)
(* cached was read of one body and of one set of proxy headers (ViewsFit). *)
(* The page is in the first of the best formats (MatchIs).                 *)
(*                                                                         *)
(* CookiesInv.  Unless a client may not heed what was said of a cookie, it *)
(* heeds all that a jar has of it, the last of that is the last word on    *)
(* it, and if there is nothing of it in the jar the client has the last    *)
(* word already (IdFits).                                                  *)
(*                                                                         *)
(* KeptUpToDate is inductive: whoever changes the raw body of a JSON       *)
(* response encodes it in the same step, or leaves it behind.              *)
(***************************************************************************)
EXTENDS RequestHandling, SignalRouter, StaticFiles, JsonBody, RequestData, Cookies,
        Selecting_proofs, SequenceTheorems, FiniteSetTheorems, TLAPS

-----------------------------------------------------------------------------
(* Errors and their answers *)

\* what is cached under a class fits it, so that what is found under an ancestor does
Fitting == \A key \in DOMAIN cached_handlers :
    cached_handlers[key] # NoHandler =>
        /\ cached_handlers[key].exception \in ToSet(MRO[key[1]])
        /\ cached_handlers[key].scope \in {All, key[2]}

\* a request, wherever its task is: the stage tells whether its answer has begun
Core(r) ==
    /\ DOMAIN r = DOMAIN NoRequest
    /\ r.stage = "handler" => r.sent = 0
    /\ r.stage # "handler" => r.sent = 1
    /\ r.exception \in Classes \cup {Nothing} /\ r.attempt \in {0, 1, 2}
    /\ r.erring <=> r.exception # Nothing
    /\ r.nested => ~r.erring
    /\ r.handler # NoHandler => /\ r.handler.exception \in ToSet(MRO[r.exception])
                                /\ r.handler.scope \in {All, r.route.name}

\* and what its task awaits
AtPlace(r) ==
    /\ r.pc \in {"body", "handler"} => ~r.erring
    /\ r.pc \in {"error request", "error handler", "warn"} => r.erring
    /\ r.pc = "warn" => r.sent = 1
    /\ r.pc = "end" => \/ r.sent = 1
                       \/ r.route.is_websocket /\ r.exception = Nothing
                       \/ r.attempt = 2

Sound(r) == Core(r) /\ AtPlace(r)

HandlingInv == Fitting /\ Sound(request)

LEMMA ClassesAre ==
    /\ {"ServerError", "PayloadTooLarge", "RuntimeError", "TypeError", "NotFound", "MethodNotAllowed"}
         \subseteq Classes
    /\ DOMAIN OwnMRO \subseteq Classes /\ Classes = DOMAIN MRO /\ Nothing \notin Classes
  <1>1. DOMAIN MRO = DOMAIN OwnMRO \cup DOMAIN SanicMRO
    BY DEF MRO, Updated
  <1>2. {"ServerError", "PayloadTooLarge", "RuntimeError", "TypeError", "NotFound", "MethodNotAllowed"}
          \subseteq DOMAIN SanicMRO
    BY DEF SanicMRO
  <1> QED BY <1>1, <1>2, HandlingAssumption DEF Classes

LEMMA FieldsAre ==
    DOMAIN NoRequest = {"pc", "route", "run", "todo", "live", "torn", "erring", "nested", "stage", "response",
                        "responded", "connected", "started", "exception", "handler", "attempt", "failures",
                        "sent", "due", "stale", "ran"}
  BY DEF NoRequest

LEMMA NoRequestSound == Sound(NoRequest)
  BY ClassesAre DEF Sound, Core, AtPlace, NoRequest, NoHandler
-----------------------------------------------------------------------------
\* The answer to an exception begins, or it is warned of.
LEMMA ExceptionSound ==
    ASSUME NEW r, Core(r), NEW class \in Classes, NEW run PROVE Sound(Exception(r, class, run))
  <1> DEFINE e == [Left(r) EXCEPT !.exception = class, !.erring = TRUE, !.nested = FALSE, !.handler = NoHandler]
  <1>1. Core(e) /\ e.erring /\ e.stage = r.stage
    BY ClassesAre, FieldsAre DEF Core, Left
  <1> HIDE DEF e
  <1>2. CASE r.stage # "handler"
    <2>1. Exception(r, class, run) = [e EXCEPT !.pc = "warn"]
      BY <1>2 DEF Exception, e
    <2> QED BY <1>1, <1>2, <2>1, FieldsAre DEF Sound, Core, AtPlace
  <1>3. ASSUME NEW c PROVE Sound([Loop(e, "request", c) EXCEPT !.pc = "error request"])
    BY <1>1, FieldsAre DEF Sound, Core, AtPlace, Loop
  <1>4. Sound([e EXCEPT !.pc = "error handler"])
    BY <1>1, FieldsAre DEF Sound, Core, AtPlace
  <1>5. CASE r.stage = "handler"
    BY <1>3, <1>4, <1>5 DEF Exception, e
  <1> QED BY <1>2, <1>5

LEMMA EscapeSound ==
    ASSUME NEW r, Core(r), NEW class \in Classes PROVE Sound(Escape(r, class))
  <1>1. CASE r.attempt = 2 \/ (r.attempt = 0 /\ r.stage # "handler")
    <2>1. Escape(r, class) = [Left(r) EXCEPT !.pc = "end"]
      BY <1>1 DEF Escape
    <2> QED BY <1>1, <2>1, FieldsAre DEF Sound, Core, AtPlace, Left
  <1>2. CASE ~(r.attempt = 2 \/ (r.attempt = 0 /\ r.stage # "handler"))
    <2> DEFINE s == [r EXCEPT !.attempt = @ + 1, !.ran = NoRequest.ran]
    <2>1. Core(s)
      BY <1>2, FieldsAre DEF Core
    <2>2. Escape(r, class) = Exception(s, class, r.attempt = 0)
      BY <1>2 DEF Escape
    <2> HIDE DEF s
    <2> QED BY <2>1, <2>2, ExceptionSound
  <1> QED BY <1>1, <1>2

LEMMA RaiseSound ==
    ASSUME NEW r, Core(r), NEW class \in Classes PROVE Sound(Raise(r, class))
  BY ExceptionSound, EscapeSound DEF Raise

LEMMA RespondedSound ==
    ASSUME NEW r, Core(r) PROVE Sound(Responded(r))
  <1> DEFINE s == [Left(r) EXCEPT !.responded = TRUE]
  <1>1. Core(s) /\ s.nested = r.nested /\ s.erring = r.erring
    BY FieldsAre DEF Core, Left
  <1> HIDE DEF s
  <1>2. r.nested => Sound([s EXCEPT !.pc = "handler", !.nested = FALSE])
    BY <1>1, FieldsAre DEF Sound, Core, AtPlace
  <1>3. Sound([s EXCEPT !.pc = "send"])
    BY <1>1, FieldsAre DEF Sound, Core, AtPlace
  <1>4. Sound(Raise([s EXCEPT !.pc = "send"], "ServerError"))
    BY <1>3, RaiseSound, ClassesAre DEF Sound
  <1> QED BY <1>2, <1>3, <1>4 DEF Responded, s

LEMMA RespondSound ==
    ASSUME NEW r, Core(r), NEW response PROVE Sound(Respond(r, response))
  <1> DEFINE given == ConnectTo(r, response)
  <1>1. Core(given)
    BY FieldsAre DEF Core, ConnectTo, Left
  <1> HIDE DEF given
  <1>2. Sound(Raise(r, "ServerError"))
    BY RaiseSound, ClassesAre
  <1>3. Sound(Responded(given))
    BY <1>1, RespondedSound
  <1>4. ASSUME NEW c PROVE Sound([Loop(given, "response", c) EXCEPT !.pc = "response", !.started = TRUE])
    BY <1>1, FieldsAre DEF Sound, Core, AtPlace, Loop
  <1> QED BY <1>2, <1>3, <1>4 DEF Respond, given

LEMMA RespondAnewSound ==
    ASSUME NEW r, Core(r), NEW response PROVE Sound(RespondAnew(r, response))
  <1>1. Core([r EXCEPT !.pc = "send", !.connected = FALSE, !.responded = FALSE])
    BY FieldsAre DEF Core
  <1> QED BY <1>1, RespondSound DEF RespondAnew

LEMMA FailingCore == ASSUME NEW r, Core(r) PROVE Core(Failing(r))
  BY FieldsAre DEF Core, Failing

LEMMA BegunCore == ASSUME NEW r, Core(r) PROVE Core(Begun(r)) /\ Begun(r).sent = 1 /\ Begun(r).pc = r.pc
  BY FieldsAre DEF Core, Begun

LEMMA RanCore == ASSUME NEW place, Core(request) PROVE Core(Ran(place)) /\ Ran(place).erring = request.erring
  BY FieldsAre DEF Core, Ran

\* What is found for an exception is for its class or one it derives from, and so is what is
\* cached: an ancestor's handlers are for the ancestors of the class.
LEMMA LookupFits ==
    ASSUME Fitting, NEW class \in Classes, NEW name
    PROVE  LET found == Lookup(class, name)
           IN  /\ found.handler # NoHandler => /\ found.handler.exception \in ToSet(MRO[class])
                                               /\ found.handler.scope \in {All, name}
               /\ \A key \in DOMAIN found.cached : found.cached[key] # NoHandler =>
                     /\ found.cached[key].exception \in ToSet(MRO[key[1]])
                     /\ found.cached[key].scope \in {All, key[2]}
  <1> DEFINE exact == {scope \in {name, All} : /\ <<class, scope>> \in DOMAIN cached_handlers
                                               /\ cached_handlers[<<class, scope>>] # NoHandler}
             places(scope) == {i \in DOMAIN MRO[class] : <<MRO[class][i], scope>> \in DOMAIN cached_handlers}
             nearest(scope) == cached_handlers[<<MRO[class][Min(places(scope))], scope>>]
             found == IF places(name) # {} THEN nearest(name)
                      ELSE IF places(All) # {} THEN nearest(All) ELSE NoHandler
             Concerns(h) == h # NoHandler => h.exception \in ToSet(MRO[class]) /\ h.scope \in {All, name}
  <1>1. ASSUME NEW scope \in {name, All}, places(scope) # {} PROVE Concerns(nearest(scope))
    <2> DEFINE i == Min(places(scope))
    <2>1. i \in places(scope)
      <3>1. MRO[class] \in Seq(Classes)
        BY HandlingAssumption
      <3>2. places(scope) \subseteq Nat
        BY <3>1
      <3> DEFINE S == places(scope)
      <3>3. S \subseteq Nat /\ S # {}
        BY <1>1, <3>2
      <3> HIDE DEF S
      <3>4. \E x \in S : \A y \in S : x <= y
        BY <3>3, Least
      <3>5. Min(S) \in S
        BY <3>4 DEF Min
      <3> QED BY <3>5 DEF S
    <2> HIDE DEF i
    <2>2. i \in DOMAIN MRO[class] /\ <<MRO[class][i], scope>> \in DOMAIN cached_handlers
      BY <2>1
    <2>3. ToSet(MRO[MRO[class][i]]) \subseteq ToSet(MRO[class])
      BY <2>2, HandlingAssumption
    <2> DEFINE h == cached_handlers[<<MRO[class][i], scope>>]
    <2>4. h # NoHandler => h.exception \in ToSet(MRO[MRO[class][i]]) /\ h.scope \in {All, scope}
      BY <2>2 DEF Fitting
    <2>5. nearest(scope) = h
      BY DEF i
    <2> HIDE DEF h
    <2> QED BY <2>3, <2>4, <2>5
  <1>2. Concerns(found)
    BY <1>1
  <1>3. CASE exact # {}
    <2> DEFINE scope == IF name \in exact THEN name ELSE All
    <2>1. scope \in exact
      BY <1>3
    <2> HIDE DEF scope
    <2>2. Concerns(cached_handlers[<<class, scope>>])
      BY <2>1 DEF Fitting
    <2>3. Lookup(class, name) = [handler |-> cached_handlers[<<class, scope>>], cached |-> cached_handlers]
      BY <1>3 DEF Lookup, scope
    <2> QED BY <2>2, <2>3 DEF Fitting
  <1>4. CASE exact = {}
    <2> DEFINE h == found
               cached == Updated(cached_handlers, [key \in {<<class, name>>} |-> h])
    <2>1. Lookup(class, name) = [handler |-> h, cached |-> cached]
      BY <1>4 DEF Lookup
    <2>2. Concerns(h)
      BY <1>2
    <2> HIDE DEF h
    <2>3. ASSUME NEW key \in DOMAIN cached, cached[key] # NoHandler
          PROVE  cached[key].exception \in ToSet(MRO[key[1]]) /\ cached[key].scope \in {All, key[2]}
      <3>1. CASE key = <<class, name>>
        BY <2>2, <2>3, <3>1 DEF Updated
      <3>2. CASE key # <<class, name>>
        BY <2>3, <3>2 DEF Updated, Fitting
      <3> QED BY <3>1, <3>2
    <2> HIDE DEF cached
    <2> QED BY <2>1, <2>2, <2>3
  <1> QED BY <1>3, <1>4
-----------------------------------------------------------------------------
LEMMA HandlingStarts == HandlingInit \/ HandlingOff => HandlingInv
  <1>1. HandlingInit => Fitting
    BY DEF HandlingInit, Fitting
  <1>2. HandlingOff => Fitting
    BY DEF HandlingOff, Fitting
  <1> QED BY <1>1, <1>2, NoRequestSound DEF HandlingInit, HandlingOff, HandlingInv

\* Whatever is amended, the request goes on where it was.
LEMMA AmendKeeps == HandlingInv /\ (Amend \/ StartServing) => HandlingInv'
  <1> SUFFICES ASSUME HandlingInv, Amend \/ StartServing PROVE HandlingInv'
    OBVIOUS
  <1> USE FieldsAre DEF HandlingInv
  <1>1. ASSUME NEW f \in Functions, RegisterMiddleware(f) PROVE HandlingInv'
    <2>1. cached_handlers' = cached_handlers
      BY <1>1 DEF RegisterMiddleware, caches
    <2>2. \A b : Sound(OldLoop([request EXCEPT !.torn = b]))
      BY DEF OldLoop, Sound, Core, AtPlace
    <2>3. Sound(request')
      BY <1>1, <2>2 DEF RegisterMiddleware
    <2> QED BY <2>1, <2>3 DEF Fitting
  <1>2. ASSUME NEW route \in Routes, NEW overwrite \in BOOLEAN, AddRoute(route, overwrite) PROVE HandlingInv'
    <2>1. cached_handlers' = cached_handlers
      BY <1>2 DEF AddRoute, caches
    <2>2. Sound(OldLoop(request))
      BY DEF OldLoop, Sound, Core, AtPlace
    <2>3. Sound(request')
      BY <1>2, <2>2 DEF AddRoute
    <2> QED BY <2>1, <2>3 DEF Fitting
  <1>3. ASSUME NEW h \in ErrorHandlers, AddExceptionHandler(h) PROVE HandlingInv'
    <2> DEFINE key == <<h.exception, h.scope>>
    <2>1. request' = request /\ cached_handlers' = Updated(cached_handlers, [k \in {key} |-> h])
      BY <1>3 DEF AddExceptionHandler, AddTo
    <2>2. h.exception \in ToSet(MRO[h.exception])
      <3>1. h.exception \in Classes
        BY HandlingAssumption
      <3> DEFINE mro == MRO[h.exception]
      <3>2. mro \in Seq(Classes) /\ mro # <<>> /\ mro[1] = h.exception
        BY <3>1, HandlingAssumption
      <3> HIDE DEF mro
      <3>3. 1 \in DOMAIN mro
        BY <3>2
      <3>4. h.exception \in ToSet(mro)
        BY <3>2, <3>3 DEF ToSet
      <3> QED BY <3>4 DEF mro
    <2>3. Fitting'
      <3> SUFFICES ASSUME NEW k \in DOMAIN cached_handlers', cached_handlers'[k] # NoHandler
                   PROVE  /\ cached_handlers'[k].exception \in ToSet(MRO[k[1]])
                          /\ cached_handlers'[k].scope \in {All, k[2]}
        BY DEF Fitting
      <3>1. CASE k = key
        BY <2>1, <2>2, <3>1 DEF Updated
      <3>2. CASE k # key
        BY <2>1, <3>2 DEF Updated, Fitting
      <3> QED BY <3>1, <3>2
    <2> QED BY <2>1, <2>3
  <1>4. CASE StartServing
    BY <1>4 DEF StartServing, caches, Fitting
  <1> QED BY <1>1, <1>2, <1>3, <1>4 DEF Amend

LEMMA StaysFitting == ASSUME HandlingInv, UNCHANGED cached_handlers, Sound(request') PROVE HandlingInv'
  BY DEF HandlingInv, Fitting

LEMMA ThenKeeps == ASSUME HandlingInv, NEW r, Sound(r), Then(r) PROVE HandlingInv'
  BY StaysFitting DEF Then, caches

LEMMA ReceiveKeeps == ASSUME HandlingInv, NEW target \in Asked, Receive(target) PROVE HandlingInv'
  <1>1. \A route : Sound([NoRequest EXCEPT !.pc = "body", !.route = route])
    BY NoRequestSound, FieldsAre DEF Sound, Core, AtPlace, NoRequest, NoHandler
  <1>2. Unresolved(target) \in Classes
    BY ClassesAre DEF Unresolved
  <1>3. Sound(Raise(NoRequest, Unresolved(target)))
    BY <1>2, NoRequestSound, RaiseSound DEF Sound
  <1>4. UNCHANGED cached_handlers /\ Sound(request')
    BY <1>1, <1>3 DEF Receive
  <1> QED BY <1>4, StaysFitting

LEMMA BodyKeeps == ASSUME HandlingInv, Body PROVE HandlingInv'
  <1> DEFINE c == [todo |-> extra[request.route]["request"], live |-> Nothing]
             r == [Loop(request, "request", c) EXCEPT !.run = FALSE, !.due =
                     AllOf(collection, "request", {All, request.route.name})]
  <1>1. Core(request) /\ AtPlace(request) /\ request.pc = "body"
    BY DEF HandlingInv, Sound, Body
  <1>2. Core(r) /\ ~r.erring
    <2> HIDE DEF c
    <2>1. Core(Loop(request, "request", c)) /\ ~Loop(request, "request", c).erring
      BY <1>1, FieldsAre DEF Core, AtPlace, Loop
    <2> QED BY <2>1, FieldsAre DEF Core
  <1>3. Sound(Raise(Failing(request), "PayloadTooLarge"))
    BY <1>1, FailingCore, RaiseSound, ClassesAre
  <1>4. ASSUME NEW pc \in {"handler", "request"} PROVE Sound([r EXCEPT !.pc = pc])
    <2> HIDE DEF r
    <2> QED BY <1>2, FieldsAre DEF Sound, Core, AtPlace
  <1>5. \/ \E pc \in {"handler", "request"} : Then([r EXCEPT !.pc = pc])
        \/ Then(Raise(Failing(request), "PayloadTooLarge"))
    BY DEF Body
  <1> HIDE DEF r
  <1> QED BY <1>3, <1>4, <1>5, ThenKeeps

LEMMA MiddlewareKeeps == ASSUME HandlingInv, RequestMiddleware \/ ResponseMiddleware PROVE HandlingInv'
  <1>1. Core(request) /\ AtPlace(request)
    BY DEF HandlingInv, Sound
  <1>2. CASE RequestMiddleware
    <2> DEFINE r == Ran("request")
    <2>1. Core(r) /\ r.erring = request.erring /\ r.pc = request.pc /\ r.pc \in {"request", "error request"}
      BY <1>1, <1>2, RanCore, FieldsAre DEF RequestMiddleware, Ran, Core
    <2> HIDE DEF r
    <2>2. Core(Failing(r))
      BY <2>1, FailingCore
    <2>3. ASSUME NEW class \in Classes PROVE Sound(Raise(Failing(r), class)) /\ Sound(Raise(r, class))
      BY <2>1, <2>2, RaiseSound
    <2>4. Sound(RespondAnew(r, "response")) /\ Sound(Respond(r, "response"))
      BY <2>1, RespondAnewSound, RespondSound
    <2>5. Sound(r)
      BY <1>1, <2>1 DEF Sound, AtPlace
    <2>6. Sound([Left(r) EXCEPT !.pc = IF r.erring THEN "error handler" ELSE "handler"])
      BY <2>1, FieldsAre DEF Sound, Core, AtPlace, Left
    <2>7. \/ Then(Raise(r, "RuntimeError")) \/ Then(r)
          \/ Then([Left(r) EXCEPT !.pc = IF r.erring THEN "error handler" ELSE "handler"])
          \/ Then(RespondAnew(r, "response")) \/ Then(Respond(r, "response"))
          \/ \E class \in DOMAIN OwnMRO : Then(Raise(Failing(r), class))
      BY <1>2 DEF RequestMiddleware, r
    <2> QED BY <2>3, <2>4, <2>5, <2>6, <2>7, ThenKeeps, ClassesAre
  <1>3. CASE ResponseMiddleware
    <2> DEFINE r == Ran("response")
    <2>1. Core(r) /\ r.erring = request.erring /\ r.pc = "response"
      BY <1>1, <1>3, RanCore, FieldsAre DEF ResponseMiddleware, Ran, Core
    <2> HIDE DEF r
    <2>2. Core(Failing(r)) /\ Core([r EXCEPT !.response = "response", !.connected = TRUE])
      BY <2>1, FailingCore, FieldsAre DEF Core
    <2>3. /\ Sound(Responded(r)) /\ Sound(Responded(Failing(r)))
          /\ Sound(Responded([r EXCEPT !.response = "response", !.connected = TRUE]))
      BY <2>1, <2>2, RespondedSound
    <2>4. Sound(r)
      BY <2>1 DEF Sound, AtPlace
    <2>5. \/ Then(Responded(r)) \/ Then(r) \/ Then(Responded(Failing(r)))
          \/ Then(Responded([r EXCEPT !.response = "response", !.connected = TRUE]))
      BY <1>3 DEF ResponseMiddleware, r
    <2> QED BY <2>3, <2>4, <2>5, ThenKeeps
  <1> QED BY <1>2, <1>3

LEMMA HandlerKeeps ==
    ASSUME HandlingInv,
           \/ \E response \in {Nothing, "response", "junk"} : HandlerReturns(response)
           \/ \E class \in DOMAIN OwnMRO : HandlerRaises(class)
           \/ HandlerResponds \/ HandlerWrites
    PROVE  HandlingInv'
  <1>1. Core(request) /\ AtPlace(request)
    BY DEF HandlingInv, Sound
  <1>2. request.pc = "handler" /\ ~request.erring /\ request.exception = Nothing
    BY <1>1 DEF HandlerReturns, HandlerRaises, HandlerResponds, HandlerWrites, AtPlace, Core
  <1>3. ASSUME NEW response, HandlerReturns(response) PROVE HandlingInv'
    <2>1. Sound([request EXCEPT !.response = "response", !.pc = "send"])
      BY <1>1, FieldsAre DEF Sound, Core, AtPlace
    <2>2. Sound(Respond(request, response)) /\ Sound(Raise(request, "ServerError"))
      BY <1>1, RespondSound, RaiseSound, ClassesAre
    <2>3. request.route.is_websocket => Sound([request EXCEPT !.pc = "end"])
      BY <1>1, <1>2, FieldsAre DEF Sound, Core, AtPlace
    <2>4. \/ Then([request EXCEPT !.response = "response", !.pc = "send"])
          \/ Then(Respond(request, response)) \/ Then(Raise(request, "ServerError"))
          \/ request.route.is_websocket /\ Then([request EXCEPT !.pc = "end"])
      BY <1>3 DEF HandlerReturns
    <2> QED BY <2>1, <2>2, <2>3, <2>4, ThenKeeps
  <1>4. ASSUME NEW class \in DOMAIN OwnMRO, HandlerRaises(class) PROVE HandlingInv'
    <2>1. Sound(Raise(Failing(request), class))
      BY <1>1, FailingCore, RaiseSound, ClassesAre
    <2> QED BY <1>4, <2>1, ThenKeeps DEF HandlerRaises
  <1>5. CASE HandlerResponds
    <2>1. Core([request EXCEPT !.nested = TRUE])
      BY <1>1, <1>2, FieldsAre DEF Core
    <2>2. Sound(Respond([request EXCEPT !.nested = TRUE], "response"))
      BY <2>1, RespondSound
    <2> QED BY <1>5, <2>2, ThenKeeps DEF HandlerResponds
  <1>6. CASE HandlerWrites
    <2>1. Core(Begun(request)) /\ Begun(request).erring = request.erring /\ Begun(request).pc = request.pc
      BY <1>1, BegunCore, FieldsAre DEF Begun, Core
    <2>2. Sound(Begun(request))
      BY <1>2, <2>1 DEF Sound, AtPlace
    <2> QED BY <1>6, <2>2, ThenKeeps DEF HandlerWrites
  <1> QED BY <1>3, <1>4, <1>5, <1>6

LEMMA HandleErrorKeeps == ASSUME HandlingInv, HandleError PROVE HandlingInv'
  <1> DEFINE found == Lookup(request.exception, request.route.name)
             r     == [request EXCEPT !.handler = found.handler]
  <1>1. Core(request) /\ AtPlace(request) /\ Fitting
    BY DEF HandlingInv, Sound
  <1>2. request.pc \in {"error handler", "warn"} /\ request.erring /\ request.exception \in Classes
    BY <1>1 DEF HandleError, Core, AtPlace
  <1>3. /\ found.handler # NoHandler => /\ found.handler.exception \in ToSet(MRO[request.exception])
                                        /\ found.handler.scope \in {All, request.route.name}
        /\ \A key \in DOMAIN found.cached : found.cached[key] # NoHandler =>
              /\ found.cached[key].exception \in ToSet(MRO[key[1]])
              /\ found.cached[key].scope \in {All, key[2]}
    BY <1>1, <1>2, LookupFits
  <1>4. /\ cached_handlers' = found.cached
        /\ \/ request.pc = "warn" /\ request' = [r EXCEPT !.pc = "end"]
           \/ request' = RespondAnew(r, "response")
           \/ request' = RespondAnew(r, "junk")
    BY DEF HandleError
  <1>5. Fitting'
    BY <1>3, <1>4 DEF Fitting
  <1> HIDE DEF found
  <1>6. Core(r) /\ r.sent = request.sent
    BY <1>1, <1>3, FieldsAre DEF Core
  <1> HIDE DEF r
  <1>7. request.pc = "warn" => Sound([r EXCEPT !.pc = "end"])
    BY <1>1, <1>6, FieldsAre DEF Sound, Core, AtPlace
  <1>8. Sound(RespondAnew(r, "response")) /\ Sound(RespondAnew(r, "junk"))
    BY <1>6, RespondAnewSound
  <1> QED BY <1>4, <1>5, <1>7, <1>8 DEF HandlingInv

LEMMA EndingKeeps == ASSUME HandlingInv, Send \/ CancelRequest \/ Finish PROVE HandlingInv'
  <1>1. Core(request)
    BY DEF HandlingInv, Sound
  <1>2. CASE Send
    <2>1. Sound([Begun(request) EXCEPT !.pc = "end", !.stage = "idle"])
      <3> DEFINE b == Begun(request)
      <3>1. Core(b) /\ b.sent = 1
        BY <1>1, BegunCore
      <3> HIDE DEF b
      <3>2. Sound([b EXCEPT !.pc = "end", !.stage = "idle"])
        BY <3>1, FieldsAre DEF Sound, Core, AtPlace
      <3> QED BY <3>2 DEF b
    <2>2. Sound(Raise(Begun(Failing(request)), "ServerError"))
      BY <1>1, FailingCore, BegunCore, RaiseSound, ClassesAre
    <2> QED BY <1>2, <2>1, <2>2, ThenKeeps DEF Send
  <1>3. CASE CancelRequest
    <2> DEFINE b == Begun(Left(request))
    <2>1. Core(b) /\ b.sent = 1
      <3>1. Core(Left(request))
        BY <1>1, FieldsAre DEF Core, Left
      <3> QED BY <3>1, BegunCore
    <2> HIDE DEF b
    <2>2. Sound([b EXCEPT !.pc = "end", !.stage = "idle"])
      BY <2>1, FieldsAre DEF Sound, Core, AtPlace
    <2>3. Then([b EXCEPT !.pc = "end", !.stage = "idle"]) \/ Then(NoRequest)
      BY <1>3 DEF CancelRequest, b
    <2> QED BY <2>2, <2>3, NoRequestSound, ThenKeeps
  <1>4. CASE Finish
    BY <1>4, NoRequestSound, ThenKeeps DEF Finish
  <1> QED BY <1>2, <1>3, <1>4

LEMMA HandlingKept == HandlingInv /\ [HandlingNext]_handling_vars => HandlingInv'
  <1> SUFFICES ASSUME HandlingInv, [HandlingNext]_handling_vars PROVE HandlingInv'
    OBVIOUS
  <1>1. CASE UNCHANGED handling_vars
    BY <1>1, StaysFitting DEF handling_vars, caches, HandlingInv
  <1>2. CASE HandlingNext
    BY <1>2, AmendKeeps, ReceiveKeeps, BodyKeeps, MiddlewareKeeps, HandlerKeeps, HandleErrorKeeps,
       EndingKeeps DEF HandlingNext
  <1> QED BY <1>1, <1>2

\* However routes, middleware and error handlers are amended while requests are handled, and wherever
\* user code raises or a task is cancelled: a request is answered at most once, and not left without
\* an answer but where it became a websocket or its errors' answers failed three times; and the
\* handler of an exception is one for its class or a class it derives from, for its route or all.
\* (Sanic.handle_exception, ErrorHandler.lookup, Http.error_response)
THEOREM AnsweredByWhoIsConcerned == HandlingSpec => []ErrorsAnswered
  <1>1. HandlingInv => ErrorsAnswered
    <2> SUFFICES ASSUME HandlingInv PROVE ErrorsAnswered
      OBVIOUS
    <2>1. Core(request) /\ AtPlace(request)
      BY DEF HandlingInv, Sound
    <2>2. request.sent = 0 \/ request.sent = 1
      BY <2>1 DEF Core
    <2>3. AnsweredOnce
      <3>1. request.sent <= 1
        BY <2>2
      <3> QED BY ONLY <2>1, <3>1, Zenon DEF AtPlace, AnsweredOnce
    <2>4. HandlerFits
      BY <2>1 DEF Core, HandlerFits
    <2> QED BY <2>3, <2>4 DEF ErrorsAnswered
  <1> QED BY <1>1, HandlingStarts, HandlingKept, PTL DEF HandlingSpec
-----------------------------------------------------------------------------
(* The order of middleware *)

Registered == {f \in Functions : definition[f] # 0}

\* a middleware is numbered when it is registered, later than all before it
Numbered ==
    /\ definition \in [Functions -> Nat]
    /\ \A f \in Registered : definition[f] <= Cardinality(Registered)
    /\ \A f, g \in Registered : definition[f] = definition[g] => f = g

OrderedBy(s, place, number) ==
    \A i, j \in DOMAIN s : i < j =>
        IF place = "request" THEN Before(s[i], s[j], number) ELSE Before(s[j], s[i], number)

\* a loop over it calls all that is registered, in order
Listing(s, place, scopes) ==
    /\ ToSet(s) = AllOf(collection, place, scopes)
    /\ OrderedBy(s, place, definition)

\* what is finalized lists what is registered, while no amendment has failed
Collected ==
    /\ is_started \in BOOLEAN
    /\ router \in [routes : SUBSET Routes, finalized : BOOLEAN]
    /\ collection \in [Places -> [Scopes -> Seq(Registered)]]
    /\ extra \in [Routes -> [Places -> Seq(Registered)]]
    /\ \A key \in DOMAIN route_cache : route_cache[key] \in Routes
    /\ router.finalized =>
          /\ is_started
          /\ \A place \in Places :
                /\ Listing(collection[place][All], place, {All})
                /\ \A route \in router.routes : Listing(extra[route][place], place, {All, route.name})

Judged(r) == ~r.stale /\ r.attempt = 0

\* what has been called for a request was called in order, in one loop for each place
Running(r) ==
    /\ DOMAIN r = DOMAIN NoRequest
    /\ r.run \in BOOLEAN /\ r.erring \in BOOLEAN /\ r.attempt \in Nat
    /\ r.route \in Routes \cup {NoRoute}
    /\ r.ran \in [Places -> Seq(Registered)]
    /\ r.nested => ~r.erring
    /\ ~r.started => r.ran["response"] = <<>>
    /\ r.run /\ ~r.erring => r.ran["request"] = <<>>
    /\ Judged(r) => \A place \in Places : OrderedBy(r.ran[place], place, definition)
    /\ Judged(r) /\ r.nested => ToSet(r.ran["request"]) = r.due

\* and so will be what is left of the loop
AtLoop(r) ==
    /\ r.todo \in Seq(Registered)
    /\ r.pc = "body" => r.ran["request"] = <<>> /\ r.route \in Routes
    /\ r.pc \in {"request", "error request", "response"} => r.todo # <<>>
    /\ r.pc = "request" => ~r.run
    /\ r.pc = "error request" => r.erring
    /\ r.pc \in {"body", "handler"} => ~r.erring
    /\ r.pc = "response" => r.started
    /\ r.nested => r.pc = "response"
    /\ Judged(r) => \* the loops
          /\ r.pc \in {"request", "error request"} => OrderedBy(r.ran["request"] \o r.todo, "request", definition)
          /\ r.pc = "response" => OrderedBy(r.ran["response"] \o r.todo, "response", definition)
          /\ r.pc = "request" => ToSet(r.ran["request"] \o r.todo) = r.due
          /\ r.pc = "handler" => ToSet(r.ran["request"]) = r.due

Orderly(r) == Running(r) /\ AtLoop(r)

MiddlewareInv == Numbered /\ Collected /\ Orderly(request)

LEMMA PlacesAre == Places = {"request", "response"} /\ All \in Scopes /\ NoRoute \notin Routes
                   /\ \A route \in Routes : route.name \in Scopes
  <1>1. ASSUME NEW d \in Declarations PROVE RouteFor(d).path # Nothing
    BY HandlingAssumption DEF RouteFor
  <1>2. NoRoute.path = Nothing
    BY DEF NoRoute
  <1> QED BY <1>1, <1>2 DEF Places, Scopes, Routes

-----------------------------------------------------------------------------
(* Sequences in order. *)

LEMMA OrderedEmpty == ASSUME NEW place, NEW number PROVE OrderedBy(<<>>, place, number) /\ ToSet(<<>>) = {}
  BY DEF OrderedBy, ToSet

\* The loop calls one more, and what it has called and what is left are the same together.
LEMMA OneMore ==
    ASSUME NEW S, NEW ran \in Seq(S), NEW todo \in Seq(S), todo # <<>>
    PROVE  /\ Append(ran, Head(todo)) \in Seq(S) /\ Tail(todo) \in Seq(S)
           /\ Append(ran, Head(todo)) \o Tail(todo) = ran \o todo
  <1> DEFINE a == Append(ran, Head(todo))
             t == Tail(todo)
  <1>1. Head(todo) \in S /\ t \in Seq(S) /\ Len(t) = Len(todo) - 1 /\ \A i \in 1..Len(t) : t[i] = todo[i + 1]
    BY HeadTailProperties
  <1>2. Len(todo) \in Nat /\ Len(todo) # 0 /\ Len(ran) \in Nat
    BY EmptySeq, LenProperties
  <1>3. a \in Seq(S) /\ Len(a) = Len(ran) + 1 /\ (\A i \in 1..Len(ran) : a[i] = ran[i])
        /\ a[Len(ran) + 1] = Head(todo)
    BY <1>1
  <1>4. Head(todo) = todo[1]
    BY <1>2
  <1> HIDE DEF a, t
  <1>5. a \o t \in Seq(S) /\ ran \o todo \in Seq(S)
    BY <1>1, <1>3, ConcatProperties
  <1>6. Len(a \o t) = Len(ran) + Len(todo) /\ Len(ran \o todo) = Len(ran) + Len(todo)
    <2>1. Len(a \o t) = Len(a) + Len(t) /\ Len(ran \o todo) = Len(ran) + Len(todo)
      BY <1>1, <1>3, ConcatProperties
    <2> QED BY <1>1, <1>2, <1>3, <2>1
  <1>7. ASSUME NEW i \in 1..Len(a \o t) PROVE (a \o t)[i] = (ran \o todo)[i]
    <2>1. (a \o t)[i] = IF i <= Len(a) THEN a[i] ELSE t[i - Len(a)]
      BY <1>1, <1>3, <1>6, ConcatProperties
    <2>2. (ran \o todo)[i] = IF i <= Len(ran) THEN ran[i] ELSE todo[i - Len(ran)]
      BY <1>6, ConcatProperties
    <2>3. CASE i <= Len(ran)
      BY <1>2, <1>3, <1>6, <2>1, <2>2, <2>3
    <2>4. CASE i = Len(ran) + 1
      <3>1. (a \o t)[i] = Head(todo)
        BY <1>2, <1>3, <2>1, <2>4
      <3>2. (ran \o todo)[i] = todo[1]
        <4>1. i - Len(ran) = 1 /\ ~(i <= Len(ran))
          BY <1>2, <2>4
        <4> QED BY <2>2, <4>1
      <3> QED BY <1>4, <3>1, <3>2
    <2>5. CASE i > Len(ran) + 1
      <3>1. i \in Nat /\ i - Len(a) \in 1..Len(t) /\ i - Len(a) + 1 = i - Len(ran) /\ ~(i <= Len(a)) /\ ~(i <= Len(ran))
        BY <1>1, <1>2, <1>3, <1>6, <2>5
      <3> QED BY <1>1, <2>1, <2>2, <3>1
    <2> QED BY <1>2, <1>6, <2>3, <2>4, <2>5
  <1>8. a \o t = ran \o todo
    BY <1>5, <1>6, <1>7, SeqEqual
  <1> QED BY <1>1, <1>3, <1>8 DEF a, t

LEMMA PrefixOrdered ==
    ASSUME NEW S, NEW s \in Seq(S), NEW t \in Seq(S), NEW place, NEW number, OrderedBy(s \o t, place, number)
    PROVE  OrderedBy(s, place, number)
  <1>1. Len(s) \in Nat /\ Len(t) \in Nat /\ DOMAIN s = 1..Len(s)
    BY LenProperties
  <1>2. DOMAIN (s \o t) = 1..(Len(s) + Len(t))
    BY ConcatProperties, LenProperties
  <1>3. \A i \in 1..Len(s) : i \in 1..(Len(s) + Len(t)) /\ (s \o t)[i] = s[i]
    <2> TAKE i \in 1..Len(s)
    <2>1. i \in 1..(Len(s) + Len(t)) /\ i <= Len(s)
      BY <1>1
    <2> QED BY <2>1, ConcatProperties
  <1> SUFFICES ASSUME NEW i \in DOMAIN s, NEW j \in DOMAIN s, i < j
               PROVE  IF place = "request" THEN Before(s[i], s[j], number) ELSE Before(s[j], s[i], number)
    BY DEF OrderedBy
  <1>4. IF place = "request" THEN Before((s \o t)[i], (s \o t)[j], number) ELSE Before((s \o t)[j], (s \o t)[i], number)
    BY <1>1, <1>2, <1>3 DEF OrderedBy
  <1> QED BY <1>1, <1>3, <1>4

\* A later number of another middleware changes no order.
LEMMA StaysOrdered ==
    ASSUME NEW S, NEW s \in Seq(S), NEW place, NEW m, NEW n, \A f \in S : m[f] = n[f],
           OrderedBy(s, place, m)
    PROVE  OrderedBy(s, place, n)
  <1>1. \A i \in DOMAIN s : s[i] \in S
    BY LenProperties, ElementOfSeq
  <1> QED BY <1>1 DEF OrderedBy, Before

LEMMA Reversed ==
    ASSUME NEW S, NEW s \in Seq(S), NEW number,
           \A i, j \in DOMAIN s : i < j => Before(s[i], s[j], number)
    PROVE  /\ Reverse(s) \in Seq(S) /\ ToSet(Reverse(s)) = ToSet(s)
           /\ OrderedBy(s, "request", number) /\ OrderedBy(Reverse(s), "response", number)
  <1> DEFINE n == Len(s)
             t == Reverse(s)
  <1>1. n \in Nat /\ DOMAIN s = 1..n
    BY LenProperties
  <1>2. \A i \in 1..n : (n - i) + 1 \in 1..n /\ (n - ((n - i) + 1)) + 1 = i
    <2> HIDE DEF n
    <2> QED BY <1>1
  <1>3. t = [i \in 1..n |-> s[(n - i) + 1]]
    BY DEF Reverse
  <1>4. t \in Seq(S) /\ DOMAIN t = 1..n
    <2> HIDE DEF n, t
    <2>1. \A i \in 1..n : s[(n - i) + 1] \in S
      BY <1>1, <1>2, ElementOfSeq DEF n
    <2> QED BY <1>1, <1>3, <2>1
  <1> HIDE DEF t, n
  <1>5. ToSet(t) = ToSet(s)
    <2>1. \A i \in 1..n : t[i] = s[(n - i) + 1] /\ s[i] = t[(n - i) + 1]
      BY <1>2, <1>3
    <2> QED BY <1>1, <1>2, <1>4, <2>1 DEF ToSet
  <1>6. ASSUME NEW i \in 1..n, NEW j \in 1..n, i < j PROVE Before(t[j], t[i], number)
    <2>1. (n - i) + 1 \in 1..n /\ (n - j) + 1 \in 1..n /\ (n - j) + 1 < (n - i) + 1
      BY <1>1, <1>6
    <2> QED BY <1>1, <1>3, <2>1
  <1> QED BY <1>4, <1>5, <1>6 DEF t, OrderedBy

-----------------------------------------------------------------------------
(* Finalizing *)

LEMMA BeforeOrders ==
    ASSUME NEW S, S \subseteq Functions, NEW number, \A f \in S : number[f] \in Nat,
           \A f, g \in S : number[f] = number[g] => f = g
    PROVE  StrictOrder(S, {pair \in S \X S : Before(pair[1], pair[2], number)})
  <1> DEFINE R == {pair \in S \X S : Before(pair[1], pair[2], number)}
  <1>1. \A f \in S : f.priority \in Int
    BY HandlingAssumption
  <1>2. \A f, g \in S : <<f, g>> \in R <=> Before(f, g, number)
    OBVIOUS
  <1> HIDE DEF R
  <1>3. \A f \in S : ~Before(f, f, number)
    BY <1>1 DEF Before
  <1>4. \A f, g, h \in S : Before(f, g, number) /\ Before(g, h, number) => Before(f, h, number)
    BY <1>1 DEF Before
  <1>5. \A f, g \in S : f # g => Before(f, g, number) \/ Before(g, f, number)
    BY <1>1 DEF Before
  <1> QED BY <1>2, <1>3, <1>4, <1>5 DEF StrictOrder, R

\* A collection is finalized to the listing of what was registered.
LEMMA FinalizedLists ==
    ASSUME Numbered', NEW registered \in [Places -> [Scopes -> Seq(Registered')]],
           NEW place \in Places, NEW scopes, scopes \subseteq Scopes
    PROVE  /\ Finalized(registered, place, scopes) \in Seq(Registered')
           /\ ToSet(Finalized(registered, place, scopes)) = AllOf(registered, place, scopes)
           /\ OrderedBy(Finalized(registered, place, scopes), place, definition')
  <1> DEFINE all == AllOf(registered, place, scopes)
             R == {pair \in all \X all : Before(pair[1], pair[2], definition')}
             order == Sorted(all, R)
  <1>1. all \subseteq Registered'
    <2> SUFFICES ASSUME NEW scope \in scopes PROVE ToSet(registered[place][scope]) \subseteq Registered'
      BY DEF AllOf
    <2>1. registered[place][scope] \in Seq(Registered')
      OBVIOUS
    <2> DEFINE s == registered[place][scope]
    <2> HIDE DEF s
    <2>2. s \in Seq(Registered') => ToSet(s) \subseteq Registered'
      BY LenProperties, ElementOfSeq DEF ToSet
    <2> QED BY <2>1, <2>2 DEF s
  <1>2. Registered' \subseteq Functions /\ IsFiniteSet(Functions)
    BY HandlingAssumption DEF Registered
  <1>3. all \in SUBSET Functions /\ IsFiniteSet(all)
    <2> HIDE DEF all
    <2> QED BY <1>1, <1>2, FS_Subset
  <1> HIDE DEF all
  <1>4. StrictOrder(all, R)
    <2>1. (\A f \in all : definition'[f] \in Nat) /\ \A f, g \in all : definition'[f] = definition'[g] => f = g
      BY <1>1, <1>3 DEF Numbered
    <2> QED BY <1>3, <2>1, BeforeOrders
  <1>5. /\ order \in Seq(all) /\ \A f \in all : \E i \in DOMAIN order : order[i] = f
        /\ \A i, j \in DOMAIN order : i < j => <<order[i], order[j]>> \in R
    <2> HIDE DEF R
    <2> QED BY <1>3, <1>4, SortedOf
  <1> HIDE DEF order
  <1>6. \A i, j \in DOMAIN order : i < j => Before(order[i], order[j], definition')
    BY <1>5
  <1>7. ToSet(order) = all
    <2>1. \A i \in DOMAIN order : order[i] \in all
      BY <1>5, LenProperties, ElementOfSeq
    <2> QED BY <1>5, <2>1 DEF ToSet
  <1>8. order \in Seq(Registered')
    BY <1>1, <1>5, SeqMonotonic
  <1>9. Finalized(registered, place, scopes) = IF place = "request" THEN order ELSE Reverse(order)
    BY DEF Finalized, order, all
  <1>10. /\ Reverse(order) \in Seq(Registered') /\ ToSet(Reverse(order)) = all
         /\ OrderedBy(order, "request", definition') /\ OrderedBy(Reverse(order), "response", definition')
    BY <1>6, <1>7, <1>8, Reversed
  <1>11. place = "request" \/ place = "response"
    BY PlacesAre
  <1> QED BY <1>7, <1>8, <1>9, <1>10, <1>11 DEF all

\* What is finalized lists what is registered, by the numbers of now.
LEMMA FinalizeLists ==
    ASSUME Numbered', NEW registered \in [Places -> [Scopes -> Seq(Registered')]], NEW routes \in SUBSET Routes,
           extra \in [Routes -> [Places -> Seq(Registered')]], FinalizeTo(registered, routes)
    PROVE  /\ collection' \in [Places -> [Scopes -> Seq(Registered')]]
           /\ extra' \in [Routes -> [Places -> Seq(Registered')]]
           /\ \A place \in Places :
                /\ Listing(collection[place][All], place, {All})'
                /\ \A route \in routes : Listing(extra[route][place], place, {All, route.name})'
  <1> DEFINE final(place, scopes) == Finalized(registered, place, scopes)
  <1>1. ASSUME NEW place \in Places, NEW scopes, scopes \subseteq Scopes
        PROVE  /\ final(place, scopes) \in Seq(Registered')
               /\ ToSet(final(place, scopes)) = AllOf(registered, place, scopes)
               /\ OrderedBy(final(place, scopes), place, definition')
    BY <1>1, FinalizedLists
  <1>2. /\ extra' = [route \in Routes |-> IF route \notin routes THEN extra[route]
                        ELSE [place \in Places |-> final(place, {All, route.name})]]
        /\ collection' = [place \in Places |-> [registered[place] EXCEPT ![All] = final(place, {All})]]
    BY DEF FinalizeTo
  <1> HIDE DEF final
  <1>3. \A route \in Routes : {All, route.name} \subseteq Scopes /\ {All} \subseteq Scopes
    BY PlacesAre
  <1>4. {All} \subseteq Scopes
    BY PlacesAre
  <1>5. \A place \in Places : /\ collection'[place] \in [Scopes -> Seq(Registered')]
                              /\ collection'[place][All] = final(place, {All})
                              /\ \A scope \in Scopes \ {All} : collection'[place][scope] = registered[place][scope]
    <2> TAKE place \in Places
    <2>1. final(place, {All}) \in Seq(Registered')
      BY <1>1, <1>4
    <2>2. registered[place] \in [Scopes -> Seq(Registered')]
      OBVIOUS
    <2> DEFINE q == Seq(Registered')
    <2> HIDE DEF q
    <2>3. /\ [registered[place] EXCEPT ![All] = final(place, {All})] \in [Scopes -> q]
          /\ [registered[place] EXCEPT ![All] = final(place, {All})][All] = final(place, {All})
          /\ \A scope \in Scopes \ {All} :
                [registered[place] EXCEPT ![All] = final(place, {All})][scope] = registered[place][scope]
      BY <2>1, <2>2, PlacesAre DEF q
    <2> QED BY <1>2, <2>3 DEF q
  <1>6. collection' \in [Places -> [Scopes -> Seq(Registered')]]
    BY <1>2, <1>5
  <1>7. extra' \in [Routes -> [Places -> Seq(Registered')]]
    <2> SUFFICES ASSUME NEW route \in Routes PROVE extra'[route] \in [Places -> Seq(Registered')]
      BY <1>2
    <2>1. \A place \in Places : final(place, {All, route.name}) \in Seq(Registered')
      BY <1>1, <1>3
    <2> QED BY <1>2, <2>1
  <1>8. ASSUME NEW place \in Places, NEW scopes, scopes \subseteq Scopes
        PROVE  AllOf(collection', place, scopes) = AllOf(registered, place, scopes)
    <2>1. ToSet(final(place, {All})) = ToSet(registered[place][All])
      <3>1. ToSet(final(place, {All})) = AllOf(registered, place, {All})
        BY <1>1, <1>4
      <3> QED BY <3>1 DEF AllOf
    <2>2. \A scope \in scopes : ToSet(collection'[place][scope]) = ToSet(registered[place][scope])
      BY <1>5, <1>8, <2>1
    <2> QED BY <2>2 DEF AllOf
  <1>9. ASSUME NEW place \in Places PROVE Listing(collection[place][All], place, {All})'
    <2>1. /\ ToSet(collection'[place][All]) = AllOf(collection', place, {All})
          /\ OrderedBy(collection'[place][All], place, definition')
      BY <1>1, <1>4, <1>5, <1>8
    <2> QED BY <2>1 DEF Listing, AllOf, OrderedBy, Before
  <1>10. ASSUME NEW place \in Places, NEW route \in routes
         PROVE  Listing(extra[route][place], place, {All, route.name})'
    <2>1. extra'[route][place] = final(place, {All, route.name})
      BY <1>2
    <2>2. /\ ToSet(extra'[route][place]) = AllOf(collection', place, {All, route.name})
          /\ OrderedBy(extra'[route][place], place, definition')
      BY <1>1, <1>3, <1>8, <2>1
    <2> QED BY <2>2 DEF Listing, AllOf, OrderedBy, Before
  <1> QED BY <1>6, <1>7, <1>9, <1>10

-----------------------------------------------------------------------------
(* The request *)

\* What is not of the order does not touch it.
LEMMA SameRuns ==
    ASSUME NEW r, Running(r), NEW s, DOMAIN s = DOMAIN NoRequest,
           \A field \in {"run", "attempt", "route", "ran", "started", "stale", "due"} : s[field] = r[field],
           s.erring \in BOOLEAN, s.nested => r.nested /\ ~s.erring, r.erring => s.erring
    PROVE  Running(s)
  BY FieldsAre DEF Running, Judged

LEMMA LeftRuns ==
    ASSUME NEW r, Running(r)
    PROVE  /\ Running(Left(r)) /\ Left(r).todo = <<>>
           /\ \A field \in DOMAIN NoRequest \ {"todo", "live"} : Left(r)[field] = r[field]
  BY FieldsAre DEF Running, Left, Judged

\* A loop that is begun, of a route that is still there, will call all that is registered.
LEMMA LoopBegins ==
    ASSUME Collected, NEW r, Running(r), NEW place \in Places
    PROVE  LET c == Collection(r, place)
               l == Loop(r, place, c)
           IN  /\ Running(l) /\ l.todo = c.todo /\ c.todo \in Seq(Registered)
               /\ \A field \in DOMAIN NoRequest \ {"todo", "live", "torn", "stale"} : l[field] = r[field]
               /\ Judged(l) => Judged(r) /\ OrderedBy(c.todo, place, definition)
  <1> DEFINE c == Collection(r, place)
             l == Loop(r, place, c)
  <1>1. c.todo \in Seq(Registered)
    <2>1. r.route # NoRoute => r.route \in Routes
      BY DEF Running
    <2> QED BY <2>1, PlacesAre DEF Collection, Collected
  <1>2. \/ c.todo = collection[place][All]
        \/ r.route # NoRoute /\ c.todo = extra[r.route][place]
    <2>1. \/ c = [todo |-> collection[place][All], live |-> place]
          \/ r.route # NoRoute /\ c = [todo |-> extra[r.route][place], live |-> Nothing]
      BY DEF Collection
    <2> HIDE DEF c
    <2> QED BY <2>1
  <1> HIDE DEF c
  <1>3. /\ DOMAIN l = DOMAIN NoRequest /\ l.todo = c.todo
        /\ \A field \in DOMAIN NoRequest \ {"todo", "live", "torn", "stale"} : l[field] = r[field]
        /\ l.stale = (r.stale \/ ~router.finalized \/ r.route \notin router.routes \cup {NoRoute})
    BY FieldsAre DEF Running, Loop
  <1> HIDE DEF l
  <1>4. Judged(l) => Judged(r)
    BY <1>3, FieldsAre DEF Judged
  <1>5. Running(l)
    BY <1>3, <1>4, FieldsAre DEF Running
  <1>6. ASSUME Judged(l) PROVE OrderedBy(c.todo, place, definition)
    <2>1. router.finalized /\ r.route \in router.routes \cup {NoRoute}
      BY <1>3, <1>6 DEF Judged
    <2> QED BY <1>2, <2>1 DEF Collected, Listing
  <1> QED BY <1>1, <1>3, <1>4, <1>5, <1>6 DEF c, l

\* An error starts a loop only if no middleware of the request has run.
LEMMA ExceptionRuns ==
    ASSUME Collected, NEW r, Running(r), NEW class, NEW run, run => r.ran["request"] = <<>>
    PROVE  Orderly(Exception(r, class, run))
  <1> DEFINE e == [Left(r) EXCEPT !.exception = class, !.erring = TRUE, !.nested = FALSE, !.handler = NoHandler]
             c == Collection(r, "request")
             l == Loop(e, "request", c)
  <1>1. /\ Running(e) /\ ~e.nested /\ e.erring /\ e.todo = <<>> /\ e.ran = r.ran
        /\ e.route = r.route
    <2>1. DOMAIN Left(r) = DOMAIN NoRequest /\ Left(r).todo = <<>>
          /\ \A field \in DOMAIN NoRequest \ {"todo", "live"} : Left(r)[field] = r[field]
      BY LeftRuns DEF Running
    <2> DEFINE m == Left(r)
    <2> HIDE DEF m
    <2>2. DOMAIN e = DOMAIN NoRequest /\ ~e.nested /\ e.erring = TRUE /\ e.todo = <<>>
          /\ \A field \in {"run", "attempt", "route", "ran", "started", "stale", "due"} : e[field] = r[field]
      BY <2>1, FieldsAre DEF m
    <2> HIDE DEF e
    <2> QED BY <2>2, SameRuns
  <1>2. c = Collection(e, "request")
    BY <1>1 DEF Collection
  <1> HIDE DEF e
  <1>3. ASSUME NEW pc \in {"warn", "error handler"} PROVE Orderly([e EXCEPT !.pc = pc])
    BY <1>1, EmptySeq, FieldsAre DEF Orderly, Running, AtLoop, Judged
  <1>4. ASSUME run, c.todo # <<>> PROVE Orderly([l EXCEPT !.pc = "error request"])
    <2>1. /\ Running(l) /\ l.todo = c.todo /\ c.todo \in Seq(Registered) /\ ~l.nested /\ l.erring
          /\ l.ran = r.ran /\ (Judged(l) => OrderedBy(c.todo, "request", definition))
      <3> HIDE DEF l
      <3>1. "request" \in Places
        BY PlacesAre
      <3>2. /\ Running(l) /\ l.todo = c.todo /\ c.todo \in Seq(Registered)
            /\ \A field \in DOMAIN NoRequest \ {"todo", "live", "torn", "stale"} : l[field] = e[field]
            /\ (Judged(l) => OrderedBy(c.todo, "request", definition))
        BY <1>1, <1>2, <3>1, LoopBegins DEF l
      <3> QED BY <1>1, <3>2, FieldsAre
    <2> HIDE DEF l, c
    <2>2. l.ran["request"] \o l.todo = l.todo
      BY <1>4, <2>1, ConcatEmptySeq
    <2> QED BY <1>4, <2>1, <2>2, FieldsAre DEF Orderly, Running, AtLoop, Judged
  <1>5. \/ Exception(r, class, run) = [e EXCEPT !.pc = "warn"]
        \/ Exception(r, class, run) = [e EXCEPT !.pc = "error handler"]
        \/ run /\ c.todo # <<>> /\ Exception(r, class, run) = [l EXCEPT !.pc = "error request"]
    BY DEF Exception, e
  <1> HIDE DEF l, c
  <1> QED BY <1>3, <1>4, <1>5

\* What escapes is of no concern any more.
LEMMA EscapeRuns ==
    ASSUME Collected, NEW r, Running(r), r.erring, NEW class PROVE Orderly(Escape(r, class))
  <1>1. CASE r.attempt = 2 \/ (r.attempt = 0 /\ r.stage # "handler")
    <2>1. Escape(r, class) = [Left(r) EXCEPT !.pc = "end"]
      BY <1>1 DEF Escape
    <2> DEFINE s == Left(r)
    <2>2. Running(s) /\ s.todo = <<>> /\ ~s.nested
      BY LeftRuns, FieldsAre DEF Running
    <2> HIDE DEF s
    <2>3. Orderly([s EXCEPT !.pc = "end"])
      BY <2>2, EmptySeq, FieldsAre DEF Orderly, Running, AtLoop, Judged
    <2> QED BY <2>1, <2>3 DEF s
  <1>2. CASE ~(r.attempt = 2 \/ (r.attempt = 0 /\ r.stage # "handler"))
    <2> DEFINE s == [r EXCEPT !.attempt = @ + 1, !.ran = NoRequest.ran]
    <2>1. NoRequest.ran \in [Places -> Seq(Registered)] /\ \A place \in Places : NoRequest.ran[place] = <<>>
      <3>1. NoRequest.ran = [request |-> <<>>, response |-> <<>>]
        BY DEF NoRequest
      <3>2. NoRequest.ran = [place \in Places |-> <<>>]
        BY <3>1, PlacesAre
      <3>3. <<>> \in Seq(Registered)
        BY EmptySeq
      <3> QED BY <3>2, <3>3
    <2>2. Running(s) /\ s.ran["request"] = <<>>
      <3>1. DOMAIN s = DOMAIN NoRequest /\ s.attempt = r.attempt + 1 /\ s.ran = NoRequest.ran
            /\ \A field \in DOMAIN NoRequest \ {"attempt", "ran"} : s[field] = r[field]
        BY FieldsAre DEF Running
      <3> HIDE DEF s
      <3>2. s.attempt \in Nat /\ s.attempt # 0
        BY <3>1 DEF Running
      <3>3. s.ran["request"] = <<>> /\ s.ran["response"] = <<>> /\ s.ran \in [Places -> Seq(Registered)]
        BY <2>1, <3>1, PlacesAre
      <3> QED BY <3>1, <3>2, <3>3, FieldsAre DEF Running, Judged
    <2>3. Escape(r, class) = Exception(s, class, r.attempt = 0)
      BY <1>2 DEF Escape
    <2> HIDE DEF s
    <2> QED BY <2>2, <2>3, ExceptionRuns
  <1> QED BY <1>1, <1>2

LEMMA RaiseRuns ==
    ASSUME Collected, NEW r, Running(r), NEW class PROVE Orderly(Raise(r, class))
  <1>1. r.erring \/ Orderly(Exception(r, class, r.run))
    <2> SUFFICES ASSUME ~r.erring PROVE Orderly(Exception(r, class, r.run))
      OBVIOUS
    <2>1. r.run => r.ran["request"] = <<>>
      BY DEF Running
    <2> QED BY <2>1, ExceptionRuns
  <1>2. Orderly(Exception(r, class, FALSE))
    BY ExceptionRuns
  <1>3. r.erring => Orderly(Escape(r, class))
    BY EscapeRuns
  <1> QED BY <1>1, <1>2, <1>3 DEF Raise

LEMMA RespondedRuns ==
    ASSUME Collected, NEW r, Running(r) PROVE Orderly(Responded(r))
  <1> DEFINE s == [Left(r) EXCEPT !.responded = TRUE]
  <1>1. Running(s) /\ s.todo = <<>> /\ s.nested = r.nested
    <2> DEFINE l == Left(r)
    <2>1. Running(l) /\ l.todo = <<>> /\ l.nested = r.nested
      BY LeftRuns, FieldsAre
    <2> HIDE DEF l
    <2>2. /\ DOMAIN s = DOMAIN NoRequest /\ s.todo = l.todo
          /\ \A field \in {"run", "attempt", "route", "ran", "started", "stale", "due", "erring", "nested"} :
                s[field] = l[field]
      BY <2>1, FieldsAre DEF Running, l
    <2> HIDE DEF s
    <2>3. l.erring \in BOOLEAN /\ (l.nested => ~l.erring)
      BY <2>1 DEF Running
    <2> QED BY <2>1, <2>2, <2>3, SameRuns
  <1> HIDE DEF s
  <1>2. r.nested => Orderly([s EXCEPT !.pc = "handler", !.nested = FALSE])
    BY <1>1, EmptySeq, FieldsAre DEF Orderly, Running, AtLoop, Judged
  <1>3. Running([s EXCEPT !.pc = "send"])
    BY <1>1, FieldsAre DEF Running, Judged
  <1>4. ~r.nested => Orderly([s EXCEPT !.pc = "send"])
    BY <1>1, EmptySeq, FieldsAre DEF Orderly, Running, AtLoop, Judged
  <1>5. Orderly(Raise([s EXCEPT !.pc = "send"], "ServerError"))
    BY <1>3, RaiseRuns
  <1> QED BY <1>2, <1>4, <1>5 DEF Responded, s

\* Response middleware runs once: what has begun does not begin anew.
LEMMA RespondRuns ==
    ASSUME Collected, NEW r, Running(r), NEW response PROVE Orderly(Respond(r, response))
  <1> DEFINE g == ConnectTo(r, response)
             c == Collection(r, "response")
             l == Loop(g, "response", c)
  <1>1. Running(g) /\ g.ran = r.ran /\ g.started = r.started /\ g.route = r.route
    <2>1. DOMAIN Left(r) = DOMAIN NoRequest
          /\ \A field \in DOMAIN NoRequest \ {"todo", "live"} : Left(r)[field] = r[field]
      BY LeftRuns DEF Running
    <2>2. DOMAIN g = DOMAIN NoRequest
          /\ \A field \in {"run", "attempt", "route", "ran", "started", "stale", "due", "erring", "nested"} :
                g[field] = r[field]
      BY <2>1, FieldsAre DEF ConnectTo
    <2> HIDE DEF g
    <2>3. r.erring \in BOOLEAN /\ (r.nested => ~r.erring)
      BY DEF Running
    <2> QED BY <2>2, <2>3, SameRuns
  <1>2. c = Collection(g, "response")
    BY <1>1 DEF Collection
  <1> HIDE DEF g
  <1>3. Orderly(Raise(r, "ServerError")) /\ Orderly(Responded(g))
    BY <1>1, RaiseRuns, RespondedRuns
  <1>4. ASSUME ~g.started, c.todo # <<>> PROVE Orderly([l EXCEPT !.pc = "response", !.started = TRUE])
    <2>1. /\ Running(l) /\ l.todo = c.todo /\ c.todo \in Seq(Registered) /\ ~l.started
          /\ l.ran = g.ran /\ (Judged(l) => OrderedBy(c.todo, "response", definition))
      <3> HIDE DEF l
      <3>1. "response" \in Places
        BY PlacesAre
      <3>2. /\ Running(l) /\ l.todo = c.todo /\ c.todo \in Seq(Registered)
            /\ \A field \in DOMAIN NoRequest \ {"todo", "live", "torn", "stale"} : l[field] = g[field]
            /\ (Judged(l) => OrderedBy(c.todo, "response", definition))
        BY <1>1, <1>2, <3>1, LoopBegins DEF l
      <3> QED BY <1>4, <3>2, FieldsAre
    <2> HIDE DEF l, c
    <2>2. l.ran["response"] = <<>>
      BY <2>1 DEF Running
    <2>3. l.ran["response"] \o l.todo = l.todo
      BY <2>1, <2>2, ConcatEmptySeq
    <2> QED BY <1>4, <2>1, <2>3, FieldsAre DEF Orderly, Running, AtLoop, Judged
  <1>5. \/ Respond(r, response) = Raise(r, "ServerError") \/ Respond(r, response) = Responded(g)
        \/ /\ ~g.started /\ c.todo # <<>>
           /\ Respond(r, response) = [l EXCEPT !.pc = "response", !.started = TRUE]
    BY <1>1 DEF Respond, g
  <1> HIDE DEF l, c
  <1> QED BY <1>3, <1>4, <1>5

LEMMA RespondAnewRuns ==
    ASSUME Collected, NEW r, Running(r), NEW response PROVE Orderly(RespondAnew(r, response))
  <1>1. Running([r EXCEPT !.pc = "send", !.connected = FALSE, !.responded = FALSE])
    BY FieldsAre DEF Running, Judged
  <1> QED BY <1>1, RespondRuns DEF RespondAnew

LEMMA FailingRuns == ASSUME NEW r, Running(r) PROVE Running(Failing(r))
  BY FieldsAre DEF Running, Failing, Judged

LEMMA BegunRuns ==
    ASSUME NEW r, Running(r)
    PROVE  /\ Running(Begun(r))
           /\ \A field \in DOMAIN NoRequest \ {"stage", "sent"} : Begun(r)[field] = r[field]
  BY FieldsAre DEF Running, Begun, Judged

-----------------------------------------------------------------------------
(* The steps of the request. *)

LEMMA NoRequestOrderly == Orderly(NoRequest)
  <1>1. /\ NoRequest.pc = "idle" /\ NoRequest.route = NoRoute /\ NoRequest.run = TRUE /\ NoRequest.todo = <<>>
        /\ NoRequest.erring = FALSE /\ NoRequest.nested = FALSE /\ NoRequest.attempt = 0
        /\ NoRequest.ran = [request |-> <<>>, response |-> <<>>]
    BY DEF NoRequest
  <1>2. NoRequest.ran = [place \in Places |-> <<>>] /\ \A place \in Places : NoRequest.ran[place] = <<>>
    BY <1>1, PlacesAre
  <1>3. <<>> \in Seq(Registered)
    BY EmptySeq
  <1>4. Running(NoRequest)
    <2>1. NoRequest.ran \in [Places -> Seq(Registered)]
      BY <1>2, <1>3
    <2>2. \A place \in Places : OrderedBy(NoRequest.ran[place], place, definition)
      BY <1>2, OrderedEmpty
    <2>3. NoRequest.ran["request"] = <<>> /\ NoRequest.ran["response"] = <<>>
      BY <1>2, PlacesAre
    <2> DEFINE r == NoRequest
    <2>4. /\ r.run \in BOOLEAN /\ r.erring \in BOOLEAN /\ ~r.nested
          /\ r.route \in Routes \cup {NoRoute}
      BY <1>1, Zenon
    <2>5. r.attempt \in Nat
      BY <1>1
    <2> HIDE DEF r
    <2> QED BY <2>1, <2>2, <2>3, <2>4, <2>5 DEF Running, r
  <1>5. AtLoop(NoRequest)
    BY <1>1, <1>3 DEF AtLoop
  <1> QED BY <1>4, <1>5 DEF Orderly

LEMMA ThenOrderly ==
    ASSUME MiddlewareInv, UNCHANGED app_vars, Orderly(request'),
           \A key \in DOMAIN route_cache' : route_cache'[key] \in Routes
    PROVE  MiddlewareInv'
  <1>1. /\ is_started' = is_started /\ definition' = definition /\ collection' = collection
        /\ extra' = extra /\ router' = router
    BY DEF app_vars
  <1>2. Registered' = Registered
    BY <1>1 DEF Registered
  <1>3. Numbered'
    BY <1>1, <1>2 DEF MiddlewareInv, Numbered
  <1>4. ASSUME NEW place \in Places
        PROVE  /\ Listing(collection[place][All], place, {All}) => Listing(collection[place][All], place, {All})'
               /\ \A route \in router.routes :
                    Listing(extra[route][place], place, {All, route.name})
                       => Listing(extra[route][place], place, {All, route.name})'
    BY <1>1 DEF Listing, AllOf, OrderedBy, Before
  <1>5. router'.finalized =>
          /\ is_started'
          /\ \A place \in Places :
                /\ Listing(collection[place][All], place, {All})'
                /\ \A route \in router'.routes : Listing(extra[route][place], place, {All, route.name})'
    BY <1>1, <1>4 DEF MiddlewareInv, Collected
  <1>6. Collected'
    BY <1>1, <1>2, <1>5 DEF MiddlewareInv, Collected
  <1>7. Running(request)'
    BY <1>1, <1>2 DEF Orderly, Running, Judged, OrderedBy, Before
  <1>8. AtLoop(request)'
    BY <1>1, <1>2 DEF Orderly, AtLoop, Judged, OrderedBy, Before
  <1> QED BY <1>3, <1>6, <1>7, <1>8 DEF MiddlewareInv, Orderly

LEMMA ThenRuns == ASSUME MiddlewareInv, NEW r, Orderly(r), Then(r) PROVE MiddlewareInv'
  BY ThenOrderly DEF Then, caches, MiddlewareInv, Collected

LEMMA ReceiveRuns == ASSUME MiddlewareInv, NEW target \in Asked, Receive(target) PROVE MiddlewareInv'
  <1>1. Orderly(NoRequest) /\ Running(NoRequest) /\ Collected
    BY NoRequestOrderly DEF Orderly, MiddlewareInv
  <1>2. ASSUME NEW route \in Routes PROVE Orderly([NoRequest EXCEPT !.pc = "body", !.route = route])
    <2> DEFINE s == [NoRequest EXCEPT !.pc = "body", !.route = route]
    <2>1. DOMAIN s = DOMAIN NoRequest /\ s.pc = "body" /\ s.route = route
          /\ \A field \in DOMAIN NoRequest \ {"pc", "route"} : s[field] = NoRequest[field]
      BY FieldsAre
    <2> HIDE DEF s
    <2>2. NoRequest.ran["request"] = <<>> /\ NoRequest.nested = FALSE /\ NoRequest.erring = FALSE
      BY DEF NoRequest
    <2> QED BY <1>1, <2>1, <2>2, FieldsAre DEF Orderly, Running, AtLoop, Judged
  <1>3. Orderly(Raise(NoRequest, Unresolved(target)))
    BY <1>1, RaiseRuns
  <1>4. Resolved(target) \subseteq Routes
    BY <1>1 DEF Resolved, There, Collected
  <1>5. UNCHANGED app_vars
    BY DEF Receive
  <1>6. CASE UNCHANGED route_cache
    <2>1. \/ /\ target \in DOMAIN route_cache
             /\ request' = [NoRequest EXCEPT !.pc = "body", !.route = route_cache[target]]
          \/ \E route \in Resolved(target) : request' = [NoRequest EXCEPT !.pc = "body", !.route = route]
          \/ request' = Raise(NoRequest, Unresolved(target))
      BY DEF Receive
    <2>2. target \in DOMAIN route_cache => route_cache[target] \in Routes
      BY <1>1 DEF Collected
    <2>3. Orderly(request')
      BY <1>2, <1>3, <1>4, <2>1, <2>2
    <2> QED BY <1>1, <1>5, <1>6, <2>3, ThenOrderly DEF Collected
  <1>7. ASSUME NEW route \in Resolved(target), request' = [NoRequest EXCEPT !.pc = "body", !.route = route],
               route_cache' = Updated(route_cache, [key \in {target} |-> route])
        PROVE  MiddlewareInv'
    <2>1. \A key \in DOMAIN route_cache' : route_cache'[key] \in Routes
      BY <1>1, <1>4, <1>7 DEF Updated, Collected
    <2>2. Orderly(request')
      BY <1>2, <1>4, <1>7
    <2> QED BY <1>5, <2>1, <2>2, ThenOrderly
  <1> QED BY <1>6, <1>7 DEF Receive

\* The loop of the route is of what is registered now, for all routes or for it.
LEMMA BodyRuns == ASSUME MiddlewareInv, Body PROVE MiddlewareInv'
  <1> DEFINE c == [todo |-> extra[request.route]["request"], live |-> Nothing]
             due == AllOf(collection, "request", {All, request.route.name})
             r == [Loop(request, "request", c) EXCEPT !.run = FALSE, !.due = due]
  <1>1. Running(request) /\ AtLoop(request) /\ Collected /\ request.pc = "body"
    BY DEF MiddlewareInv, Orderly, Body
  <1>2. request.route \in Routes /\ request.ran["request"] = <<>> /\ ~request.nested
        /\ ~request.erring
    BY <1>1 DEF AtLoop
  <1>3. c.todo \in Seq(Registered) /\ c.todo = extra[request.route]["request"]
    BY <1>1, <1>2, PlacesAre DEF Collected
  <1> HIDE DEF c, due
  <1>4. /\ DOMAIN r = DOMAIN NoRequest /\ r.run = FALSE /\ r.due = due /\ r.todo = c.todo
        /\ r.stale = (request.stale \/ ~router.finalized \/ request.route \notin router.routes \cup {NoRoute})
        /\ \A field \in DOMAIN NoRequest \ {"run", "due", "todo", "live", "torn", "stale"} :
              r[field] = request[field]
    BY <1>1, FieldsAre DEF Loop, Running
  <1> HIDE DEF r
  <1>5. Running(r) /\ ~r.nested /\ ~r.erring /\ r.ran["request"] = <<>>
    BY <1>1, <1>2, <1>4, FieldsAre DEF Running, Judged
  <1>6. Judged(r) => OrderedBy(c.todo, "request", definition) /\ ToSet(c.todo) = due
    <2> SUFFICES ASSUME Judged(r) PROVE OrderedBy(c.todo, "request", definition) /\ ToSet(c.todo) = due
      OBVIOUS
    <2>1. router.finalized /\ request.route \in router.routes
      BY <1>2, <1>4, PlacesAre DEF Judged
    <2>2. Listing(extra[request.route]["request"], "request", {All, request.route.name})
      BY <1>1, <2>1, PlacesAre DEF Collected
    <2> QED BY <1>3, <2>2 DEF Listing, due
  <1>7. <<>> \o c.todo = c.todo
    BY <1>3, ConcatEmptySeq
  <1>8. c.todo # <<>> => Orderly([r EXCEPT !.pc = "request"])
    BY <1>3, <1>4, <1>5, <1>6, <1>7, FieldsAre DEF Orderly, Running, AtLoop, Judged
  <1>9. c.todo = <<>> => Orderly([r EXCEPT !.pc = "handler"])
    BY <1>3, <1>4, <1>5, <1>6, OrderedEmpty, FieldsAre DEF Orderly, Running, AtLoop, Judged
  <1>10. Orderly(Raise(Failing(request), "PayloadTooLarge"))
    BY <1>1, FailingRuns, RaiseRuns
  <1>11. \/ c.todo # <<>> /\ Then([r EXCEPT !.pc = "request"])
         \/ c.todo = <<>> /\ Then([r EXCEPT !.pc = "handler"])
         \/ Then(Raise(Failing(request), "PayloadTooLarge"))
    <2>1. \/ Then([r EXCEPT !.pc = IF r.todo = <<>> THEN "handler" ELSE "request"])
          \/ Then(Raise(Failing(request), "PayloadTooLarge"))
      BY DEF Body, r, c, due
    <2> QED BY <1>4, <2>1
  <1> QED BY <1>8, <1>9, <1>10, <1>11, ThenRuns

\* One middleware more has run.
LEMMA RanRuns ==
    ASSUME MiddlewareInv, NEW place \in Places,
           \/ place = "request" /\ request.pc \in {"request", "error request"}
           \/ place = "response" /\ request.pc = "response"
    PROVE  LET r == Ran(place)
           IN  /\ Running(r)
               /\ r.todo \in Seq(Registered)
               /\ r.ran[place] \o r.todo = request.ran[place] \o request.todo
               /\ r.ran[place] \in Seq(Registered)
               /\ \A field \in DOMAIN NoRequest \ {"todo", "ran"} : r[field] = request[field]
  <1> DEFINE r == Ran(place)
  <1>1. Running(request) /\ AtLoop(request)
    BY DEF MiddlewareInv, Orderly
  <1>2. /\ request.todo \in Seq(Registered) /\ request.todo # <<>> /\ request.ran \in [Places -> Seq(Registered)]
        /\ request.ran[place] \in Seq(Registered)
    BY <1>1 DEF AtLoop, Running
  <1>3. /\ DOMAIN r = DOMAIN NoRequest
        /\ r.todo = Tail(request.todo)
        /\ r.ran = [request.ran EXCEPT ![place] = Append(@, Head(request.todo))]
        /\ \A field \in DOMAIN NoRequest \ {"todo", "ran"} : r[field] = request[field]
    BY <1>1, FieldsAre DEF Ran, Running
  <1> HIDE DEF r
  <1>4. /\ Append(request.ran[place], Head(request.todo)) \in Seq(Registered)
        /\ r.todo \in Seq(Registered)
        /\ Append(request.ran[place], Head(request.todo)) \o r.todo = request.ran[place] \o request.todo
    <2>1. /\ Append(request.ran[place], Head(request.todo)) \in Seq(Registered)
          /\ Tail(request.todo) \in Seq(Registered)
          /\ Append(request.ran[place], Head(request.todo)) \o Tail(request.todo) = request.ran[place] \o request.todo
      BY ONLY <1>2, OneMore
    <2> QED BY <1>3, <2>1
  <1>5. /\ r.ran \in [Places -> Seq(Registered)]
        /\ r.ran[place] = Append(request.ran[place], Head(request.todo))
        /\ \A other \in Places \ {place} : r.ran[other] = request.ran[other]
    <2> DEFINE q == Seq(Registered)
               a == Append(request.ran[place], Head(request.todo))
    <2>1. a \in q /\ request.ran \in [Places -> q]
      BY <1>2, <1>4
    <2> HIDE DEF q, a
    <2>2. [request.ran EXCEPT ![place] = a] \in [Places -> q]
      BY <2>1
    <2> QED BY <1>2, <1>3, <2>2 DEF q, a
  <1>6. ASSUME Judged(r), NEW p \in Places PROVE OrderedBy(r.ran[p], p, definition)
    <2>1. Judged(request)
      BY <1>3, <1>6, FieldsAre DEF Judged
    <2>2. CASE p = place
      <3>1. OrderedBy(request.ran[place] \o request.todo, place, definition)
        BY <1>1, <2>1 DEF AtLoop
      <3>2. OrderedBy(r.ran[place] \o r.todo, place, definition) /\ r.ran[place] \in Seq(Registered)
        BY <1>4, <1>5, <3>1
      <3> QED BY <1>4, <2>2, <3>2, PrefixOrdered
    <2>3. CASE p # place
      BY <1>1, <1>5, <2>1, <2>3 DEF Running
    <2> QED BY <2>2, <2>3
  <1>7. Running(r)
    <2>1. r.nested => place = "response"
      BY <1>1, <1>3, FieldsAre DEF AtLoop
    <2>2. place = "response" => r.started /\ r.ran["request"] = request.ran["request"]
      BY <1>1, <1>3, <1>5, PlacesAre, FieldsAre DEF AtLoop
    <2>3. place = "request" => /\ r.ran["response"] = request.ran["response"]
                               /\ ~(r.run /\ ~r.erring)
      BY <1>1, <1>3, <1>5, PlacesAre, FieldsAre DEF AtLoop, Running
    <2>4. place = "request" \/ place = "response"
      BY PlacesAre
    <2> QED BY <1>1, <1>3, <1>5, <1>6, <2>1, <2>2, <2>3, <2>4, FieldsAre DEF Running, Judged
  <1> QED BY <1>3, <1>4, <1>5, <1>7 DEF r

LEMMA MiddlewareRuns == ASSUME MiddlewareInv, RequestMiddleware \/ ResponseMiddleware PROVE MiddlewareInv'
  <1>1. Running(request) /\ AtLoop(request) /\ Collected
    BY DEF MiddlewareInv, Orderly
  <1>2. "request" \in Places /\ "response" \in Places
    BY PlacesAre
  <1>3. CASE RequestMiddleware
    <2> DEFINE r == Ran("request")
    <2>1. request.pc \in {"request", "error request"}
      BY <1>3 DEF RequestMiddleware
    <2>2. /\ Running(r) /\ r.todo \in Seq(Registered) /\ r.ran["request"] \in Seq(Registered)
          /\ r.ran["request"] \o r.todo = request.ran["request"] \o request.todo
          /\ \A field \in DOMAIN NoRequest \ {"todo", "ran"} : r[field] = request[field]
      BY <1>2, <2>1, RanRuns
    <2> HIDE DEF r
    <2>3. ~r.nested /\ r.pc = request.pc
      BY <1>1, <2>1, <2>2, FieldsAre DEF AtLoop
    <2>4. r.todo # <<>> => Orderly(r)
      BY <1>1, <2>1, <2>2, <2>3, FieldsAre DEF Orderly, AtLoop, Judged
    <2>5. ASSUME r.todo = <<>> PROVE Orderly([Left(r) EXCEPT !.pc = IF r.erring THEN "error handler" ELSE "handler"])
      <3>1. r.ran["request"] \o r.todo = r.ran["request"]
        BY <2>2, <2>5, ConcatEmptySeq
      <3>2. request.pc = "request" \/ r.erring
        BY <1>1, <2>1, <2>2, FieldsAre DEF AtLoop
      <3>3. Judged(r) => (~r.erring => ToSet(r.ran["request"]) = r.due)
        BY <1>1, <2>2, <3>1, <3>2, FieldsAre DEF AtLoop, Judged
      <3> DEFINE l == Left(r)
      <3>4. /\ Running(l) /\ l.todo = <<>> /\ ~l.nested /\ (Judged(l) <=> Judged(r))
            /\ l.ran = r.ran /\ l.due = r.due /\ l.erring = r.erring
        BY <2>2, <2>3, LeftRuns, FieldsAre DEF Judged
      <3> HIDE DEF l
      <3>5. l.erring => Orderly([l EXCEPT !.pc = "error handler"])
        BY <3>4, EmptySeq, FieldsAre DEF Orderly, Running, AtLoop, Judged
      <3>6. ~l.erring => Orderly([l EXCEPT !.pc = "handler"])
        BY <3>3, <3>4, EmptySeq, FieldsAre DEF Orderly, Running, AtLoop, Judged
      <3> QED BY <3>4, <3>5, <3>6 DEF l
    <2>6. Orderly(RespondAnew(r, "response")) /\ Orderly(Respond(r, "response")) /\ Orderly(Raise(r, "RuntimeError"))
      BY <1>1, <2>2, RespondAnewRuns, RespondRuns, RaiseRuns
    <2>7. ASSUME NEW class PROVE Orderly(Raise(Failing(r), class))
      BY <1>1, <2>2, FailingRuns, RaiseRuns
    <2>8. \/ Then(Raise(r, "RuntimeError"))
          \/ r.todo # <<>> /\ Then(r)
          \/ r.todo = <<>> /\ Then([Left(r) EXCEPT !.pc = IF r.erring THEN "error handler" ELSE "handler"])
          \/ Then(RespondAnew(r, "response")) \/ Then(Respond(r, "response"))
          \/ \E class \in DOMAIN OwnMRO : Then(Raise(Failing(r), class))
      BY <1>3 DEF RequestMiddleware, r
    <2> QED BY <2>4, <2>5, <2>6, <2>7, <2>8, ThenRuns
  <1>4. CASE ResponseMiddleware
    <2> DEFINE r == Ran("response")
               a == [r EXCEPT !.response = "response", !.connected = TRUE]
    <2>1. request.pc = "response"
      BY <1>4 DEF ResponseMiddleware
    <2>2. /\ Running(r) /\ r.todo \in Seq(Registered)
          /\ r.ran["response"] \o r.todo = request.ran["response"] \o request.todo
          /\ \A field \in DOMAIN NoRequest \ {"todo", "ran"} : r[field] = request[field]
      BY <1>2, <2>1, RanRuns
    <2> HIDE DEF r
    <2>3. r.todo # <<>> => Orderly(r)
      BY <1>1, <2>1, <2>2, FieldsAre DEF Orderly, AtLoop, Judged
    <2>4. Running(a)
      BY <2>2, FieldsAre DEF Running, Judged
    <2>5. Orderly(Responded(r)) /\ Orderly(Responded(a)) /\ Orderly(Responded(Failing(r)))
      <3> HIDE DEF a
      <3> QED BY <1>1, <2>2, <2>4, FailingRuns, RespondedRuns
    <2>6. \/ Then(Responded(r)) \/ Then(Responded(a)) \/ Then(Responded(Failing(r)))
          \/ r.todo # <<>> /\ Then(r)
      BY <1>4 DEF ResponseMiddleware, r
    <2> HIDE DEF a
    <2> QED BY <2>3, <2>5, <2>6, ThenRuns
  <1> QED BY <1>3, <1>4

LEMMA HandlerRuns ==
    ASSUME MiddlewareInv,
           \/ \E response \in {Nothing, "response", "junk"} : HandlerReturns(response)
           \/ \E class \in DOMAIN OwnMRO : HandlerRaises(class)
           \/ HandlerResponds \/ HandlerWrites
    PROVE  MiddlewareInv'
  <1>1. Running(request) /\ AtLoop(request) /\ Collected /\ Orderly(request)
    BY DEF MiddlewareInv, Orderly
  <1>2. request.pc = "handler" /\ ~request.nested
    BY <1>1 DEF HandlerReturns, HandlerRaises, HandlerResponds, HandlerWrites, AtLoop
  <1>3. ASSUME NEW response, HandlerReturns(response) PROVE MiddlewareInv'
    <2>1. Orderly([request EXCEPT !.response = "response", !.pc = "send"])
      BY <1>1, <1>2, FieldsAre DEF Orderly, Running, AtLoop, Judged
    <2>2. Orderly(Respond(request, response)) /\ Orderly(Raise(request, "ServerError"))
      BY <1>1, RespondRuns, RaiseRuns
    <2>3. Orderly([request EXCEPT !.pc = "end"])
      BY <1>1, <1>2, FieldsAre DEF Orderly, Running, AtLoop, Judged
    <2>4. \/ Then([request EXCEPT !.response = "response", !.pc = "send"])
          \/ Then(Respond(request, response)) \/ Then(Raise(request, "ServerError"))
          \/ Then([request EXCEPT !.pc = "end"])
      BY <1>3 DEF HandlerReturns
    <2> QED BY <2>1, <2>2, <2>3, <2>4, ThenRuns
  <1>4. ASSUME NEW class \in DOMAIN OwnMRO, HandlerRaises(class) PROVE MiddlewareInv'
    <2>1. Orderly(Raise(Failing(request), class))
      BY <1>1, FailingRuns, RaiseRuns
    <2> QED BY <1>4, <2>1, ThenRuns DEF HandlerRaises
  <1>5. CASE HandlerResponds
    <2> DEFINE r == [request EXCEPT !.nested = TRUE]
    <2>1. Judged(request) => ToSet(request.ran["request"]) = request.due
      BY <1>1, <1>2 DEF AtLoop
    <2>2. ~request.erring
      BY <1>1, <1>2 DEF AtLoop
    <2>3. /\ DOMAIN r = DOMAIN NoRequest /\ r.nested = TRUE
          /\ \A field \in DOMAIN NoRequest \ {"nested"} : r[field] = request[field]
      BY <1>1, FieldsAre DEF Running
    <2> HIDE DEF r
    <2>4. Running(r)
      BY <1>1, <2>1, <2>2, <2>3, FieldsAre DEF Running, Judged
    <2>5. Orderly(Respond(r, "response"))
      BY <1>1, <2>4, RespondRuns
    <2> QED BY <1>5, <2>5, ThenRuns DEF HandlerResponds, r
  <1>6. CASE HandlerWrites
    <2>1. Orderly(Begun(request))
      <3> DEFINE b == Begun(request)
      <3>1. Running(b) /\ \A field \in DOMAIN NoRequest \ {"stage", "sent"} : b[field] = request[field]
        BY <1>1, BegunRuns
      <3> HIDE DEF b
      <3>2. AtLoop(b)
        BY <1>1, <3>1, FieldsAre DEF AtLoop, Judged
      <3> QED BY <3>1, <3>2 DEF Orderly, b
    <2> QED BY <1>6, <2>1, ThenRuns DEF HandlerWrites
  <1> QED BY <1>3, <1>4, <1>5, <1>6

LEMMA EndingRuns == ASSUME MiddlewareInv, HandleError \/ Send \/ CancelRequest \/ Finish PROVE MiddlewareInv'
  <1>1. Running(request) /\ AtLoop(request) /\ Collected
    BY DEF MiddlewareInv, Orderly
  <1>2. CASE HandleError
    <2> DEFINE found == Lookup(request.exception, request.route.name)
               r     == [request EXCEPT !.handler = found.handler]
    <2>1. \/ request.pc = "warn" /\ request' = [r EXCEPT !.pc = "end"]
          \/ request' = RespondAnew(r, "response")
          \/ request' = RespondAnew(r, "junk")
      BY <1>2 DEF HandleError
    <2>2. UNCHANGED <<app_vars, route_cache>>
      BY <1>2 DEF HandleError
    <2> HIDE DEF found
    <2>3. Running(r) /\ r.todo = request.todo /\ r.nested = request.nested
      BY <1>1, FieldsAre DEF Running, Judged
    <2> HIDE DEF r
    <2>4. request.pc = "warn" => Orderly([r EXCEPT !.pc = "end"])
      BY <1>1, <2>3, FieldsAre DEF Orderly, Running, AtLoop, Judged
    <2>5. Orderly(RespondAnew(r, "response")) /\ Orderly(RespondAnew(r, "junk"))
      BY <1>1, <2>3, RespondAnewRuns
    <2>6. Orderly(request')
      BY <2>1, <2>4, <2>5
    <2>7. \A key \in DOMAIN route_cache' : route_cache'[key] \in Routes
      BY <1>1, <2>2 DEF Collected
    <2> QED BY <2>2, <2>6, <2>7, ThenOrderly
  <1>3. CASE Send
    <2> DEFINE b == Begun(request)
    <2>1. request.pc = "send"
      BY <1>3 DEF Send
    <2>2. Running(b) /\ \A field \in DOMAIN NoRequest \ {"stage", "sent"} : b[field] = request[field]
      BY <1>1, BegunRuns
    <2>3. Orderly(Raise(Begun(Failing(request)), "ServerError"))
      BY <1>1, FailingRuns, BegunRuns, RaiseRuns
    <2> HIDE DEF b
    <2>4. Orderly([b EXCEPT !.pc = "end", !.stage = "idle"])
      BY <1>1, <2>1, <2>2, FieldsAre DEF Orderly, Running, AtLoop, Judged
    <2>5. Then([b EXCEPT !.pc = "end", !.stage = "idle"]) \/ Then(Raise(Begun(Failing(request)), "ServerError"))
      BY <1>3 DEF Send, b
    <2> QED BY <2>3, <2>4, <2>5, ThenRuns
  <1>4. CASE CancelRequest
    <2> DEFINE b == Begun(Left(request))
    <2>1. Running(Left(request)) /\ Left(request).nested = request.nested /\ Left(request).todo = <<>>
      BY <1>1, LeftRuns, FieldsAre
    <2>2. Running(b) /\ b.nested = request.nested /\ b.todo = <<>>
      BY <2>1, BegunRuns, FieldsAre
    <2> HIDE DEF b
    <2>3. ~request.nested => Orderly([b EXCEPT !.pc = "end", !.stage = "idle"])
      BY <2>2, EmptySeq, FieldsAre DEF Orderly, Running, AtLoop, Judged
    <2>4. \/ request.erring /\ Then([b EXCEPT !.pc = "end", !.stage = "idle"])
          \/ Then(NoRequest)
      BY <1>4 DEF CancelRequest, b
    <2>5. request.erring => ~request.nested
      BY <1>1 DEF Running
    <2> QED BY <2>3, <2>4, <2>5, NoRequestOrderly, ThenRuns
  <1>5. CASE Finish
    BY <1>5, NoRequestOrderly, ThenRuns DEF Finish
  <1> QED BY <1>2, <1>3, <1>4, <1>5

-----------------------------------------------------------------------------
(* Amendments *)

\* What is in order stays so when more middleware has a number.
LEMMA RequestStays ==
    ASSUME Orderly(request), Registered \subseteq Registered', \A f \in Registered : definition'[f] = definition[f],
           request' \in {request, OldLoop(request)} \cup {OldLoop([request EXCEPT !.torn = b]) : b \in BOOLEAN}
    PROVE  Orderly(request)'
  <1>1. Running(request) /\ AtLoop(request)
    BY DEF Orderly
  <1>2. DOMAIN request' = DOMAIN NoRequest /\ \A field \in DOMAIN NoRequest \ {"live", "torn"} : request'[field] = request[field]
    <2>1. \A b : /\ DOMAIN OldLoop([request EXCEPT !.torn = b]) = DOMAIN NoRequest
                 /\ \A field \in DOMAIN NoRequest \ {"live", "torn"} :
                       OldLoop([request EXCEPT !.torn = b])[field] = request[field]
      BY <1>1, FieldsAre DEF OldLoop, Running
    <2>2. /\ DOMAIN OldLoop(request) = DOMAIN NoRequest
          /\ \A field \in DOMAIN NoRequest \ {"live", "torn"} : OldLoop(request)[field] = request[field]
      BY <1>1, FieldsAre DEF OldLoop, Running
    <2>3. DOMAIN request = DOMAIN NoRequest
      BY <1>1 DEF Running
    <2>4. CASE request' = request
      BY <2>3, <2>4
    <2>5. CASE request' = OldLoop(request)
      BY <2>2, <2>5
    <2>6. ASSUME NEW b \in BOOLEAN, request' = OldLoop([request EXCEPT !.torn = b])
          PROVE  /\ DOMAIN request' = DOMAIN NoRequest
                 /\ \A field \in DOMAIN NoRequest \ {"live", "torn"} : request'[field] = request[field]
      BY <2>1, <2>6
    <2> QED BY <2>4, <2>5, <2>6
  <1>3. Seq(Registered) \subseteq Seq(Registered')
    BY SeqMonotonic
  <1>4. \A s \in Seq(Registered) : \A place : OrderedBy(s, place, definition) => OrderedBy(s, place, definition')
    BY StaysOrdered
  <1>5. /\ request.todo \in Seq(Registered) /\ request.ran["request"] \in Seq(Registered)
        /\ request.ran["response"] \in Seq(Registered)
        /\ request.ran["request"] \o request.todo \in Seq(Registered)
        /\ request.ran["response"] \o request.todo \in Seq(Registered)
    BY <1>1, PlacesAre, ConcatProperties DEF Running, AtLoop
  <1>6. Judged(request') = Judged(request)
    BY <1>2, FieldsAre DEF Judged
  <1>7. ASSUME Judged(request)
        PROVE  /\ \A place \in Places : OrderedBy(request.ran[place], place, definition')
               /\ request.pc \in {"request", "error request"}
                    => OrderedBy(request.ran["request"] \o request.todo, "request", definition')
               /\ request.pc = "response" => OrderedBy(request.ran["response"] \o request.todo, "response", definition')
    <2>1. \A place \in Places : OrderedBy(request.ran[place], place, definition')
      BY <1>1, <1>4, <1>7 DEF Running
    <2>2. request.pc \in {"request", "error request"}
            => OrderedBy(request.ran["request"] \o request.todo, "request", definition')
      BY <1>1, <1>4, <1>5, <1>7 DEF AtLoop
    <2>3. request.pc = "response" => OrderedBy(request.ran["response"] \o request.todo, "response", definition')
      BY <1>1, <1>4, <1>5, <1>7 DEF AtLoop
    <2> QED BY <2>1, <2>2, <2>3
  <1>8. Running(request)'
    <2>1. request'.ran \in [Places -> Seq(Registered')]
      BY <1>1, <1>2, <1>3, FieldsAre DEF Running
    <2>2. Judged(request') => \A place \in Places : OrderedBy(request'.ran[place], place, definition')
      BY <1>2, <1>6, <1>7, FieldsAre
    <2>3. /\ request'.run \in BOOLEAN /\ request'.erring \in BOOLEAN /\ request'.attempt \in Nat
          /\ request'.route \in Routes \cup {NoRoute}
          /\ request'.nested => ~request'.erring
          /\ ~request'.started => request'.ran["response"] = <<>>
          /\ request'.run /\ ~request'.erring => request'.ran["request"] = <<>>
          /\ Judged(request') /\ request'.nested => ToSet(request'.ran["request"]) = request'.due
      BY <1>1, <1>2, <1>6, FieldsAre DEF Running
    <2> QED BY <1>2, <2>1, <2>2, <2>3 DEF Running, Judged, OrderedBy, Before
  <1>9. AtLoop(request)'
    <2>1. /\ request'.pc = request.pc /\ request'.todo = request.todo /\ request'.ran = request.ran
          /\ request'.due = request.due /\ request'.nested = request.nested /\ request'.started = request.started
          /\ request'.run = request.run /\ request'.erring = request.erring /\ request'.route = request.route
      BY <1>2, FieldsAre
    <2>2. request'.todo \in Seq(Registered')
      BY <1>3, <1>5, <2>1
    <2>3. Judged(request') =>
            /\ request'.pc \in {"request", "error request"}
                 => OrderedBy(request'.ran["request"] \o request'.todo, "request", definition')
            /\ request'.pc = "response"
                 => OrderedBy(request'.ran["response"] \o request'.todo, "response", definition')
      BY <1>6, <1>7, <2>1
    <2>4. /\ request'.pc = "body" => request'.ran["request"] = <<>> /\ request'.route \in Routes
          /\ request'.pc \in {"request", "error request", "response"} => request'.todo # <<>>
          /\ request'.pc = "request" => ~request'.run
          /\ request'.pc = "error request" => request'.erring
          /\ request'.pc \in {"body", "handler"} => ~request'.erring
          /\ request'.pc = "response" => request'.started
          /\ request'.nested => request'.pc = "response"
      BY <1>1, <2>1 DEF AtLoop
    <2>5. Judged(request') =>
            /\ request'.pc = "request" => ToSet(request'.ran["request"] \o request'.todo) = request'.due
            /\ request'.pc = "handler" => ToSet(request'.ran["request"]) = request'.due
      BY <1>1, <1>6, <2>1 DEF AtLoop
    <2> QED BY <2>2, <2>3, <2>4, <2>5 DEF AtLoop, Judged, OrderedBy, Before
  <1> QED BY <1>8, <1>9 DEF Orderly

\* What is amended is finalized again, or the router is not.
LEMMA AmendToLists ==
    ASSUME MiddlewareInv, Numbered', Registered \subseteq Registered', UNCHANGED <<is_started, route_cache>>,
           NEW registered \in [Places -> [Scopes -> Seq(Registered')]],
           router' \in [routes : SUBSET Routes, finalized : BOOLEAN], router'.finalized => router.finalized,
           AmendTo(registered, router'.routes)
    PROVE  Collected'
  <1>1. Collected
    BY DEF MiddlewareInv
  <1>2. Seq(Registered) \subseteq Seq(Registered')
    BY SeqMonotonic
  <1>3. extra \in [Routes -> [Places -> Seq(Registered')]]
    BY <1>1, <1>2 DEF Collected
  <1>4. CASE Refinalizes
    <2>1. FinalizeTo(registered, router'.routes)
      BY <1>4 DEF AmendTo
    <2>2. router'.routes \in SUBSET Routes
      OBVIOUS
    <2>3. /\ collection' \in [Places -> [Scopes -> Seq(Registered')]]
          /\ extra' \in [Routes -> [Places -> Seq(Registered')]]
          /\ \A place \in Places :
               /\ Listing(collection[place][All], place, {All})'
               /\ \A route \in router'.routes : Listing(extra[route][place], place, {All, route.name})'
      BY <1>3, <2>1, <2>2, FinalizeLists
    <2> QED BY <1>1, <1>4, <2>3 DEF Collected, Refinalizes
  <1>5. CASE ~Refinalizes
    <2>1. ~router'.finalized
      BY <1>1, <1>5 DEF Refinalizes, Collected
    <2>2. collection' = registered /\ extra' = extra
      BY <1>5 DEF AmendTo
    <2> QED BY <1>1, <1>3, <2>1, <2>2 DEF Collected
  <1> QED BY <1>4, <1>5

LEMMA RegisterRuns == ASSUME MiddlewareInv, NEW f \in Functions, RegisterMiddleware(f) PROVE MiddlewareInv'
  <1> DEFINE number == 1 + Cardinality(Registered)
  <1>1. definition[f] = 0 /\ definition' = [definition EXCEPT ![f] = number]
    BY DEF RegisterMiddleware, Registered
  <1>2. IsFiniteSet(Registered) /\ Cardinality(Registered) \in Nat
    <2>1. Registered \in SUBSET Functions
      BY DEF Registered
    <2> QED BY <2>1, HandlingAssumption, FS_Subset, FS_CardinalityType
  <1>3. Numbered /\ Collected /\ Orderly(request)
    BY DEF MiddlewareInv
  <1>4. definition' \in [Functions -> Nat] /\ definition'[f] = number /\ number # 0
        /\ \A g \in Functions \ {f} : definition'[g] = definition[g]
    BY <1>1, <1>2, <1>3 DEF Numbered
  <1>5. f \notin Registered /\ Registered' = Registered \cup {f}
    BY <1>1, <1>4 DEF Registered
  <1>6. Cardinality(Registered') = number
    BY <1>2, <1>5, FS_AddElement
  <1>7. Numbered'
    <2>1. \A g \in Registered : g \in Functions \ {f} /\ definition[g] \in Nat /\ definition[g] <= Cardinality(Registered)
      BY <1>3, <1>5 DEF Numbered, Registered
    <2>2. \A g \in Registered : definition'[g] = definition[g] /\ definition'[g] < number /\ definition'[g] <= number
      BY <1>2, <1>4, <2>1
    <2>3. \A g, h \in Registered' : definition'[g] = definition'[h] => g = h
      BY <1>2, <1>3, <1>4, <1>5, <2>2 DEF Numbered
    <2>4. \A g \in Registered' : definition'[g] <= Cardinality(Registered')
      BY <1>2, <1>4, <1>5, <1>6, <2>2
    <2> QED BY <1>4, <2>3, <2>4 DEF Numbered
  <1>8. \A g \in Registered : definition'[g] = definition[g]
    BY <1>4, <1>5 DEF Registered
  <1>9. WithApplied(f) \in [Places -> [Scopes -> Seq(Registered')]]
    <2> DEFINE q == Seq(Registered')
    <2>1. collection \in [Places -> [Scopes -> q]]
      BY <1>3, <1>5, SeqMonotonic DEF Collected
    <2>2. \A fs \in q : Entered(fs, f) \in q
      <3> TAKE fs \in q
      <3>1. f \in Registered'
        BY <1>5
      <3>2. Append(fs, f) \in q /\ <<f>> \in q
        BY <3>1
      <3>3. <<f>> \o fs \in q
        BY <3>2, ConcatProperties
      <3> QED BY <3>2, <3>3 DEF Entered
    <2>3. f.attach_to \in Places /\ All \in Scopes
      BY HandlingAssumption, PlacesAre
    <2> HIDE DEF q
    <2>4. WithMiddleware(f) \in [Places -> [Scopes -> q]]
      BY <2>1, <2>2, <2>3 DEF WithMiddleware
    <2>5. WithNamedMiddleware(f) \in [Places -> [Scopes -> q]]
      BY <2>1, <2>2, <2>3 DEF WithNamedMiddleware
    <2> QED BY <2>4, <2>5 DEF WithApplied, q
  <1>10. router' = router /\ UNCHANGED <<is_started, route_cache>> /\ AmendTo(WithApplied(f), router'.routes)
    BY DEF RegisterMiddleware, caches
  <1>11. Collected'
    <2>1. router' \in [routes : SUBSET Routes, finalized : BOOLEAN] /\ (router'.finalized => router.finalized)
      BY <1>3, <1>10 DEF Collected
    <2>2. Registered \subseteq Registered'
      BY <1>5
    <2> QED BY <1>7, <1>9, <1>10, <2>1, <2>2, AmendToLists
  <1>12. Orderly(request)'
    <2>1. request' = OldLoop([request EXCEPT !.torn = @ \/ (request.live = f.attach_to /\ f.route_names = {})])
      BY DEF RegisterMiddleware
    <2> DEFINE b == request.torn \/ (request.live = f.attach_to /\ f.route_names = {})
    <2>2. b \in BOOLEAN /\ request' = OldLoop([request EXCEPT !.torn = b])
      BY <2>1
    <2> HIDE DEF b
    <2>3. Registered \subseteq Registered'
      BY <1>5
    <2> QED BY <1>3, <1>8, <2>2, <2>3, RequestStays
  <1> QED BY <1>7, <1>11, <1>12 DEF MiddlewareInv

LEMMA RouteRuns ==
    ASSUME MiddlewareInv, NEW route \in Routes, NEW overwrite \in BOOLEAN, AddRoute(route, overwrite)
    PROVE  MiddlewareInv'
  <1>1. Numbered /\ Collected /\ Orderly(request)
    BY DEF MiddlewareInv
  <1>2. definition' = definition /\ UNCHANGED <<is_started, route_cache>>
    BY DEF AddRoute, caches
  <1>3. Registered' = Registered
    BY <1>2 DEF Registered
  <1>4. Numbered'
    BY <1>1, <1>2, <1>3 DEF Numbered
  <1>5. Others(route) \cup {route} \in SUBSET Routes
    BY <1>1 DEF Others, Collected
  <1>6. collection \in [Places -> [Scopes -> Seq(Registered')]]
    BY <1>1, <1>3 DEF Collected
  <1>7. CASE /\ router' = [router EXCEPT !.routes = Others(route) \cup {route}]
             /\ AmendTo(collection, router'.routes)
             /\ request' = OldLoop(request)
    <2>1. router' \in [routes : SUBSET Routes, finalized : BOOLEAN] /\ (router'.finalized => router.finalized)
      BY <1>1, <1>5, <1>7 DEF Collected
    <2>2. Collected'
      BY <1>2, <1>3, <1>4, <1>6, <1>7, <2>1, AmendToLists
    <2>3. Orderly(request)'
      BY <1>1, <1>2, <1>3, <1>7, RequestStays
    <2> QED BY <1>4, <2>2, <2>3 DEF MiddlewareInv
  <1>8. CASE router' = [router EXCEPT !.finalized = FALSE] /\ UNCHANGED <<collection, extra, request>>
    <2>1. router' \in [routes : SUBSET Routes, finalized : BOOLEAN] /\ ~router'.finalized
      BY <1>1, <1>8 DEF Collected
    <2>2. Collected'
      BY <1>1, <1>2, <1>3, <1>8, <2>1 DEF Collected
    <2>3. Orderly(request)'
      BY <1>1, <1>2, <1>3, <1>8, RequestStays
    <2> QED BY <1>4, <2>2, <2>3 DEF MiddlewareInv
  <1> QED BY <1>7, <1>8 DEF AddRoute

LEMMA StartRuns == ASSUME MiddlewareInv, StartServing PROVE MiddlewareInv'
  <1>1. Numbered /\ Collected /\ Orderly(request)
    BY DEF MiddlewareInv
  <1>2. definition' = definition /\ UNCHANGED <<request, route_cache>> /\ is_started' = TRUE
        /\ router' = [router EXCEPT !.finalized = TRUE] /\ FinalizeTo(collection, router.routes)
    BY DEF StartServing, caches
  <1>3. Registered' = Registered
    BY <1>2 DEF Registered
  <1>4. Numbered'
    BY <1>1, <1>2, <1>3 DEF Numbered
  <1>5. /\ router' \in [routes : SUBSET Routes, finalized : BOOLEAN] /\ router'.routes = router.routes
        /\ router.routes \in SUBSET Routes
    BY <1>1, <1>2 DEF Collected
  <1>6. collection \in [Places -> [Scopes -> Seq(Registered')]] /\ extra \in [Routes -> [Places -> Seq(Registered')]]
    BY <1>1, <1>3 DEF Collected
  <1>7. /\ collection' \in [Places -> [Scopes -> Seq(Registered')]]
        /\ extra' \in [Routes -> [Places -> Seq(Registered')]]
        /\ \A place \in Places :
             /\ Listing(collection[place][All], place, {All})'
             /\ \A route \in router.routes : Listing(extra[route][place], place, {All, route.name})'
    BY <1>2, <1>4, <1>5, <1>6, FinalizeLists
  <1>8. Collected'
    BY <1>1, <1>2, <1>5, <1>7 DEF Collected
  <1>9. Orderly(request)'
    BY <1>1, <1>2, <1>3, RequestStays
  <1> QED BY <1>4, <1>8, <1>9 DEF MiddlewareInv

LEMMA MiddlewareStarts == HandlingInit => MiddlewareInv
  <1> SUFFICES ASSUME HandlingInit PROVE MiddlewareInv
    OBVIOUS
  <1>1. Registered = {}
    BY DEF HandlingInit, Registered
  <1>2. Numbered
    BY <1>1 DEF Numbered, HandlingInit
  <1>3. <<>> \in Seq(Registered)
    BY EmptySeq
  <1>4. Collected
    <2>1. is_started = FALSE /\ router = [routes |-> {}, finalized |-> FALSE] /\ DOMAIN route_cache = {}
      BY DEF HandlingInit
    <2>2. collection \in [Places -> [Scopes -> Seq(Registered)]] /\ extra \in [Routes -> [Places -> Seq(Registered)]]
      BY <1>3 DEF HandlingInit
    <2> QED BY <2>1, <2>2 DEF Collected
  <1> QED BY <1>2, <1>4, NoRequestOrderly DEF MiddlewareInv, HandlingInit

LEMMA MiddlewareKept == MiddlewareInv /\ [HandlingNext]_handling_vars => MiddlewareInv'
  <1> SUFFICES ASSUME MiddlewareInv, [HandlingNext]_handling_vars PROVE MiddlewareInv'
    OBVIOUS
  <1>1. ASSUME UNCHANGED <<app_vars, route_cache, request>> PROVE MiddlewareInv'
    BY <1>1, ThenOrderly DEF MiddlewareInv, Collected
  <1>2. CASE UNCHANGED handling_vars
    BY <1>1, <1>2 DEF handling_vars, caches
  <1>3. ASSUME NEW h \in ErrorHandlers, AddExceptionHandler(h) PROVE MiddlewareInv'
    BY <1>1, <1>3 DEF AddExceptionHandler
  <1>4. CASE HandlingNext
    BY <1>3, <1>4, RegisterRuns, RouteRuns, StartRuns, ReceiveRuns, BodyRuns, MiddlewareRuns, HandlerRuns,
       EndingRuns DEF HandlingNext, Amend
  <1> QED BY <1>2, <1>4

\* However routes and middleware are registered while requests are handled, between any two of
\* their middleware, and wherever user code raises: before the handler of a route all the request
\* middleware of the application and the route has run, by priority, then by definition, and
\* response middleware runs in the opposite order, none twice; unless the route was overwritten
\* while the router's cache still knows it, or an amendment failed.
\* (Sanic.amend, finalize_middleware, _run_request_middleware, _run_response_middleware)
THEOREM MiddlewareRunsInOrder == HandlingSpec => []MiddlewareInOrder
  <1>1. MiddlewareInv => MiddlewareInOrder
    <2> SUFFICES ASSUME MiddlewareInv, ~request.stale, request.attempt = 0
                 PROVE  /\ OrderedBy(request.ran["request"], "request", definition)
                        /\ OrderedBy(request.ran["response"], "response", definition)
                        /\ request.pc = "handler" => ToSet(request.ran["request"]) = request.due
      BY DEF MiddlewareInOrder, OrderedBy
    <2>1. Running(request) /\ AtLoop(request) /\ Judged(request)
      BY DEF MiddlewareInv, Orderly, Judged
    <2>2. \A place \in Places : OrderedBy(request.ran[place], place, definition)
      BY <2>1 DEF Running
    <2>3. request.pc = "handler" => ToSet(request.ran["request"]) = request.due
      BY <2>1 DEF AtLoop
    <2> QED BY <2>2, <2>3, PlacesAre
  <1> QED BY <1>1, MiddlewareStarts, MiddlewareKept, PTL DEF HandlingSpec
-----------------------------------------------------------------------------
(* Signals and those who wait for them *)

Dispatches ==
    [how : Sent \cup {ReportIt}, cause : Nat,
     place : {"created", "running", "awaiting", "reporting", "ended"},
     todo : Seq(Signal), order : Seq(Signal), called : Seq(Signal),
     outcome : {None, "value", "raised", "NotFound"}]

Right(d) == Kept(d.order, HandlersFor(d.how.event, d.how.condition))

\* where a dispatch is: what it has called and what is left is what it should call
Proceeds(d) ==
    /\ d.place \in {"created", "running", "awaiting"} => d.outcome = None
    /\ d.place = "created" => d.called = <<>>
    /\ d.place \in {"running", "awaiting"} => d.todo # <<>> /\ d.called \o d.todo = Right(d)
    /\ d.place = "ended" /\ d.outcome = None => d.called = Right(d)
    /\ d.place = "reporting" => d.how.event # Report /\ d.outcome = "raised"

IsReported(d) == d.how.event # Report /\ (d.place = "reporting" \/ d.outcome = "raised")

CausedBy(c) == {r \in DOMAIN calls : calls[r].cause = c}

\* a report comes after what it reports, which is no report
CallsFit ==
    /\ calls \in Seq(Dispatches)
    /\ \A c \in DOMAIN calls :
         /\ Proceeds(calls[c])
         /\ calls[c].cause < c
         /\ calls[c].cause # 0 => calls[calls[c].cause].how.event # Report
         /\ Cardinality(CausedBy(c)) = IF IsReported(calls[c]) THEN 1 ELSE 0

\* A dispatch stays what it is, and one that has started has.
Grows ==
    \A c \in DOMAIN calls :
        /\ c \in DOMAIN calls' /\ calls'[c].how = calls[c].how
        /\ calls[c].place # "created" => calls'[c].place # "created"

LEMMA CallTyped ==
    ASSUME CallsFit, NEW c \in DOMAIN calls
    PROVE  calls[c] \in Dispatches /\ calls[c].cause \in Nat /\ c \in 1..Len(calls) /\ Len(calls) \in Nat
  <1>1. calls \in Seq(Dispatches)
    BY DEF CallsFit
  <1>2. calls[c] \in Dispatches
    BY <1>1, ElementOfSeq
  <1> QED BY <1>1, <1>2 DEF Dispatches

LEMMA SentFits == ASSUME NEW how \in Sent PROVE how # ReportIt /\ how.event # Report /\ how.event \in Events
  BY SignalRouterAssumption DEF ReportIt

LEMMA NoneIsNot == None \notin {"value", "raised", "NotFound"}
  BY DEF None

LEMMA KeptNothing == ASSUME NEW keep PROVE Kept(<<>>, keep) = <<>>
  <1>1. <<>> \in Seq({})  OBVIOUS
  <1>2. Kept(<<>>, keep) \in Seq({} \cap keep)
    BY <1>1, KeptOf
  <1>3. Kept(<<>>, keep) \in Seq({})
    BY <1>2
  <1> QED BY <1>3

LEMMA NewFits ==
    ASSUME NEW how \in Sent \cup {ReportIt}, NEW cause \in Nat
    PROVE  LET d == NewCall(how, cause)
           IN  d \in Dispatches /\ Proceeds(d) /\ ~IsReported(d) /\ d.how = how /\ d.cause = cause
               /\ d.place = "created"
  BY NoneIsNot DEF NewCall, Dispatches, Proceeds, IsReported, None

\* How a dispatch ends: it forgets what it has called.
Ended(d, outcome) == [NewCall(d.how, d.cause) EXCEPT !.place = "ended", !.outcome = outcome]

LEMMA EndedFits ==
    ASSUME NEW d \in Dispatches, NEW outcome \in {None, "value", "raised", "NotFound"}
    PROVE  LET e == Ended(d, outcome)
           IN  /\ e \in Dispatches /\ Proceeds(e) /\ e.how = d.how /\ e.cause = d.cause
               /\ e.place = "ended" /\ e.outcome = outcome
               /\ e = [how |-> d.how, cause |-> d.cause, place |-> "ended", todo |-> <<>>, order |-> <<>>,
                       called |-> <<>>, outcome |-> outcome]
  <1> DEFINE e == Ended(d, outcome)
             new == NewCall(d.how, d.cause)
  <1>0. new = [how |-> d.how, cause |-> d.cause, place |-> "created", todo |-> <<>>, order |-> <<>>,
               called |-> <<>>, outcome |-> None]
    BY DEF NewCall
  <1>1. e = [how |-> d.how, cause |-> d.cause, place |-> "ended", todo |-> <<>>, order |-> <<>>,
             called |-> <<>>, outcome |-> outcome]
    <2>1. e = [new EXCEPT !.place = "ended", !.outcome = outcome]
      BY DEF Ended
    <2> HIDE DEF e, new
    <2> QED BY <1>0, <2>1
  <1> HIDE DEF e
  <1>2. e \in Dispatches
    BY <1>1 DEF Dispatches
  <1>3. Right(e) = <<>>
    BY <1>1, KeptNothing DEF Right
  <1>4. Proceeds(e)
    BY <1>1, <1>3 DEF Proceeds
  <1> QED BY <1>1, <1>2, <1>4 DEF e

LEMMA EndIs == ASSUME NEW c, NEW outcome PROVE End(c, outcome) = [calls EXCEPT ![c] = Ended(calls[c], outcome)]
  BY DEF End, Ended

\* A dispatch goes on or ends: those of the others are as they were.
LEMMA GoesOn ==
    ASSUME CallsFit, NEW c \in DOMAIN calls, NEW d \in Dispatches, Proceeds(d),
           d.how = calls[c].how, d.cause = calls[c].cause, IsReported(d) <=> IsReported(calls[c]),
           calls[c].place # "created" => d.place # "created",
           calls' = [calls EXCEPT ![c] = d]
    PROVE  CallsFit' /\ Grows
  <1>1. calls' \in Seq(Dispatches) /\ DOMAIN calls' = DOMAIN calls
    BY ExceptSeq DEF CallsFit
  <1>2. \A b \in DOMAIN calls : /\ calls'[b].how = calls[b].how /\ calls'[b].cause = calls[b].cause
                                /\ IsReported(calls'[b]) <=> IsReported(calls[b])
                                /\ Proceeds(calls'[b])
    BY DEF CallsFit
  <1>3. \A b : CausedBy(b)' = CausedBy(b)
    BY <1>1, <1>2 DEF CausedBy
  <1>4. ASSUME NEW b \in DOMAIN calls, calls[b].cause # 0
        PROVE  calls[b].cause \in DOMAIN calls
    <2>1. DOMAIN calls = 1..Len(calls) /\ Len(calls) \in Nat
      BY DEF CallsFit
    <2>2. calls[b].cause \in Nat /\ calls[b].cause < b
      BY CallTyped DEF CallsFit
    <2> QED BY <2>1, <2>2, <1>4
  <1>5. ASSUME NEW b \in DOMAIN calls'
        PROVE  /\ Proceeds(calls'[b]) /\ calls'[b].cause < b
               /\ calls'[b].cause # 0 => calls'[calls'[b].cause].how.event # Report
               /\ Cardinality(CausedBy(b)') = IF IsReported(calls'[b]) THEN 1 ELSE 0
    <2>1. b \in DOMAIN calls
      BY <1>1
    <2>2. calls'[b].cause # 0 => calls'[calls'[b].cause].how.event # Report
      <3>1. calls[b].cause # 0 => calls[calls[b].cause].how.event # Report
        BY <2>1 DEF CallsFit
      <3> QED BY <3>1, <1>2, <1>4, <2>1
    <2>3. calls'[b].cause < b
      BY <1>2, <2>1 DEF CallsFit
    <2>4. Cardinality(CausedBy(b)') = IF IsReported(calls'[b]) THEN 1 ELSE 0
      <3>1. Cardinality(CausedBy(b)) = IF IsReported(calls[b]) THEN 1 ELSE 0
        BY <2>1 DEF CallsFit
      <3> QED BY <3>1, <1>2, <1>3, <2>1
    <2> QED BY <1>2, <2>1, <2>2, <2>3, <2>4
  <1>6. Grows
    BY <1>1, <1>2 DEF Grows, CallsFit
  <1> QED BY <1>1, <1>5, <1>6 DEF CallsFit

\* A dispatch is made; it is the report of another, which raised, or of none.
LEMMA IsMade ==
    ASSUME CallsFit, NEW how \in Sent, calls' = Append(calls, NewCall(how, 0))
    PROVE  CallsFit' /\ Grows
  <1> DEFINE new == NewCall(how, 0)
             n == Len(calls) + 1
  <1>1. new \in Dispatches /\ Proceeds(new) /\ ~IsReported(new) /\ new.cause = 0
    BY NewFits
  <1> HIDE DEF new
  <1>2. Len(calls) \in Nat /\ DOMAIN calls = 1..Len(calls) /\ calls \in Seq(Dispatches)
    BY LenProperties DEF CallsFit
  <1>3. calls' \in Seq(Dispatches) /\ DOMAIN calls' = 1..n /\ calls'[n] = new
        /\ \A b \in DOMAIN calls : calls'[b] = calls[b]
    BY <1>1, <1>2, AppendProperties DEF new
  <1>4. \A b \in DOMAIN calls : calls[b].cause \in Nat /\ calls[b].cause < b
    BY CallTyped DEF CallsFit
  <1>5. \A b \in DOMAIN calls' : b \in DOMAIN calls \/ b = n
    BY <1>2, <1>3
  <1>6. \A b \in Nat \ {0} : CausedBy(b)' = CausedBy(b)
    BY <1>1, <1>2, <1>3, <1>5 DEF CausedBy
  <1>7. CausedBy(n) = {}
    <2>1. \A b \in DOMAIN calls : calls[b].cause # n
      BY <1>2, <1>4
    <2> QED BY <2>1 DEF CausedBy
  <1>8. n \in Nat \ {0} /\ \A b \in DOMAIN calls : b \in Nat \ {0}
    BY <1>2
  <1> HIDE DEF n
  <1>9. ASSUME NEW b \in DOMAIN calls'
        PROVE  /\ Proceeds(calls'[b]) /\ calls'[b].cause < b
               /\ calls'[b].cause # 0 => calls'[calls'[b].cause].how.event # Report
               /\ Cardinality(CausedBy(b)') = IF IsReported(calls'[b]) THEN 1 ELSE 0
    <2>1. CASE b = n
      <3>1. Cardinality(CausedBy(b)') = 0
        BY <1>6, <1>7, <1>8, <2>1, FS_EmptySet
      <3>2. 0 < n
        BY <1>8
      <3> QED BY <1>1, <1>3, <2>1, <3>1, <3>2
    <2>2. CASE b \in DOMAIN calls
      <3>1. calls[b].cause # 0 => calls[b].cause \in DOMAIN calls
        BY <1>2, <1>4, <2>2
      <3>2. Cardinality(CausedBy(b)) = IF IsReported(calls[b]) THEN 1 ELSE 0
        BY <2>2 DEF CallsFit
      <3>3. Cardinality(CausedBy(b)') = IF IsReported(calls'[b]) THEN 1 ELSE 0
        BY <1>3, <1>6, <1>8, <2>2, <3>2
      <3>4. calls[b].cause # 0 => calls[calls[b].cause].how.event # Report
        BY <2>2 DEF CallsFit
      <3>5. Proceeds(calls'[b]) /\ calls'[b].cause < b
        BY <1>3, <2>2 DEF CallsFit
      <3>6. calls'[b].cause # 0 => calls'[calls'[b].cause].how.event # Report
        BY <1>3, <2>2, <3>1, <3>4
      <3> QED BY <3>3, <3>5, <3>6
    <2> QED BY <1>5, <2>1, <2>2
  <1>10. Grows
    BY <1>2, <1>3 DEF Grows
  <1> QED BY <1>3, <1>9, <1>10 DEF CallsFit

\* A handler, or a waiter, has raised: the dispatch ends or, unless it is a report, one is made.
LEMMA RaisedKeeps ==
    ASSUME CallsFit, NEW c \in DOMAIN calls, calls[c].place \in {"created", "running", "awaiting"}, Raised(c)
    PROVE  CallsFit' /\ Grows /\ calls'[c].place # "created"
  <1> DEFINE ended == Ended(calls[c], "raised")
             e == [ended EXCEPT !.place = "reporting"]
             new == NewCall(ReportIt, c)
             n == Len(calls) + 1
             old == [calls EXCEPT ![c] = e]
  <1>1. /\ calls[c] \in Dispatches /\ Proceeds(calls[c]) /\ ~IsReported(calls[c])
        /\ CausedBy(c) = {}
    <2>1. calls[c] \in Dispatches /\ Proceeds(calls[c])
      BY CallTyped DEF CallsFit
    <2>2. ~IsReported(calls[c])
      BY <2>1, NoneIsNot DEF Proceeds, IsReported
    <2>3. CausedBy(c) \subseteq 1..Len(calls) /\ Len(calls) \in Nat
      BY CallTyped DEF CausedBy
    <2>4. IsFiniteSet(CausedBy(c))
      <3>1. IsFiniteSet(1..Len(calls))
        BY <2>3, FS_Interval
      <3>2. CausedBy(c) \in SUBSET (1..Len(calls))
        BY <2>3
      <3> QED BY <3>1, <3>2, FS_Subset
    <2>5. Cardinality(CausedBy(c)) = 0
      BY <2>2 DEF CallsFit
    <2> QED BY <2>1, <2>2, <2>4, <2>5, FS_EmptySet
  <1>2. /\ ended \in Dispatches /\ Proceeds(ended) /\ ended.how = calls[c].how /\ ended.cause = calls[c].cause
        /\ ended = [how |-> calls[c].how, cause |-> calls[c].cause, place |-> "ended", todo |-> <<>>,
                    order |-> <<>>, called |-> <<>>, outcome |-> "raised"]
    BY <1>1, EndedFits
  <1> HIDE DEF ended
  <1>3. End(c, "raised") = [calls EXCEPT ![c] = ended]
    BY EndIs DEF ended
  <1>4. CASE calls[c].how.event = Report
    <2>1. calls' = [calls EXCEPT ![c] = ended]
      BY <1>3, <1>4 DEF Raised
    <2>2. ~IsReported(ended) /\ ended.place # "created"
      BY <1>2, <1>4 DEF IsReported
    <2>3. calls'[c] = ended
      BY <2>1
    <2> QED BY <1>1, <1>2, <2>1, <2>2, <2>3, GoesOn
  <1>5. CASE calls[c].how.event # Report
    <2>1. e = [how |-> calls[c].how, cause |-> calls[c].cause, place |-> "reporting", todo |-> <<>>,
               order |-> <<>>, called |-> <<>>, outcome |-> "raised"]
      BY <1>2
    <2>2. [End(c, "raised") EXCEPT ![c].place = "reporting"] = old
      BY <1>3
    <2>3. calls' = Append(old, new)
      BY <1>5, <2>2 DEF Raised
    <2> HIDE DEF e
    <2>4. e \in Dispatches /\ Proceeds(e) /\ IsReported(e) /\ e.place # "created"
          /\ e.how = calls[c].how /\ e.cause = calls[c].cause
      <3>1. e \in Dispatches
        BY <1>1, <2>1 DEF Dispatches
      <3> QED BY <1>5, <2>1, <3>1, NoneIsNot DEF Proceeds, IsReported
    <2>5. Len(calls) \in Nat /\ DOMAIN calls = 1..Len(calls) /\ c \in Nat /\ c # 0
      BY CallTyped, LenProperties DEF CallsFit
    <2>6. old \in Seq(Dispatches) /\ Len(old) = Len(calls) /\ DOMAIN old = DOMAIN calls
      BY <2>4, ExceptSeq DEF CallsFit
    <2>7. new \in Dispatches /\ Proceeds(new) /\ ~IsReported(new) /\ new.cause = c /\ new.how = ReportIt
      BY <2>5, NewFits
    <2> HIDE DEF new
    <2>8. /\ calls' \in Seq(Dispatches) /\ DOMAIN calls' = 1..n /\ calls'[n] = new
          /\ \A b \in DOMAIN calls : calls'[b] = old[b]
      <3> HIDE DEF old
      <3> QED BY <2>3, <2>5, <2>6, <2>7, AppendProperties
    <2>9. calls'[c] = e /\ \A b \in DOMAIN calls : /\ b # c => calls'[b] = calls[b]
                                                   /\ calls'[b].how = calls[b].how
                                                   /\ calls'[b].cause = calls[b].cause
      BY <2>4, <2>8
    <2>10. n \in Nat \ {0} /\ \A b \in DOMAIN calls : b \in Nat \ {0} /\ b # n
      BY <2>5
    <2>11. \A b \in DOMAIN calls' : b \in DOMAIN calls \/ b = n
      BY <2>5, <2>8
    <2>12. \A b \in DOMAIN calls : b \in DOMAIN calls'
      BY <2>5, <2>8
    <2>12a. n \in DOMAIN calls'
      BY <2>5, <2>8
    <2> HIDE DEF n, old
    <2>13. \A b : b # c => CausedBy(b)' = CausedBy(b)
      BY <2>7, <2>8, <2>9, <2>11, <2>12 DEF CausedBy
    <2>14. CausedBy(c)' = {n}
      <3>1. \A b \in DOMAIN calls : calls[b].cause # c
        BY <1>1 DEF CausedBy
      <3> QED BY <3>1, <2>7, <2>8, <2>9, <2>11, <2>12a DEF CausedBy
    <2>15. \A b \in DOMAIN calls : calls[b].cause \in Nat /\ calls[b].cause < b
      BY CallTyped DEF CallsFit
    <2>16. CausedBy(n) = {}
      <3>1. \A b \in DOMAIN calls : calls[b].cause # n
        BY <2>5, <2>15 DEF n
      <3> QED BY <3>1 DEF CausedBy
    <2>17. ASSUME NEW b \in DOMAIN calls'
           PROVE  /\ Proceeds(calls'[b]) /\ calls'[b].cause < b
                  /\ calls'[b].cause # 0 => calls'[calls'[b].cause].how.event # Report
                  /\ Cardinality(CausedBy(b)') = IF IsReported(calls'[b]) THEN 1 ELSE 0
      <3>1. CASE b = n
        <4>1. Cardinality(CausedBy(b)') = 0
          BY <2>10, <2>13, <2>16, <3>1, FS_EmptySet
        <4>2. c < n
          BY <2>5 DEF n
        <4>3. calls'[c].how.event # Report
          BY <1>5, <2>9
        <4> QED BY <2>7, <2>8, <3>1, <4>1, <4>2, <4>3
      <3>2. CASE b \in DOMAIN calls
        <4>1. calls[b].cause # 0 => calls[b].cause \in DOMAIN calls
          BY <2>5, <2>15, <3>2
        <4>2. calls[b].cause # 0 => calls[calls[b].cause].how.event # Report
          BY <3>2 DEF CallsFit
        <4>3. calls'[b].cause # 0 => calls'[calls'[b].cause].how.event # Report
          BY <2>9, <3>2, <4>1, <4>2
        <4>4. calls'[b].cause < b
          BY <2>9, <2>15, <3>2
        <4>5. CASE b = c
          <5>1. Cardinality(CausedBy(b)') = 1
            BY <2>14, <4>5, FS_Singleton
          <5> QED BY <2>4, <2>9, <4>3, <4>4, <4>5, <5>1
        <4>6. CASE b # c
          <5>1. Cardinality(CausedBy(b)) = IF IsReported(calls[b]) THEN 1 ELSE 0
            BY <3>2 DEF CallsFit
          <5>2. Cardinality(CausedBy(b)') = IF IsReported(calls'[b]) THEN 1 ELSE 0
            BY <2>9, <2>13, <3>2, <4>6, <5>1
          <5>3. Proceeds(calls'[b])
            BY <2>9, <3>2, <4>6 DEF CallsFit
          <5> QED BY <4>3, <4>4, <5>2, <5>3
        <4> QED BY <4>5, <4>6
      <3> QED BY <2>11, <3>1, <3>2
    <2>18. Grows /\ calls'[c].place # "created"
      BY <2>4, <2>9, <2>12 DEF Grows
    <2> QED BY <2>8, <2>17, <2>18 DEF CallsFit
  <1> QED BY <1>4, <1>5

\* A dispatch that has started ends, and the reason is no exception or has been reported.
LEMMA EndKeeps ==
    ASSUME CallsFit, NEW c \in DOMAIN calls, NEW outcome \in {None, "value", "raised", "NotFound"},
           outcome = "raised" => IsReported(calls[c]), IsReported(calls[c]) => outcome = "raised",
           calls' = End(c, outcome)
    PROVE  CallsFit' /\ Grows /\ calls'[c].place # "created"
  <1> DEFINE e == Ended(calls[c], outcome)
  <1>1. calls[c] \in Dispatches
    BY CallTyped
  <1>2. /\ e \in Dispatches /\ Proceeds(e) /\ e.how = calls[c].how /\ e.cause = calls[c].cause
        /\ e.place = "ended" /\ e.outcome = outcome
    BY <1>1, EndedFits
  <1>3. calls' = [calls EXCEPT ![c] = e]
    BY EndIs
  <1> HIDE DEF e
  <1>4. IsReported(e) <=> IsReported(calls[c])
    BY <1>2, NoneIsNot DEF IsReported
  <1>5. calls'[c] = e
    BY <1>3
  <1> QED BY <1>2, <1>3, <1>4, <1>5, GoesOn

\* The next handler is called, and what it leaves is still to call.
LEMMA CalledOn ==
    ASSUME NEW called \in Seq(Signal), NEW todo \in Seq(Signal), todo # <<>>
    PROVE  /\ Append(called, Head(todo)) \in Seq(Signal) /\ Tail(todo) \in Seq(Signal)
           /\ Append(called, Head(todo)) \o Tail(todo) = called \o todo
           /\ Tail(todo) = <<>> => Append(called, Head(todo)) = called \o todo
  <1>1. Head(todo) \in Signal /\ Tail(todo) \in Seq(Signal)
    BY HeadTailProperties
  <1>2. Append(called, Head(todo)) \in Seq(Signal)
    BY <1>1
  <1>3. Append(called, Head(todo)) \o Tail(todo) = called \o todo
    BY <1>1
  <1>4. Append(called, Head(todo)) \o <<>> = Append(called, Head(todo))
    BY <1>2, ConcatEmptySeq
  <1> QED BY <1>1, <1>2, <1>3, <1>4

Moved(d, place, todo, called) == [d EXCEPT !.place = place, !.todo = todo, !.called = called]

LEMMA WhatChanged ==
    ASSUME NEW d \in Dispatches, NEW place, NEW todo, NEW called
    PROVE  Moved(d, place, todo, called) =
             [how |-> d.how, cause |-> d.cause, place |-> place, todo |-> todo, order |-> d.order,
              called |-> called, outcome |-> d.outcome]
  <1>1. d = [how |-> d.how, cause |-> d.cause, place |-> d.place, todo |-> d.todo, order |-> d.order,
             called |-> d.called, outcome |-> d.outcome]
    BY DEF Dispatches
  <1> DEFINE moved == [d EXCEPT !.place = place]
             left  == [moved EXCEPT !.todo = todo]
  <1>2. moved = [how |-> d.how, cause |-> d.cause, place |-> place, todo |-> d.todo, order |-> d.order,
                 called |-> d.called, outcome |-> d.outcome]
    BY <1>1
  <1> HIDE DEF moved
  <1>3. left = [how |-> d.how, cause |-> d.cause, place |-> place, todo |-> todo, order |-> d.order,
                called |-> d.called, outcome |-> d.outcome]
    BY <1>2
  <1> HIDE DEF left
  <1>4. [left EXCEPT !.called = called] =
             [how |-> d.how, cause |-> d.cause, place |-> place, todo |-> todo, order |-> d.order,
              called |-> called, outcome |-> d.outcome]
    BY <1>3
  <1>5. Moved(d, place, todo, called) = [left EXCEPT !.called = called]
    BY DEF left, moved, Moved
  <1> QED BY <1>4, <1>5

LEMMA ReturnsKeeps ==
    ASSUME CallsFit, NEW c \in DOMAIN calls, calls[c].place \in {"running", "awaiting"},
           NEW result \in {"nothing", "value", "raise"}, Returns(c, result)
    PROVE  CallsFit' /\ Grows
  <1> DEFINE called == Append(calls[c].called, Head(calls[c].todo))
             todo == Tail(calls[c].todo)
  <1>1. /\ calls[c] \in Dispatches /\ Proceeds(calls[c])
        /\ calls[c].called \in Seq(Signal) /\ calls[c].todo \in Seq(Signal)
    BY CallTyped DEF CallsFit, Dispatches
  <1>2. /\ called \in Seq(Signal) /\ todo \in Seq(Signal) /\ called \o todo = Right(calls[c])
        /\ todo = <<>> => called = Right(calls[c])
    <2>1. calls[c].todo # <<>> /\ calls[c].called \o calls[c].todo = Right(calls[c])
      BY <1>1 DEF Proceeds
    <2> QED BY <1>1, <2>1, CalledOn
  <1>3. calls[c].outcome = None /\ ~IsReported(calls[c])
    BY <1>1, NoneIsNot DEF Proceeds, IsReported
  <1>4. CASE result = "raise"
    BY <1>4, RaisedKeeps DEF Returns
  <1>5. CASE result = "value"
    <2>1. calls' = End(c, "value")
      BY <1>5 DEF Returns
    <2> QED BY <1>3, <2>1, EndKeeps
  <1>6. CASE result = "nothing"
    <2> DEFINE old == calls[c]
               d == Moved(old, "running", todo, called)
               e == Moved(old, "ended", <<>>, called)
    <2>1. \/ todo # <<>> /\ calls' = [calls EXCEPT ![c] = d]
          \/ todo = <<>> /\ calls' = [calls EXCEPT ![c] = e]
      BY <1>6 DEF Returns, Moved
    <2> HIDE DEF called, todo
    <2>1a. /\ old.how \in Sent \cup {ReportIt} /\ old.cause \in Nat /\ old.order \in Seq(Signal)
           /\ old.outcome = None
           /\ DOMAIN old = {"how", "cause", "place", "todo", "order", "called", "outcome"}
      BY <1>1, <1>3 DEF Dispatches
    <2>2. d = [how |-> old.how, cause |-> old.cause, place |-> "running", todo |-> todo,
               order |-> old.order, called |-> called, outcome |-> None]
      BY <1>1, <2>1a, WhatChanged
    <2>3. e = [how |-> old.how, cause |-> old.cause, place |-> "ended", todo |-> <<>>,
               order |-> old.order, called |-> called, outcome |-> None]
      BY <1>1, <2>1a, WhatChanged
    <2>3a. d \in Dispatches /\ e \in Dispatches
      <3> HIDE DEF old, d, e
      <3> QED BY <1>2, <2>1a, <2>2, <2>3 DEF Dispatches
    <2> HIDE DEF d, e
    <2>4. Right(d) = Right(calls[c]) /\ Right(e) = Right(calls[c])
      BY <2>2, <2>3 DEF Right
    <2>5. ~IsReported(d) /\ ~IsReported(e)
      BY <2>2, <2>3, NoneIsNot DEF IsReported
    <2>6. CASE todo # <<>>
      <3>1. Proceeds(d)
        BY <1>2, <2>2, <2>4, <2>6 DEF Proceeds
      <3> QED BY <1>3, <2>1, <2>2, <2>3a, <2>5, <2>6, <3>1, GoesOn
    <2>7. CASE todo = <<>>
      <3>1. Proceeds(e)
        BY <1>2, <2>3, <2>4, <2>7 DEF Proceeds
      <3> QED BY <1>3, <2>1, <2>3, <2>3a, <2>5, <2>7, <3>1, GoesOn
    <2> QED BY <2>6, <2>7
  <1> QED BY <1>4, <1>5, <1>6

LEMMA CallKeeps ==
    ASSUME CallsFit, NEW c \in DOMAIN calls, NEW result \in {"nothing", "value", "raise", "await"},
           Call(c, result) \/ (result # "await" /\ HandlerEnds(c, result))
    PROVE  CallsFit' /\ Grows
  <1>1. CASE result = "await"
    <2> DEFINE d == [calls[c] EXCEPT !.place = "awaiting"]
    <2>1. calls[c].place = "running" /\ calls' = [calls EXCEPT ![c] = d]
      BY <1>1 DEF Call
    <2>2. calls[c] \in Dispatches /\ Proceeds(calls[c])
      BY CallTyped DEF CallsFit
    <2>3. /\ d \in Dispatches /\ d.how = calls[c].how /\ d.cause = calls[c].cause /\ d.place = "awaiting"
          /\ d.outcome = calls[c].outcome /\ d.todo = calls[c].todo /\ d.called = calls[c].called
          /\ d.order = calls[c].order
      BY <2>2 DEF Dispatches
    <2> HIDE DEF d
    <2>4. Proceeds(d)
      BY <2>1, <2>2, <2>3 DEF Proceeds, Right
    <2>5. IsReported(d) <=> IsReported(calls[c])
      BY <2>1, <2>3 DEF IsReported
    <2> QED BY <2>1, <2>3, <2>4, <2>5, GoesOn
  <1>2. CASE result # "await"
    <2>1. Returns(c, result) /\ calls[c].place \in {"running", "awaiting"}
      BY <1>2 DEF Call, HandlerEnds
    <2> QED BY <1>2, <2>1, ReturnsKeeps
  <1> QED BY <1>1, <1>2

LEMMA ReraiseKeeps == ASSUME CallsFit, NEW c \in DOMAIN calls, Reraise(c) PROVE CallsFit' /\ Grows
  <1>1. IsReported(calls[c])
    BY DEF Reraise, CallsFit, Proceeds, IsReported
  <1> QED BY <1>1, EndKeeps DEF Reraise

\* the dispatches go on whatever waiters there are
LEMMA StartKeeps ==
    ASSUME CallsFit, signals \in Seq(Signal), NEW c \in DOMAIN calls, Start(c)
    PROVE  CallsFit' /\ Grows /\ calls'[c].place # "created"
  <1> DEFINE group == Group(calls[c].how.event)
             order == IF calls[c].how.reverse THEN Reverse(group) ELSE group
             todo  == Kept(order, HandlersFor(calls[c].how.event, calls[c].how.condition))
  <1>1. /\ calls[c] \in Dispatches /\ Proceeds(calls[c]) /\ calls[c].place = "created"
        /\ calls[c].called = <<>> /\ calls[c].outcome = None
    BY CallTyped DEF CallsFit, Start, Proceeds
  <1>2. ~IsReported(calls[c])
    BY <1>1, NoneIsNot DEF IsReported
  <1>3. order \in Seq(Signal) /\ todo \in Seq(Signal)
    <2>1. group \in Seq(Signal)
      <3>1. \A keep : Kept(signals, keep) \in Seq(Signal)
        <4> TAKE keep
        <4>1. Kept(signals, keep) \in Seq(Signal \cap keep)
          BY KeptOf
        <4> QED BY <4>1, SeqMonotonic
      <3> QED BY <3>1 DEF Group
    <2>2. Reverse(group) \in Seq(Signal)
      <3> HIDE DEF group
      <3>1. Len(group) \in Nat /\ DOMAIN group = 1..Len(group)
        BY <2>1
      <3>2. \A i \in 1..Len(group) : group[Len(group) - i + 1] \in Signal
        <4> TAKE i \in 1..Len(group)
        <4>1. Len(group) - i + 1 \in 1..Len(group)
          BY <3>1
        <4> QED BY <2>1, <4>1, ElementOfSeq
      <3> QED BY <3>1, <3>2, IsASeq DEF Reverse
    <2>3. order \in Seq(Signal)
      BY <2>1, <2>2
    <2> HIDE DEF order
    <2>4. todo \in Seq(Signal \cap HandlersFor(calls[c].how.event, calls[c].how.condition))
      BY <2>3, KeptOf
    <2> HIDE DEF todo
    <2>5. todo \in Seq(Signal)
      BY <2>4, SeqMonotonic
    <2> QED BY <2>3, <2>5
  <1>4. \/ \E outcome \in {"NotFound", None} : calls' = End(c, outcome)
        \/ todo = <<>> /\ calls' = [End(c, None) EXCEPT ![c].order = order]
        \/ todo # <<>> /\ calls' = [calls EXCEPT ![c].place = "running", ![c].todo = todo, ![c].order = order]
        \/ Raised(c)
    BY DEF Start
  <1> DEFINE right == todo
  <1>5. \A d : d.order = order /\ d.how = calls[c].how => Right(d) = todo
    BY DEF Right
  <1> HIDE DEF order, todo
  <1>6. ASSUME NEW outcome \in {"NotFound", None}, calls' = End(c, outcome)
        PROVE  CallsFit' /\ Grows /\ calls'[c].place # "created"
    BY <1>2, <1>6, EndKeeps, NoneIsNot DEF None
  <1>7. CASE todo = <<>> /\ calls' = [End(c, None) EXCEPT ![c].order = order]
    <2> DEFINE ended == Ended(calls[c], None)
               e == [ended EXCEPT !.order = order]
    <2>1. /\ ended = [how |-> calls[c].how, cause |-> calls[c].cause, place |-> "ended", todo |-> <<>>,
                      order |-> <<>>, called |-> <<>>, outcome |-> None]
          /\ ended \in Dispatches
      BY <1>1, EndedFits
    <2>2. End(c, None) = [calls EXCEPT ![c] = ended]
      BY EndIs
    <2> HIDE DEF ended
    <2>3. calls' = [calls EXCEPT ![c] = e]
      BY <1>7, <2>2
    <2>4. /\ e \in Dispatches /\ e.how = calls[c].how /\ e.cause = calls[c].cause /\ e.place = "ended"
          /\ e.order = order /\ e.called = <<>> /\ e.outcome = None
      BY <1>3, <2>1 DEF Dispatches
    <2> HIDE DEF e
    <2>5. Proceeds(e) /\ ~IsReported(e)
      <3>1. Right(e) = <<>>
        BY <1>5, <1>7, <2>4
      <3> QED BY <2>4, <3>1, NoneIsNot DEF Proceeds, IsReported
    <2>6. calls'[c] = e
      BY <2>3
    <2> QED BY <1>2, <2>3, <2>4, <2>5, <2>6, GoesOn
  <1>8. CASE todo # <<>> /\ calls' = [calls EXCEPT ![c].place = "running", ![c].todo = todo, ![c].order = order]
    <2> DEFINE d == [calls[c] EXCEPT !.place = "running", !.todo = todo, !.order = order]
    <2>1. calls' = [calls EXCEPT ![c] = d]
      BY <1>8
    <2>2. /\ d \in Dispatches /\ d.how = calls[c].how /\ d.cause = calls[c].cause /\ d.place = "running"
          /\ d.order = order /\ d.called = <<>> /\ d.todo = todo /\ d.outcome = None
      BY <1>1, <1>3 DEF Dispatches
    <2> HIDE DEF d
    <2>3. Proceeds(d) /\ ~IsReported(d)
      <3>1. Right(d) = <<>> \o todo
        BY <1>3, <1>5, <2>2, ConcatEmptySeq
      <3> QED BY <1>8, <2>2, <3>1, NoneIsNot DEF Proceeds, IsReported
    <2>4. calls'[c] = d
      BY <2>1
    <2> QED BY <1>2, <2>1, <2>2, <2>3, <2>4, GoesOn
  <1>9. CASE Raised(c)
    BY <1>1, <1>9, RaisedKeeps
  <1> QED BY <1>4, <1>6, <1>7, <1>8, <1>9
-----------------------------------------------------------------------------
\* whom a dispatch concerns, from what is waited for
Waits(how, event, condition) == Admits(how.exclusive, how.condition, condition) /\ how.name \in {Star, event}
Concerns(d, how) == d.place # "created" /\ d.how # ReportIt /\ Waits(how, d.how.event, d.how.condition)

\* A waiter is in no deque but that of the name it waits for, and while it waits.
WaiterFits(w) ==
    /\ DOMAIN waiters[w] = DOMAIN Idle
    /\ \A n \in Names : Contains(waiting[n], w) => waiters[w].place = "waiting" /\ waiters[w].how.name = n
    /\ waiters[w].future = "pending" /\ waiters[w].owed => \A n \in Names : ~Contains(waiting[n], w)
    /\ waiters[w].future = "set" => \E c \in DOMAIN calls : Concerns(calls[c], waiters[w].how)

WaitersFit ==
    /\ waiting \in [Names -> Seq(Waiters)]
    /\ DOMAIN waiters = Waiters
    /\ \A w \in Waiters : WaiterFits(w)

SignalsInv == signals \in Seq(Signal) /\ CallsFit /\ WaitersFit

LEMMA IdleIs ==
    /\ DOMAIN Idle = {"place", "how", "future", "cancelled", "owed", "outcome"}
    /\ Idle.place = "away" /\ Idle.future = None /\ ~Idle.owed /\ Idle.how = NotYet
    /\ None \notin {"pending", "set", "cancelled"}
  BY DEF Idle, None

LEMMA ContainsKept ==
    ASSUME NEW S, NEW ws \in Seq(S), NEW keep, NEW w
    PROVE  Contains(Kept(ws, keep), w) <=> Contains(ws, w) /\ w \in keep
  <1>1. Kept(ws, keep) \in Seq(Range(ws) \cap keep)
    <2>1. ws \in Seq(Range(ws))
      BY SeqOfRange
    <2> QED BY <2>1, KeptOf
  <1>2. /\ Kept(ws, keep) \in Seq(S \cap keep)
        /\ \A i \in DOMAIN ws : ws[i] \in keep => \E k \in DOMAIN Kept(ws, keep) : Kept(ws, keep)[k] = ws[i]
    BY ONLY KeptOf, ws \in Seq(S)
  <1> DEFINE kept == Kept(ws, keep)
  <1> HIDE DEF kept
  <1>3. DOMAIN kept = 1..Len(kept) /\ DOMAIN ws = 1..Len(ws)
    BY <1>1 DEF kept
  <1>4. Contains(kept, w) => Contains(ws, w) /\ w \in keep
    BY <1>1, <1>3, ElementOfSeq DEF Contains, kept, Range
  <1>5. Contains(ws, w) /\ w \in keep => Contains(kept, w)
    BY <1>2, <1>3 DEF Contains, kept
  <1> QED BY <1>4, <1>5 DEF kept

\* What concerned a waiter still does.
LEMMA StillConcerns ==
    ASSUME Grows, NEW how, \E c \in DOMAIN calls : Concerns(calls[c], how)
    PROVE  \E c \in DOMAIN calls' : Concerns(calls'[c], how)
  <1>1. PICK c \in DOMAIN calls : Concerns(calls[c], how)
    OBVIOUS
  <1>2. /\ c \in DOMAIN calls' /\ calls'[c].how = calls[c].how
        /\ calls'[c].place # "created"
    BY <1>1 DEF Grows, Concerns
  <1> QED BY <1>1, <1>2 DEF Concerns

LEMMA SameGrows == UNCHANGED calls => Grows
  BY DEF Grows

\* What others do is nothing to a waiter, unless they put it in a deque.
LEMMA OthersFit ==
    ASSUME WaitersFit, Grows, NEW w \in Waiters, waiters'[w] = waiters[w],
           \A n \in Names : Contains(waiting'[n], w) => Contains(waiting[n], w)
    PROVE  WaiterFits(w)'
  <1>1. WaiterFits(w)
    BY DEF WaitersFit
  <1>2. waiters'[w].future = "set" => \E c \in DOMAIN calls' : Concerns(calls'[c], waiters'[w].how)
    BY <1>1, StillConcerns DEF WaiterFits
  <1> QED BY <1>1, <1>2 DEF WaiterFits

LEMMA StayWoken ==
    ASSUME WaitersFit, Grows, UNCHANGED <<waiting, waiters>> PROVE WaitersFit'
  <1>1. \A w \in Waiters : WaiterFits(w)'
    BY OthersFit
  <1> QED BY <1>1 DEF WaitersFit

LEMMA ContainsAppend ==
    ASSUME NEW S, NEW a \in Seq(S), NEW v \in S, NEW w
    PROVE  Contains(Append(a, v), w) <=> Contains(a, w) \/ w = v
  <1> DEFINE s == Append(a, v)
  <1>1. Len(a) \in Nat /\ Len(s) = Len(a) + 1 /\ s[Len(a) + 1] = v /\ \A i \in 1..Len(a) : s[i] = a[i]
    BY AppendProperties
  <1> HIDE DEF s
  <1>2. \A i \in 1..Len(s) : i \in 1..Len(a) \/ i = Len(a) + 1
    BY <1>1
  <1>3. (\A i \in 1..Len(a) : i \in 1..Len(s)) /\ Len(a) + 1 \in 1..Len(s)
    BY <1>1
  <1>4. Contains(s, w) => Contains(a, w) \/ w = v
    BY <1>1, <1>2 DEF Contains
  <1>5. Contains(a, w) \/ w = v => Contains(s, w)
    BY <1>1, <1>3 DEF Contains
  <1> QED BY <1>4, <1>5 DEF s

LEMMA ContainsConcat ==
    ASSUME NEW S, NEW a \in Seq(S), NEW b \in Seq(S), NEW w
    PROVE  Contains(a \o b, w) <=> Contains(a, w) \/ Contains(b, w)
  <1> DEFINE s == a \o b
  <1>1. /\ Len(a) \in Nat /\ Len(b) \in Nat /\ Len(s) = Len(a) + Len(b)
        /\ \A i \in 1..Len(s) : s[i] = IF i <= Len(a) THEN a[i] ELSE b[i - Len(a)]
    BY ConcatProperties, LenProperties
  <1> HIDE DEF s
  <1>2. ASSUME NEW i \in 1..Len(s), s[i] = w PROVE Contains(a, w) \/ Contains(b, w)
    <2>1. CASE i <= Len(a)
      <3>1. i \in 1..Len(a) /\ a[i] = w
        BY <1>1, <1>2, <2>1
      <3> QED BY <3>1 DEF Contains
    <2>2. CASE ~(i <= Len(a))
      <3>1. i - Len(a) \in 1..Len(b) /\ b[i - Len(a)] = w
        BY <1>1, <1>2, <2>2
      <3> QED BY <3>1 DEF Contains
    <2> QED BY <2>1, <2>2
  <1>3. ASSUME NEW i \in 1..Len(a), a[i] = w PROVE Contains(s, w)
    <2>1. i \in 1..Len(s) /\ s[i] = w
      BY <1>1, <1>3
    <2> QED BY <2>1 DEF Contains
  <1>4. ASSUME NEW i \in 1..Len(b), b[i] = w PROVE Contains(s, w)
    <2>1. i + Len(a) \in 1..Len(s) /\ ~(i + Len(a) <= Len(a)) /\ (i + Len(a)) - Len(a) = i
      BY <1>1
    <2>2. s[i + Len(a)] = w
      BY <1>1, <1>4, <2>1
    <2> QED BY <2>1, <2>2 DEF Contains
  <1>5. Contains(s, w) <=> Contains(a, w) \/ Contains(b, w)
    BY <1>2, <1>3, <1>4 DEF Contains
  <1> QED BY <1>5 DEF s

LEMMA ContainsFew ==
    /\ \A w : ~Contains(<<>>, w)
    /\ \A v, w : Contains(<<v>>, w) <=> w = v
  BY DEF Contains

LEMMA ContainsPrefix ==
    ASSUME NEW S, NEW ws \in Seq(S), NEW k \in 0..Len(ws), NEW w, Contains(SubSeq(ws, 1, k), w)
    PROVE  Contains(ws, w)
  <1>1. Len(ws) \in Nat
    BY LenProperties
  <1>2. Len(SubSeq(ws, 1, k)) = k /\ \A i \in 1..k : SubSeq(ws, 1, k)[i] = ws[i]
    BY <1>1
  <1> QED BY <1>1, <1>2 DEF Contains
-----------------------------------------------------------------------------
LEMMA AddSignalKeeps == ASSUME SignalsInv, NEW s \in Added, AddSignal(s) PROVE SignalsInv'
  <1>1. signals' \in Seq(Signal)
    <2>1. s \in Signal
      BY SignalRouterAssumption
    <2> QED BY <2>1, AppendProperties DEF AddSignal, SignalsInv
  <1>2. CallsFit' /\ Grows
    BY SameGrows DEF AddSignal, SignalsInv, CallsFit, CausedBy
  <1>3. /\ waiting' \in [Names -> Seq(Waiters)]
        /\ \A w, n : n \in Names => ~Contains(waiting'[n], w)
    <2>1. waiting' = [n \in Names |-> <<>>]
      BY DEF AddSignal, Refinalize
    <2> QED BY <2>1, ContainsFew
  <1>4. waiters' = waiters
    BY DEF AddSignal
  <1>5. \A w \in Waiters : WaiterFits(w)'
    BY <1>2, <1>3, <1>4, OthersFit DEF SignalsInv
  <1> QED BY <1>1, <1>2, <1>3, <1>4, <1>5 DEF SignalsInv, WaitersFit

LEMMA AwaitKeeps == ASSUME SignalsInv, NEW w \in Waiters, NEW how \in Awaited[w], Await(w, how) PROVE SignalsInv'
  <1> DEFINE new == [Idle EXCEPT !.place = "waiting", !.how = how, !.future = "pending"]
  <1>1. how.name \in Events \cup {Star} /\ how.name \in Names
    BY SignalRouterAssumption DEF Names
  <1>2. CallsFit' /\ Grows
    BY SameGrows DEF Await, SignalsInv, CallsFit, CausedBy
  <1>3. signals' \in Seq(Signal)
    <2>1. [name |-> how.name, trigger |-> FALSE, requirements |-> None, exclusive |-> TRUE] \in Signal
      BY <1>1 DEF Signal
    <2> QED BY <2>1, AppendProperties DEF Await, SignalsInv
  <1>4. /\ waiting' \in [Names -> Seq(Waiters)]
        /\ \A n \in Names : \A u \in Waiters : Contains(waiting'[n], u) =>
              Contains(waiting[n], u) \/ (u = w /\ n = how.name)
    <2>1. CASE Known(how.name)
      <3>1. waiting' = [waiting EXCEPT ![how.name] = Append(@, w)]
        BY <2>1 DEF Await
      <3>2. waiting \in [Names -> Seq(Waiters)]
        BY DEF SignalsInv, WaitersFit
      <3>3. \A ws \in Seq(Waiters) : Append(ws, w) \in Seq(Waiters)
        BY AppendProperties
      <3>4. ASSUME NEW n \in Names, NEW u \in Waiters, Contains(waiting'[n], u)
            PROVE  Contains(waiting[n], u) \/ (u = w /\ n = how.name)
        <4>1. CASE n = how.name
          <5>1. Contains(Append(waiting[n], w), u) /\ waiting[n] \in Seq(Waiters)
            BY <3>1, <3>2, <3>4, <4>1
          <5> QED BY <4>1, <5>1, ContainsAppend
        <4>2. CASE n # how.name
          BY <3>1, <3>2, <3>4, <4>2
        <4> QED BY <4>1, <4>2
      <3> QED BY <3>1, <3>2, <3>3, <3>4, <1>1
    <2>2. CASE ~Known(how.name)
      <3>1. waiting' = [n \in Names |-> IF n = how.name THEN <<w>> ELSE <<>>]
        BY <2>2 DEF Await
      <3> QED BY <3>1, ContainsFew
    <2> QED BY <2>1, <2>2
  <1>5. /\ waiters[w] = Idle /\ waiters' = [waiters EXCEPT ![w] = new] /\ DOMAIN waiters = Waiters
        /\ WaiterFits(w)
    BY DEF Await, SignalsInv, WaitersFit
  <1>6. ASSUME NEW u \in Waiters, u # w PROVE WaiterFits(u)'
    BY <1>2, <1>4, <1>5, <1>6, OthersFit DEF SignalsInv
  <1>7. WaiterFits(w)'
    <2>1. \A n \in Names : ~Contains(waiting[n], w)
      BY <1>5, IdleIs DEF WaiterFits
    <2>2. waiters'[w] = new
      BY <1>5
    <2>3. DOMAIN new = DOMAIN Idle /\ new.place = "waiting" /\ new.how.name = how.name /\ new.future = "pending"
          /\ ~new.owed
      BY IdleIs
    <2> HIDE DEF new
    <2> QED BY <1>4, <2>1, <2>2, <2>3 DEF WaiterFits
  <1> QED BY <1>2, <1>3, <1>4, <1>5, <1>6, <1>7 DEF SignalsInv, WaitersFit

LEMMA TimeoutKeeps == ASSUME SignalsInv, NEW w \in Waiters, Timeout(w) PROVE SignalsInv'
  <1> DEFINE new == [waiters[w] EXCEPT !.cancelled = TRUE,
                                       !.future = IF @ = "pending" THEN "cancelled" ELSE @]
  <1>1. signals' = signals /\ waiting' = waiting /\ calls' = calls
    BY DEF Timeout
  <1>2. CallsFit' /\ Grows
    BY <1>1, SameGrows DEF SignalsInv, CallsFit, CausedBy
  <1>3. waiters' = [waiters EXCEPT ![w] = new] /\ DOMAIN waiters = Waiters /\ WaiterFits(w)
    BY DEF Timeout, SignalsInv, WaitersFit
  <1>4. ASSUME NEW u \in Waiters, u # w PROVE WaiterFits(u)'
    BY <1>1, <1>2, <1>3, <1>4, OthersFit DEF SignalsInv
  <1>5. WaiterFits(w)'
    <2>1. waiters'[w] = new
      BY <1>3
    <2>2. /\ DOMAIN new = DOMAIN Idle /\ new.place = waiters[w].place /\ new.how = waiters[w].how
          /\ new.future # "pending" /\ (new.future = "set" => waiters[w].future = "set")
      BY <1>3, IdleIs DEF WaiterFits
    <2> HIDE DEF new
    <2> QED BY <1>1, <1>3, <2>1, <2>2 DEF WaiterFits
  <1> QED BY <1>1, <1>2, <1>3, <1>4, <1>5 DEF SignalsInv, WaitersFit

LEMMA ResumeKeeps == ASSUME SignalsInv, NEW w \in Waiters, Resume(w) PROVE SignalsInv'
  <1> DEFINE name == waiters[w].how.name
  <1>1. signals' = signals /\ waiting' = [waiting EXCEPT ![name] = Kept(@, Waiters \ {w})] /\ calls' = calls
    BY DEF Resume
  <1>2. CallsFit' /\ Grows
    BY <1>1, SameGrows DEF SignalsInv, CallsFit, CausedBy
  <1>3. PICK outcome : waiters' = [waiters EXCEPT ![w] = [Idle EXCEPT !.outcome = outcome]]
    BY DEF Resume
  <1>4. DOMAIN waiters = Waiters /\ WaiterFits(w) /\ waiting \in [Names -> Seq(Waiters)]
    BY DEF SignalsInv, WaitersFit
  <1>5. /\ waiting' \in [Names -> Seq(Waiters)]
        /\ \A n \in Names : \A u \in Waiters : Contains(waiting'[n], u) =>
              Contains(waiting[n], u) /\ (n = name => u # w)
    <2>1. \A ws \in Seq(Waiters) : Kept(ws, Waiters \ {w}) \in Seq(Waiters)
      <3> TAKE ws \in Seq(Waiters)
      <3>1. Kept(ws, Waiters \ {w}) \in Seq(Waiters \cap (Waiters \ {w}))
        BY KeptOf
      <3> QED BY <3>1, SeqMonotonic
    <2>2. ASSUME NEW n \in Names, NEW u \in Waiters, Contains(waiting'[n], u)
          PROVE  Contains(waiting[n], u) /\ (n = name => u # w)
      <3>1. CASE n = name
        <4>1. Contains(Kept(waiting[n], Waiters \ {w}), u) /\ waiting[n] \in Seq(Waiters)
          BY <1>1, <1>4, <2>2, <3>1
        <4> QED BY <4>1, ContainsKept
      <3>2. CASE n # name
        BY <1>1, <1>4, <2>2, <3>2
      <3> QED BY <3>1, <3>2
    <2> HIDE DEF name
    <2> QED BY <1>1, <1>4, <2>1, <2>2
  <1>6. ASSUME NEW u \in Waiters, u # w PROVE WaiterFits(u)'
    BY <1>2, <1>3, <1>4, <1>5, <1>6, OthersFit DEF SignalsInv
  <1>7. WaiterFits(w)'
    <2>1. \A n \in Names : ~Contains(waiting'[n], w)
      BY <1>4, <1>5 DEF WaiterFits
    <2>2. waiters'[w] = [Idle EXCEPT !.outcome = outcome]
      BY <1>3, <1>4
    <2>3. DOMAIN waiters'[w] = DOMAIN Idle /\ waiters'[w].future = None
      BY <2>2, IdleIs
    <2> QED BY <2>1, <2>3, IdleIs DEF WaiterFits
  <1> QED BY <1>1, <1>2, <1>3, <1>4, <1>5, <1>6, <1>7 DEF SignalsInv, WaitersFit

LEMMA DispatchKeeps == ASSUME SignalsInv, NEW how \in Sent, Dispatch(how) PROVE SignalsInv'
  BY IsMade, StayWoken DEF Dispatch, SignalsInv

LEMMA HandlersKeep ==
    ASSUME SignalsInv, NEW c \in DOMAIN calls,
           \/ Reraise(c) \/ Call(c, "await")
           \/ \E result \in {"nothing", "value", "raise"} : Call(c, result) \/ HandlerEnds(c, result)
    PROVE  SignalsInv'
  <1>1. CallsFit' /\ Grows
    BY ReraiseKeeps, CallKeeps DEF SignalsInv
  <1>2. UNCHANGED <<signals, waiting, waiters>>
    BY DEF Reraise, Call, HandlerEnds
  <1> QED BY <1>1, <1>2, StayWoken DEF SignalsInv

\* All those in a deque whom a dispatch concerns are woken, and no others.
LEMMA ConcernedAre ==
    ASSUME WaitersFit, NEW c, calls[c] \in Dispatches, NEW ws \in Concerned(c)
    PROVE  /\ ws \in Seq(Waiters)
           /\ \A w \in Waiters : Contains(ws, w) =>
                 calls[c].how # ReportIt /\ Waits(waiters[w].how, calls[c].how.event, calls[c].how.condition)
           /\ calls[c].how.event # Report => \A w \in Waiters : \A n \in Names :
                 /\ Contains(waiting[n], w)
                 /\ Waits(waiters[w].how, calls[c].how.event, calls[c].how.condition)
                 => Contains(ws, w)
  <1> DEFINE event == calls[c].how.event
             condition == calls[c].how.condition
             keep == WaitersFor(event, condition)
             named == Kept(waiting[event], keep)
             stars == Kept(waiting[Star], keep)
  <1>1. CASE event = Report
    <2>1. ws = <<>>
      BY <1>1 DEF Concerned
    <2> QED BY <1>1, <2>1, ContainsFew
  <1>2. CASE event # Report
    <2>1. calls[c].how # ReportIt /\ event \in Events
      <3>1. calls[c].how \in Sent \cup {ReportIt}
        BY DEF Dispatches
      <3>2. calls[c].how # ReportIt
        BY <1>2 DEF ReportIt
      <3> QED BY <3>1, <3>2, SentFits
    <2>2. ws \in {named \o stars, stars \o named}
      BY <1>2 DEF Concerned
    <2>3. \A w \in Waiters : w \in keep <=> Waits(waiters[w].how, event, condition)
      BY DEF WaitersFor, Matches, Waits
    <2> HIDE DEF keep
    <2>4. waiting[event] \in Seq(Waiters) /\ waiting[Star] \in Seq(Waiters)
      BY <2>1 DEF WaitersFit, Names
    <2>5. \A ns \in Seq(Waiters) : Kept(ns, keep) \in Seq(Waiters)
      <3> TAKE ns \in Seq(Waiters)
      <3>1. Kept(ns, keep) \in Seq(Waiters \cap keep)
        BY KeptOf
      <3> QED BY <3>1, SeqMonotonic
    <2>6. named \in Seq(Waiters) /\ stars \in Seq(Waiters)
      BY <2>4, <2>5
    <2>7. \A w \in Waiters :
            /\ Contains(named, w) <=> Contains(waiting[event], w) /\ w \in keep
            /\ Contains(stars, w) <=> Contains(waiting[Star], w) /\ w \in keep
      BY <2>4, ContainsKept
    <2> HIDE DEF named, stars
    <2>8. \A w \in Waiters : Contains(ws, w) <=> Contains(named, w) \/ Contains(stars, w)
      <3> TAKE w \in Waiters
      <3>1. /\ Contains(named \o stars, w) <=> Contains(named, w) \/ Contains(stars, w)
            /\ Contains(stars \o named, w) <=> Contains(stars, w) \/ Contains(named, w)
        BY <2>6, ContainsConcat
      <3> QED BY <2>2, <3>1
    <2>9. ws \in Seq(Waiters)
      BY <2>2, <2>6, ConcatProperties
    <2>10. ASSUME NEW w \in Waiters, NEW n \in Names, Contains(waiting[n], w), Waits(waiters[w].how, event, condition)
           PROVE  Contains(ws, w)
      <3>1. waiters[w].how.name = n
        BY <2>10 DEF WaitersFit, WaiterFits
      <3>2. n \in {Star, event}
        BY <2>10, <3>1 DEF Waits
      <3>3. w \in keep
        BY <2>3, <2>10
      <3>4. CASE n = Star
        BY <2>7, <2>8, <2>10, <3>3, <3>4
      <3>5. CASE n = event
        BY <2>7, <2>8, <2>10, <3>3, <3>5
      <3> QED BY <3>2, <3>4, <3>5
    <2>11. ASSUME NEW w \in Waiters, Contains(ws, w) PROVE Waits(waiters[w].how, event, condition)
      BY <2>3, <2>7, <2>8, <2>11
    <2> QED BY <2>1, <2>9, <2>10, <2>11
  <1> QED BY <1>1, <1>2

\* Those who are woken have been concerned by a dispatch, which has started.
LEMMA WokenFit ==
    ASSUME WaitersFit, Grows, UNCHANGED waiting, NEW c \in DOMAIN calls, calls'[c].place # "created",
           NEW ws, NEW w \in Waiters,
           Contains(ws, w) =>
             calls[c].how # ReportIt /\ Waits(waiters[w].how, calls[c].how.event, calls[c].how.condition),
           waiters'[w] = Woken(ws)[w]
    PROVE  WaiterFits(w)'
  <1>1. CASE Contains(ws, w)
    <2>1. waiters'[w] = [waiters[w] EXCEPT !.future = "set"]
      BY <1>1 DEF Woken
    <2>2. WaiterFits(w)
      BY DEF WaitersFit
    <2>3. /\ DOMAIN waiters'[w] = DOMAIN Idle /\ waiters'[w].how = waiters[w].how
          /\ waiters'[w].place = waiters[w].place /\ waiters'[w].future = "set"
      BY <2>1, <2>2, IdleIs DEF WaiterFits
    <2>4. c \in DOMAIN calls' /\ Concerns(calls'[c], waiters'[w].how)
      BY <1>1, <2>3 DEF Grows, Concerns
    <2> QED BY <2>2, <2>3, <2>4 DEF WaiterFits
  <1>2. CASE ~Contains(ws, w)
    <2>1. waiters'[w] = waiters[w]
      BY <1>2 DEF Woken
    <2> QED BY <2>1, OthersFit
  <1> QED BY <1>1, <1>2

\* And those who should have been woken and were not are in no deque.
LEMMA OwedFit ==
    ASSUME WaitersFit, Grows, UNCHANGED waiting, NEW c \in DOMAIN calls, calls'[c].place # "created",
           calls[c] \in Dispatches, NEW ws \in Concerned(c), NEW w \in Waiters,
           waiters'[w] = Owed(c, Woken(ws))[w]
    PROVE  WaiterFits(w)'
  <1> DEFINE woken == Woken(ws)[w]
             owed == [woken EXCEPT !.owed = @ \/ Matches(w, calls[c].how.event, calls[c].how.condition)]
  <1>1. Contains(ws, w) =>
          calls[c].how # ReportIt /\ Waits(waiters[w].how, calls[c].how.event, calls[c].how.condition)
    BY ConcernedAre
  <1>2. CASE waiters[w].future # "pending" \/ calls[c].how.event = Report
    <2>1. waiters'[w] = Woken(ws)[w]
      BY <1>2 DEF Owed
    <2> QED BY <1>1, <2>1, WokenFit
  <1>3. CASE ~(waiters[w].future # "pending" \/ calls[c].how.event = Report)
    <2>1. waiters'[w] = owed
      BY <1>3 DEF Owed
    <2>2. WaiterFits(w)
      BY DEF WaitersFit
    <2>3. CASE Contains(ws, w)
      <3>1. woken = [waiters[w] EXCEPT !.future = "set"]
        BY <2>3 DEF Woken
      <3> HIDE DEF woken
      <3>2. /\ DOMAIN waiters'[w] = DOMAIN Idle /\ waiters'[w].how = waiters[w].how
            /\ waiters'[w].place = waiters[w].place /\ waiters'[w].future = "set"
        BY <2>1, <2>2, <3>1, IdleIs DEF WaiterFits
      <3>3. c \in DOMAIN calls' /\ Concerns(calls'[c], waiters'[w].how)
        BY <1>1, <2>3, <3>2 DEF Grows, Concerns
      <3> QED BY <2>2, <3>2, <3>3 DEF WaiterFits
    <2>4. CASE ~Contains(ws, w)
      <3>1. woken = waiters[w]
        BY <2>4 DEF Woken
      <3>2. /\ DOMAIN waiters'[w] = DOMAIN Idle /\ waiters'[w].how = waiters[w].how
            /\ waiters'[w].place = waiters[w].place /\ waiters'[w].future = "pending"
            /\ waiters'[w].owed = (waiters[w].owed \/ Matches(w, calls[c].how.event, calls[c].how.condition))
        <4> HIDE DEF woken
        <4> QED BY <1>3, <2>1, <2>2, <3>1, IdleIs DEF WaiterFits
      <3>3. Matches(w, calls[c].how.event, calls[c].how.condition) => \A n \in Names : ~Contains(waiting[n], w)
        <4>1. Matches(w, calls[c].how.event, calls[c].how.condition) =>
                 Waits(waiters[w].how, calls[c].how.event, calls[c].how.condition)
          BY DEF Matches, Waits
        <4> QED BY <1>3, <2>4, <4>1, ConcernedAre
      <3>4. waiters[w].owed => \A n \in Names : ~Contains(waiting[n], w)
        BY <1>3, <2>2 DEF WaiterFits
      <3> QED BY <2>2, <3>2, <3>3, <3>4 DEF WaiterFits
    <2> QED BY <2>3, <2>4
  <1> QED BY <1>2, <1>3

LEMMA StartKeepsAll == ASSUME SignalsInv, NEW c \in DOMAIN calls, Start(c) PROVE SignalsInv'
  <1>1. CallsFit' /\ Grows /\ calls'[c].place # "created"
    BY StartKeeps DEF SignalsInv
  <1>2. signals' = signals /\ waiting' = waiting
    BY DEF Start
  <1>3. calls[c] \in Dispatches /\ WaitersFit
    BY CallTyped DEF SignalsInv
  <1>4. \/ waiters' = waiters
        \/ \E ws \in Concerned(c) :
             \/ waiters' = Owed(c, Woken(ws))
             \/ LET done == {i \in DOMAIN ws : waiters[ws[i]].future # "pending"}
                IN  done # {} /\ waiters' = Woken(SubSeq(ws, 1, (CHOOSE i \in done : \A j \in done : i <= j) - 1))
    BY DEF Start
  <1>5. CASE waiters' = waiters
    BY <1>1, <1>2, <1>3, <1>5, StayWoken DEF SignalsInv
  <1>6. ASSUME NEW ws \in Concerned(c), waiters' = Owed(c, Woken(ws)) PROVE WaitersFit'
    <2>1. DOMAIN waiters' = Waiters
      BY <1>6 DEF Owed
    <2>2. \A w \in Waiters : WaiterFits(w)'
      BY <1>1, <1>2, <1>3, <1>6, OwedFit
    <2> QED BY <1>2, <1>3, <2>1, <2>2 DEF WaitersFit
  <1>7. ASSUME NEW ws \in Concerned(c), NEW done, done = {i \in DOMAIN ws : waiters[ws[i]].future # "pending"},
               done # {}, waiters' = Woken(SubSeq(ws, 1, (CHOOSE i \in done : \A j \in done : i <= j) - 1))
        PROVE  WaitersFit'
    <2> DEFINE first == CHOOSE i \in done : \A j \in done : i <= j
               prefix == SubSeq(ws, 1, first - 1)
    <2>1. ws \in Seq(Waiters)
      BY <1>3, ConcernedAre
    <2>2. done \subseteq 1..Len(ws) /\ Len(ws) \in Nat
      BY <1>7, <2>1
    <2>3. first \in done
      <3>1. done \subseteq Nat
        BY <2>2
      <3>2. \E i \in done : \A j \in done : i <= j
        BY <1>7, <3>1, Least
      <3> QED BY <3>2
    <2> HIDE DEF first
    <2>4. first - 1 \in 0..Len(ws)
      BY <2>2, <2>3
    <2>5. \A w \in Waiters : Contains(prefix, w) =>
             calls[c].how # ReportIt /\ Waits(waiters[w].how, calls[c].how.event, calls[c].how.condition)
      BY <1>3, <2>1, <2>4, ContainsPrefix, ConcernedAre
    <2>6. waiters' = Woken(prefix)
      BY <1>7 DEF first
    <2> HIDE DEF prefix
    <2>7. DOMAIN waiters' = Waiters
      BY <2>6 DEF Woken
    <2>8. \A w \in Waiters : WaiterFits(w)'
      BY <1>1, <1>2, <1>3, <2>5, <2>6, WokenFit
    <2> QED BY <1>2, <1>3, <2>7, <2>8 DEF WaitersFit
  <1>8. WaitersFit'
    BY <1>4, <1>5, <1>6, <1>7, <1>1, <1>2, <1>3, StayWoken
  <1> QED BY <1>1, <1>2, <1>8 DEF SignalsInv

LEMMA SignalsStart == SignalInit => SignalsInv
  <1> SUFFICES ASSUME SignalInit PROVE SignalsInv
    OBVIOUS
  <1>1. signals \in Seq(Signal)
    BY SignalRouterAssumption DEF SignalInit
  <1>2. CallsFit
    BY DEF SignalInit, SignalsAtRest, CallsFit
  <1>3. WaitersFit
    <2>1. \A n \in Names : \A w : ~Contains(waiting[n], w)
      BY ContainsFew DEF SignalInit, SignalsAtRest
    <2>2. \A w \in Waiters : WaiterFits(w)
      BY <2>1, IdleIs DEF SignalInit, SignalsAtRest, WaiterFits
    <2> QED BY <2>2 DEF SignalInit, SignalsAtRest, WaitersFit
  <1> QED BY <1>1, <1>2, <1>3 DEF SignalsInv

LEMMA SignalsKept == SignalsInv /\ [SignalNext]_signal_vars => SignalsInv'
  <1> SUFFICES ASSUME SignalsInv, [SignalNext]_signal_vars PROVE SignalsInv'
    OBVIOUS
  <1>1. CASE UNCHANGED signal_vars
    <2>1. UNCHANGED <<signals, waiting, waiters, calls>>
      BY <1>1 DEF signal_vars
    <2>2. CallsFit'
      BY <2>1 DEF SignalsInv, CallsFit, CausedBy
    <2> QED BY <2>1, <2>2, SameGrows, StayWoken DEF SignalsInv
  <1>2. CASE Scheduled
    BY <1>2, TimeoutKeeps, ResumeKeeps, StartKeepsAll, HandlersKeep DEF Scheduled
  <1> QED BY <1>1, <1>2, AddSignalKeeps, AwaitKeeps, DispatchKeeps DEF SignalNext

LEMMA InvDispatched == SignalsInv => Dispatched
  <1> SUFFICES ASSUME SignalsInv PROVE Dispatched
    OBVIOUS
  <1>1. DispatchedInOrder
    BY DEF SignalsInv, CallsFit, Proceeds, IsReported, CausedBy, Right, DispatchedInOrder
  <1>2. WaitersWoken
    BY DEF SignalsInv, WaitersFit, WaiterFits, Concerns, Waits, Matches, WaitersWoken
  <1> QED BY <1>1, <1>2 DEF Dispatched

\* Whatever signals there are and are added, whoever awaits what and however long, and whatever
\* the handlers do: a dispatch calls the handlers of its event, each once and in their order, up
\* to the first that returns a value or raises, which is reported once; and it wakes those who
\* await the event, unless the router has been finalized since.
\* (SignalRouter._dispatch, SignalRouter.dispatch, Sanic.event, SignalWaiter)
THEOREM DispatchReaches == SignalSpec => []Dispatched
  BY SignalsStart, SignalsKept, InvDispatched, PTL DEF SignalSpec
-----------------------------------------------------------------------------
(* Files that are written while they are served *)

\* the version that is there, and what was said of it so far
Now == file.version

ServingFits(r) ==
    /\ DOMAIN r = DOMAIN NoServing
    /\ r.stats \in 0..Now /\ r.last_modified \in 0..Now
    /\ r.range \in Ranges \cup {NoRange} /\ r.content_range \in Ranges \cup {NoRange}
    /\ HasRange(r) => r.stats # 0 /\ RangeOf(r).start <= RangeOf(r).end
    /\ r.since # Missing => r.since = copy.last_modified /\ r.target = "file"

\* what has been read of a stream: of one version, unless the file has changed meanwhile
StreamFits(r) ==
    IF HasRange(r)
    THEN r.stats = Now =>
            /\ r.position \in Int /\ RangeOf(r).start <= r.position
            /\ r.position = RangeOf(r).start \/ r.position <= Sizes[Now]
            /\ r.body = Span(Now, RangeOf(r).start, r.position)
            /\ r.to_send = RangeOf(r).end + 1 - r.position /\ r.to_send > -ChunkSize
    ELSE r.last_modified = Now => r.position \in 0..Sizes[Now] /\ r.body = Span(Now, 0, r.position)

\* the open file holds no earlier version than was there when it was looked at
OpenFits(r) ==
    IF r.pc = "read"
    THEN /\ handle = Missing \/ handle \in 1..Now
         /\ handle # Missing => r.stats <= handle /\ r.last_modified <= handle
         /\ HasRange(r) => RangeOf(r).start >= 0
         /\ IF r.streams THEN StreamFits(r)
            ELSE HasRange(r) => r.position = RangeOf(r).start /\ r.to_send = RangeOf(r).size
    ELSE handle = 0

WholeFits(r) ==
    r.pc = "end" /\ r.target = "file" /\ ~r.head /\ r.status = 200 /\ r.last_modified = Now =>
        r.body = Content(Now)

RangeFits(r) ==
    r.status = 206 /\ r.stats = Now =>
        LET announced == Span(Now, RangeOf(r).start, RangeOf(r).end + 1)
        IN  /\ IsPrefix(announced, r.body)
            /\ Len(r.body) - Len(announced) < (IF r.streams THEN ChunkSize ELSE 1)

Served(r) ==
    /\ ServingFits(r) /\ OpenFits(r)
    /\ r.pc # "end" => r.status = 0
    /\ r.pc \notin {"read", "end"} => r.body = <<>> /\ r.position = 0
    /\ r.pc \in {"stat", "size"} => ~HasRange(r)
    /\ r.status = 304 => copy.body = Content(r.stats)
    /\ WholeFits(r) /\ RangeFits(r)

CopyFits ==
    /\ DOMAIN copy = {"body", "last_modified"} /\ copy.last_modified \in 0..Now
    /\ copy.last_modified = Now => copy.body = Content(Now)

FileFits == DOMAIN file = {"version", "present"} /\ Now \in 1..Len(Sizes)

StaticInv == FileFits /\ CopyFits /\ Served(serving)

LEMMA FieldsOfServing ==
    DOMAIN NoServing = {"pc", "target", "head", "slash", "since", "range", "stats", "last_modified",
                        "content_length", "content_range", "streams", "in_directory", "position", "to_send",
                        "body", "status"}
  BY DEF NoServing

LEMMA SizesAre ==
    ASSUME FileFits
    PROVE  /\ Now \in Nat /\ Now # 0 /\ Sizes[Now] \in Nat
           /\ \A v \in 0..Now : v # 0 => v \in 1..Len(Sizes) /\ Sizes[v] \in Nat
  <1>1. Sizes \in Seq(Nat) /\ Len(Sizes) \in Nat
    BY StaticAssumption DEF StaticAssumption
  <1> QED BY <1>1, ElementOfSeq DEF FileFits

LEMMA RangeIs ==
    ASSUME FileFits, NEW r, ServingFits(r), HasRange(r)
    PROVE  /\ RangeOf(r).start \in Int /\ RangeOf(r).end \in Int
           /\ RangeOf(r).size = RangeOf(r).end - RangeOf(r).start + 1
           /\ RangeOf(r).start <= RangeOf(r).end
  <1>1. r.content_range \in [start : Int, end : Int]
    BY StaticAssumption DEF StaticAssumption, ServingFits, HasRange
  <1>2. Sizes[r.stats] \in Nat
    BY SizesAre DEF ServingFits
  <1>3. RangeOf(r).start <= RangeOf(r).end
    BY DEF ServingFits
  <1>4. RangeOf(r).start \in Int /\ RangeOf(r).end \in Int
    BY <1>1, <1>2 DEF RangeOf, ContentRange
  <1>5. RangeOf(r).size = RangeOf(r).end - RangeOf(r).start + 1
    BY DEF RangeOf, ContentRange
  <1> QED BY <1>3, <1>4, <1>5

Pairs == {<<v, i>> : v \in Nat, i \in Int}
Reach(v, from, to) == IF to < Sizes[v] THEN to - from ELSE Sizes[v] - from

\* What a span holds: nothing when it begins beyond its end.
LEMMA SpanIs ==
    ASSUME NEW v \in Nat, Sizes[v] \in Nat, NEW from \in Nat, NEW to \in Int
    PROVE  /\ Span(v, from, to) \in Seq(Pairs) /\ Len(Span(v, from, to)) \in Nat
           /\ Reach(v, from, to) >= 0 => Len(Span(v, from, to)) = Reach(v, from, to)
           /\ Reach(v, from, to) <= 0 => Span(v, from, to) = <<>> /\ Len(Span(v, from, to)) = 0
           /\ \A i \in 1..Len(Span(v, from, to)) : Span(v, from, to)[i] = <<v, from + i>>
  <1> DEFINE n == Reach(v, from, to)
             len == IF n < 0 THEN 0 ELSE n
             s == Span(v, from, to)
  <1>1. n \in Int /\ len \in Nat /\ 1..n = 1..len /\ (n <= 0 => len = 0) /\ (n >= 0 => len = n)
    BY DEF Reach
  <1>2. s = [i \in 1..n |-> <<v, from + i>>]
    BY DEF Span, Reach
  <1> HIDE DEF n, len, s
  <1>3. s = [i \in 1..len |-> <<v, from + i>>]
    BY <1>1, <1>2
  <1>4. \A i \in 1..len : <<v, from + i>> \in Pairs
    BY <1>1 DEF Pairs
  <1>5. s \in Seq(Pairs)
    <2>1. s \in [1..len -> Pairs]
      BY <1>3, <1>4
    <2> QED BY <1>1, <2>1
  <1>6. Len(s) = len /\ \A i \in 1..len : s[i] = <<v, from + i>>
    BY <1>1, <1>3, <1>5
  <1>7. n <= 0 => s = <<>>
    BY <1>1, <1>5, <1>6, EmptySeq
  <1> QED BY <1>1, <1>5, <1>6, <1>7 DEF n, s

\* One span after another is the span of both.
LEMMA SpansJoin ==
    ASSUME NEW v \in Nat, Sizes[v] \in Nat, NEW a \in Nat, NEW b \in Nat, NEW c \in Nat,
           a <= b, b <= c, c <= Sizes[v]
    PROVE  Span(v, a, b) \o Span(v, b, c) = Span(v, a, c)
  <1> DEFINE S == Pairs
             ab == Span(v, a, b)
             bc == Span(v, b, c)
             ac == Span(v, a, c)
  <1>1. /\ ab \in Seq(S) /\ Len(ab) = b - a /\ \A i \in 1..(b - a) : ab[i] = <<v, a + i>>
        /\ bc \in Seq(S) /\ Len(bc) = c - b /\ \A i \in 1..(c - b) : bc[i] = <<v, b + i>>
        /\ ac \in Seq(S) /\ Len(ac) = c - a /\ \A i \in 1..(c - a) : ac[i] = <<v, a + i>>
    <2>0. b \in Int /\ c \in Int
      OBVIOUS
    <2>1. a <= c /\ b <= Sizes[v]
      OBVIOUS
    <2>2. Reach(v, a, b) = b - a /\ Reach(v, b, c) = c - b /\ Reach(v, a, c) = c - a
      BY <2>1 DEF Reach
    <2>3. b - a >= 0 /\ c - b >= 0 /\ c - a >= 0
      BY <2>1
    <2>4. ab \in Seq(S) /\ Len(ab) = b - a /\ \A i \in 1..(b - a) : ab[i] = <<v, a + i>>
      <3>0. Reach(v, a, b) >= 0 /\ (Reach(v, a, b) >= 0 => Len(ab) = Reach(v, a, b))
        <4>1. Reach(v, a, b) >= 0
          BY <2>2, <2>3
        <4> QED BY <2>0, <4>1, SpanIs
      <3>1. Len(ab) = b - a
        BY <2>2, <3>0
      <3>2. ab \in Seq(S) /\ \A i \in 1..Len(ab) : ab[i] = <<v, a + i>>
        BY <2>0, SpanIs
      <3> HIDE DEF ab
      <3> QED BY <3>1, <3>2
    <2>5. bc \in Seq(S) /\ Len(bc) = c - b /\ \A i \in 1..(c - b) : bc[i] = <<v, b + i>>
      <3>0. Reach(v, b, c) >= 0 /\ (Reach(v, b, c) >= 0 => Len(bc) = Reach(v, b, c))
        <4>1. Reach(v, b, c) >= 0
          BY <2>2, <2>3
        <4> QED BY <2>0, <4>1, SpanIs
      <3>1. Len(bc) = c - b
        BY <2>2, <3>0
      <3>2. bc \in Seq(S) /\ \A i \in 1..Len(bc) : bc[i] = <<v, b + i>>
        BY <2>0, SpanIs
      <3> HIDE DEF bc
      <3> QED BY <3>1, <3>2
    <2>6. ac \in Seq(S) /\ Len(ac) = c - a /\ \A i \in 1..(c - a) : ac[i] = <<v, a + i>>
      <3>0. Reach(v, a, c) >= 0 /\ (Reach(v, a, c) >= 0 => Len(ac) = Reach(v, a, c))
        <4>1. Reach(v, a, c) >= 0
          BY <2>2, <2>3
        <4> QED BY <2>0, <4>1, SpanIs
      <3>1. Len(ac) = c - a
        BY <2>2, <3>0
      <3>2. ac \in Seq(S) /\ \A i \in 1..Len(ac) : ac[i] = <<v, a + i>>
        BY <2>0, SpanIs
      <3> HIDE DEF ac
      <3> QED BY <3>1, <3>2
    <2> QED BY <2>4, <2>5, <2>6
  <1> HIDE DEF ab, bc, ac, S
  <1>2. /\ ab \o bc \in Seq(S) /\ Len(ab \o bc) = c - a
        /\ \A i \in 1..(c - a) : (ab \o bc)[i] = IF i <= b - a THEN ab[i] ELSE bc[i - (b - a)]
    <2>1. ab \in Seq(S) /\ bc \in Seq(S) /\ Len(ab) = b - a /\ Len(bc) = c - b
      BY <1>1
    <2>2. /\ ab \o bc \in Seq(S) /\ Len(ab \o bc) = Len(ab) + Len(bc)
          /\ \A i \in 1..(Len(ab) + Len(bc)) :
                (ab \o bc)[i] = IF i <= Len(ab) THEN ab[i] ELSE bc[i - Len(ab)]
      BY ONLY <2>1, ConcatProperties
    <2>3. Len(ab) + Len(bc) = c - a
      BY ONLY <2>1, a \in Nat, b \in Nat, c \in Nat
    <2> QED BY ONLY <2>1, <2>2, <2>3
  <1>3. \A i \in 1..(c - a) : (ab \o bc)[i] = ac[i]
    <2> TAKE i \in 1..(c - a)
    <2>1. (ab \o bc)[i] = IF i <= b - a THEN ab[i] ELSE bc[i - (b - a)]
      BY <1>2
    <2>2. CASE i <= b - a
      <3>1. i \in 1..(b - a)
        BY <2>2
      <3> QED BY <1>1, <2>1, <2>2, <3>1
    <2>3. CASE ~(i <= b - a)
      <3>1. i - (b - a) \in 1..(c - b) /\ b + (i - (b - a)) = a + i
        BY <2>3
      <3> QED BY <1>1, <2>1, <2>3, <3>1
    <2> QED BY <2>2, <2>3
  <1> QED BY <1>1, <1>2, <1>3, SeqEqual DEF ab, bc, ac

LEMMA SpanPrefix ==
    ASSUME NEW v \in Nat, Sizes[v] \in Nat, NEW a \in Nat, NEW b \in Int, NEW c \in Int,
           Len(Span(v, a, b)) <= Len(Span(v, a, c))
    PROVE  IsPrefix(Span(v, a, b), Span(v, a, c))
  <1> DEFINE ab == Span(v, a, b)
             ac == Span(v, a, c)
  <1>1. /\ ab \in Seq(Pairs) /\ Len(ab) \in Nat /\ \A i \in 1..Len(ab) : ab[i] = <<v, a + i>>
        /\ ac \in Seq(Pairs) /\ Len(ac) \in Nat /\ \A i \in 1..Len(ac) : ac[i] = <<v, a + i>>
    BY SpanIs
  <1> HIDE DEF ab, ac
  <1>2. Len(ab) <= Len(ac)
    BY DEF ab, ac
  <1>3. \A i \in 1..Len(ab) : ab[i] = ac[i]
    <2> TAKE i \in 1..Len(ab)
    <2>1. i \in 1..Len(ac)
      BY <1>1, <1>2
    <2> QED BY <1>1, <2>1
  <1>4. IsPrefix(ab, ac)
    <2>1. SubSeq(ab, 1, Len(ab)) = SubSeq(ac, 1, Len(ab))
      <3> DEFINE l == Len(ab)
      <3>1. /\ l \in Nat /\ l <= Len(ac) /\ Len(ac) \in Nat /\ ab \in Seq(Pairs) /\ ac \in Seq(Pairs) /\ l = Len(ab)
            /\ \A i \in 1..l : ab[i] = ac[i]
        BY <1>1, <1>2, <1>3
      <3> HIDE DEF l
      <3>2. SubSeq(ab, 1, l) = [i \in 1..l |-> ab[i]]
        BY ONLY <3>1
      <3>3. SubSeq(ac, 1, l) = [i \in 1..l |-> ac[i]]
        BY ONLY <3>1
      <3> QED BY <3>1, <3>2, <3>3 DEF l
    <2> QED BY <1>2, <2>1 DEF IsPrefix
  <1> QED BY <1>4 DEF ab, ac

LEMMA ContentIs == ASSUME NEW v \in Nat, Sizes[v] \in Nat PROVE Content(v) = Span(v, 0, Sizes[v])
  BY DEF Content, Span
-----------------------------------------------------------------------------
\* before anything is opened
Unopened(r) == ServingFits(r) /\ r.body = <<>> /\ r.position = 0 /\ r.status = 0

LEMMA UnopenedServed ==
    ASSUME handle = 0, NEW r, Unopened(r), r.pc \notin {"read", "end"}, r.pc \in {"stat", "size"} => ~HasRange(r)
    PROVE  Served(r)
  BY DEF Served, Unopened, OpenFits, WholeFits, RangeFits

\* An answer that tells nothing of a file.
LEMMA AnswerServed ==
    ASSUME handle = 0, NEW r, Unopened(r), NEW status \in {200, 302, 404, 416, 500},
           status = 200 => r.head \/ r.target = "directory"
    PROVE  Served(Answer(r, status))
  <1> DEFINE e == Answer(r, status)
  <1>1. /\ e.pc = "end" /\ e.status = status /\ e.head = r.head /\ e.target = r.target /\ ServingFits(e)
    <2>1. e = [r EXCEPT !.pc = "end", !.status = status] /\ DOMAIN r = DOMAIN NoServing
      BY DEF Answer, Unopened, ServingFits
    <2> HIDE DEF e
    <2>2. /\ DOMAIN e = DOMAIN r /\ e.pc = "end" /\ e.status = status /\ e.head = r.head
          /\ e.target = r.target /\ e.stats = r.stats /\ e.last_modified = r.last_modified
          /\ e.range = r.range /\ e.content_range = r.content_range /\ e.since = r.since
      BY <2>1, FieldsOfServing
    <2>3. ServingFits(r)
      BY DEF Unopened
    <2> QED BY <2>2, <2>3 DEF ServingFits, HasRange, RangeOf
  <1> HIDE DEF e
  <1>2. WholeFits(e) /\ RangeFits(e)
    <2>1. status = 200 => e.head \/ e.target # "file"
      <3>1. "directory" # "file"
        OBVIOUS
      <3> QED BY <1>1, <3>1, Zenon
    <2>2. WholeFits(e)
      BY <1>1, <2>1, Zenon DEF WholeFits
    <2>3. RangeFits(e)
      BY <1>1 DEF RangeFits
    <2> QED BY <2>2, <2>3
  <1> QED BY <1>1, <1>2 DEF Served, OpenFits, e

LEMMA NotFoundServed ==
    ASSUME handle = 0, NEW r, Unopened(r) PROVE Served(NotFound(r))
  BY AnswerServed DEF NotFound

LEMMA BySizeServed ==
    ASSUME handle = 0, NEW r, Unopened(r) PROVE Served(BySize(r))
  <1>1. DOMAIN r = DOMAIN NoServing
    BY DEF Unopened, ServingFits
  <1>2. ASSUME NEW e, DOMAIN e = DOMAIN r, e.pc \in {"open", "file stat"},
               e.stats = r.stats, e.last_modified = r.last_modified, e.range = r.range,
               e.content_range = r.content_range, e.since = r.since, e.target = r.target,
               e.body = r.body, e.position = r.position, e.status = r.status
        PROVE  Served(e)
    <2>1. Unopened(e)
      BY <1>2 DEF Unopened, ServingFits, HasRange, RangeOf
    <2> QED BY <1>2, <2>1, UnopenedServed
  <1>3. Served([r EXCEPT !.streams = TRUE, !.pc = "open"])
    <2> DEFINE e == [r EXCEPT !.streams = TRUE, !.pc = "open"]
    <2>1. /\ DOMAIN e = DOMAIN r /\ e.pc = "open" /\ e.stats = r.stats /\ e.last_modified = r.last_modified
          /\ e.range = r.range /\ e.content_range = r.content_range /\ e.since = r.since
          /\ e.target = r.target /\ e.body = r.body /\ e.position = r.position /\ e.status = r.status
      BY <1>1, FieldsOfServing
    <2> HIDE DEF e
    <2>2. Served(e)
      BY <1>2, <2>1
    <2> QED BY <2>2 DEF e
  <1>4. Served([r EXCEPT !.pc = "file stat"])
    <2> DEFINE e == [r EXCEPT !.pc = "file stat"]
    <2>1. /\ DOMAIN e = DOMAIN r /\ e.pc = "file stat" /\ e.stats = r.stats /\ e.last_modified = r.last_modified
          /\ e.range = r.range /\ e.content_range = r.content_range /\ e.since = r.since
          /\ e.target = r.target /\ e.body = r.body /\ e.position = r.position /\ e.status = r.status
      BY <1>1, FieldsOfServing
    <2> HIDE DEF e
    <2>2. Served(e)
      BY <1>2, <2>1
    <2> QED BY <2>2 DEF e
  <1> QED BY <1>3, <1>4 DEF BySize

LEMMA PrepareServed ==
    ASSUME handle = 0, NEW r, Unopened(r), static.use_content_range => r.stats # 0
    PROVE  Served(Prepare(r))
  <1> DEFINE ranged == static.use_content_range /\ ~r.head /\ r.range # NoRange
             wanted == ContentRange(r.range, Sizes[r.stats])
             with   == [r EXCEPT !.content_length =
                             IF static.use_content_range /\ ~ranged THEN Sizes[r.stats] ELSE Missing,
                        !.content_range = IF ranged THEN r.range ELSE NoRange]
  <1>1. DOMAIN r = DOMAIN NoServing
    BY DEF Unopened, ServingFits
  <1>2. /\ DOMAIN with = DOMAIN r /\ with.pc = r.pc /\ with.stats = r.stats /\ with.last_modified = r.last_modified
        /\ with.range = r.range /\ with.content_range = (IF ranged THEN r.range ELSE NoRange)
        /\ with.since = r.since /\ with.target = r.target /\ with.body = r.body /\ with.position = r.position
        /\ with.status = r.status /\ with.head = r.head
    BY <1>1, FieldsOfServing
  <1>3. ranged => r.stats # 0
    OBVIOUS
  <1>4. \/ ranged /\ ~wanted.satisfiable /\ Prepare(r) = Answer(r, 416)
        \/ /\ ranged => wanted.satisfiable
           /\ \/ r.head /\ Prepare(r) = Answer(with, 200)
              \/ Prepare(r) = [with EXCEPT !.pc = "size"] /\ r.stats = 0
              \/ Prepare(r) = BySize(with)
              \/ Prepare(r) = [with EXCEPT !.pc = "file stat"]
    BY DEF Prepare
  <1>5. CASE Prepare(r) = Answer(r, 416)
    BY <1>5, AnswerServed
  <1>6. ASSUME ranged => wanted.satisfiable PROVE Unopened(with)
    <2>1. HasRange(with) => ranged
      BY <1>2 DEF HasRange
    <2>2. ranged => RangeOf(with).start <= RangeOf(with).end
      <3>1. wanted.satisfiable => wanted.start <= wanted.end
        BY DEF ContentRange
      <3>2. ranged => RangeOf(with) = wanted
        BY <1>2 DEF RangeOf
      <3> QED BY <1>6, <3>1, <3>2
    <2> HIDE DEF with, ranged
    <2> QED BY <1>2, <1>3, <2>1, <2>2 DEF Unopened, ServingFits
  <1> HIDE DEF with
  <1>7. ASSUME Unopened(with), r.head, Prepare(r) = Answer(with, 200) PROVE Served(Prepare(r))
    <2>1. with.head
      BY <1>2, <1>7, Zenon
    <2>2. Served(Answer(with, 200))
      BY <1>7, <2>1, AnswerServed
    <2> QED BY <1>7, <2>2
  <1>8. ASSUME Unopened(with), Prepare(r) = BySize(with) PROVE Served(Prepare(r))
    BY <1>8, BySizeServed
  <1>9. ASSUME Unopened(with), NEW pc \in {"size", "file stat"}, Prepare(r) = [with EXCEPT !.pc = pc],
               pc = "size" => r.stats = 0
        PROVE  Served(Prepare(r))
    <2> DEFINE e == [with EXCEPT !.pc = pc]
    <2>1. /\ DOMAIN e = DOMAIN with /\ e.pc = pc /\ e.stats = with.stats /\ e.last_modified = with.last_modified
          /\ e.range = with.range /\ e.content_range = with.content_range /\ e.since = with.since
          /\ e.target = with.target /\ e.body = with.body /\ e.position = with.position /\ e.status = with.status
      BY <1>1, <1>2, FieldsOfServing
    <2> HIDE DEF e
    <2>2. Unopened(e)
      BY <1>9, <2>1 DEF Unopened, ServingFits, HasRange, RangeOf
    <2>3. pc = "size" => ~HasRange(e)
      BY <1>2, <1>3, <1>9, <2>1 DEF HasRange
    <2>4. Served(e)
      BY <2>1, <2>2, <2>3, UnopenedServed
    <2> QED BY <1>9, <2>4 DEF e
  <1> HIDE DEF ranged, wanted
  <1> QED BY <1>4, <1>5, <1>6, <1>7, <1>8, <1>9
-----------------------------------------------------------------------------
LEMMA ServedStays ==
    ASSUME FileFits, CopyFits, NEW r, Served(r), serving' = r, UNCHANGED <<file, copy, handle>>
    PROVE  StaticInv'
  <1>1. FileFits' /\ CopyFits' /\ Now' = Now
    BY DEF FileFits, CopyFits, Now
  <1>2. ServingFits(r)'
    BY <1>1 DEF Served, ServingFits
  <1>3. OpenFits(r)'
    BY <1>1 DEF Served, OpenFits, StreamFits
  <1>4. WholeFits(r)' /\ RangeFits(r)'
    BY <1>1 DEF Served, WholeFits, RangeFits
  <1>5. Served(r)'
    BY <1>1, <1>2, <1>3, <1>4 DEF Served
  <1> QED BY <1>1, <1>5 DEF StaticInv, Served

LEMMA UnopenedNow ==
    ASSUME StaticInv, serving.pc \notin {"read", "end"} PROVE Unopened(serving) /\ handle = 0
  BY DEF StaticInv, Served, OpenFits, Unopened

\* A file that is looked at is what is there.
LEMMA FoundIs ==
    ASSUME FileFits, NEW r
    PROVE  Found(r) \in 0..Now /\ Found(r) # 0 /\ (r.target = "file" => Found(r) = Now)
  <1>1. Now \in Nat /\ Now # 0
    BY SizesAre
  <1>2. r.target = "file" => ~IsDirectory(r)
    BY DEF IsDirectory
  <1> QED BY <1>1, <1>2 DEF Found, Now

LEMMA AskKeeps ==
    ASSUME StaticInv, NEW target, NEW only_head, NEW slash, NEW conditional \in BOOLEAN, NEW range \in Ranges \cup {NoRange},
           Ask(target, only_head, slash, conditional, range)
    PROVE  StaticInv'
  <1> DEFINE r == [NoServing EXCEPT !.target = target, !.head = only_head, !.slash = slash, !.range = range,
                !.since = IF conditional /\ copy # NoCopy THEN copy.last_modified ELSE Missing]
  <1>1. Unopened(serving) /\ handle = 0 /\ FileFits /\ CopyFits
    <2>1. serving.pc = "idle"
      BY DEF Ask
    <2> QED BY <2>1, UnopenedNow DEF StaticInv
  <1>2. conditional => target = "file"
    BY DEF Ask
  <1>3. /\ DOMAIN r = DOMAIN NoServing /\ r.stats = 0 /\ r.last_modified = 0 /\ r.range = range
        /\ r.content_range = NoRange /\ r.body = <<>> /\ r.position = 0 /\ r.status = 0 /\ r.pc = "idle"
        /\ r.target = target
        /\ r.since = IF conditional /\ copy # NoCopy THEN copy.last_modified ELSE Missing
    BY FieldsOfServing DEF NoServing
  <1>4. \/ serving' = Answer(r, 404) \/ serving' = [r EXCEPT !.pc = "stat"]
        \/ serving' = Prepare(r) /\ ~static.use_content_range
    BY DEF Ask
  <1>5. UNCHANGED <<file, copy, handle>>
    BY DEF Ask
  <1> HIDE DEF r
  <1>6. Unopened(r)
    <2>1. 0 \in 0..Now
      BY <1>1, SizesAre
    <2>2. r.since # Missing => r.since = copy.last_modified /\ r.target = "file"
      BY <1>2, <1>3
    <2> QED BY <1>3, <2>1, <2>2 DEF Unopened, ServingFits, HasRange
  <1>7. CASE serving' = Answer(r, 404)
    BY <1>1, <1>5, <1>6, <1>7, AnswerServed, ServedStays
  <1>8. CASE serving' = [r EXCEPT !.pc = "stat"]
    <2> DEFINE e == [r EXCEPT !.pc = "stat"]
    <2>1. /\ DOMAIN e = DOMAIN r /\ e.pc = "stat" /\ e.stats = r.stats /\ e.last_modified = r.last_modified
          /\ e.range = r.range /\ e.content_range = r.content_range /\ e.since = r.since
          /\ e.target = r.target /\ e.body = r.body /\ e.position = r.position /\ e.status = r.status
      BY <1>3, FieldsOfServing
    <2> HIDE DEF e
    <2>2. Unopened(e) /\ ~HasRange(e)
      BY <1>3, <1>6, <2>1 DEF Unopened, ServingFits, HasRange, RangeOf
    <2>3. Served(e)
      BY <1>1, <2>1, <2>2, UnopenedServed
    <2>4. serving' = e
      BY <1>8 DEF e
    <2> QED BY <1>1, <1>5, <2>3, <2>4, ServedStays
  <1>9. CASE serving' = Prepare(r) /\ ~static.use_content_range
    BY <1>1, <1>5, <1>6, <1>9, PrepareServed, ServedStays
  <1> QED BY <1>4, <1>7, <1>8, <1>9

\* What is not modified is what the client has: it is told so of no later version.
LEMMA StatKeeps == ASSUME StaticInv, Stat PROVE StaticInv'
  <1> DEFINE r == [serving EXCEPT !.stats = Found(serving), !.last_modified =
                     IF static.use_modified_since THEN Found(serving) ELSE 0]
  <1>1. Unopened(serving) /\ handle = 0 /\ FileFits /\ CopyFits /\ ~HasRange(serving)
    <2>1. serving.pc = "stat"
      BY DEF Stat
    <2> QED BY <2>1, UnopenedNow DEF StaticInv, Served
  <1>2. DOMAIN serving = DOMAIN NoServing
    BY <1>1 DEF Unopened, ServingFits
  <1>3. /\ DOMAIN r = DOMAIN serving /\ r.pc = serving.pc /\ r.stats = Found(serving)
        /\ r.last_modified = (IF static.use_modified_since THEN Found(serving) ELSE 0)
        /\ r.range = serving.range /\ r.content_range = serving.content_range /\ r.since = serving.since
        /\ r.target = serving.target /\ r.body = serving.body /\ r.position = serving.position
        /\ r.status = serving.status
    BY <1>2, FieldsOfServing
  <1>4. \/ serving' = NotFound(serving)
        \/ NotModified(serving, Found(serving)) /\ serving' = Answer(r, 304)
        \/ serving' = Prepare(r)
    BY DEF Stat, Serving
  <1>5. UNCHANGED <<file, copy, handle>>
    BY DEF Stat, Serving
  <1> HIDE DEF r
  <1>6. Unopened(r)
    <2>1. Found(serving) \in 0..Now /\ 0 \in 0..Now
      BY <1>1, FoundIs, SizesAre
    <2> QED BY <1>1, <1>2, <1>3, <2>1 DEF Unopened, ServingFits, HasRange
  <1>7. CASE serving' = NotFound(serving)
    BY <1>1, <1>5, <1>7, NotFoundServed, ServedStays
  <1>8. CASE NotModified(serving, Found(serving)) /\ serving' = Answer(r, 304)
    <2> DEFINE e == Answer(r, 304)
    <2>1. /\ DOMAIN e = DOMAIN r /\ e.pc = "end" /\ e.stats = r.stats /\ e.last_modified = r.last_modified
          /\ e.range = r.range /\ e.content_range = r.content_range /\ e.since = r.since
          /\ e.target = r.target /\ e.status = 304
      BY <1>2, <1>3, FieldsOfServing DEF Answer
    <2> HIDE DEF e
    <2>2. serving.target = "file" /\ serving.since = copy.last_modified /\ Found(serving) <= copy.last_modified
      BY <1>1, <1>8 DEF NotModified, Unopened, ServingFits
    <2>3. Found(serving) = Now /\ Now \in Nat
      BY <1>1, <2>2, FoundIs, SizesAre
    <2>4. copy.last_modified = Now /\ copy.body = Content(Now)
      BY <1>1, <2>2, <2>3 DEF CopyFits
    <2>5. ServingFits(e)
      BY <1>6, <2>1 DEF Unopened, ServingFits, HasRange, RangeOf
    <2>6. Served(e)
      BY <1>1, <1>3, <2>1, <2>3, <2>4, <2>5 DEF Served, OpenFits, WholeFits, RangeFits
    <2>7. serving' = e
      BY <1>8 DEF e
    <2> QED BY <1>1, <1>5, <2>6, <2>7, ServedStays
  <1>9. CASE serving' = Prepare(r)
    <2>1. r.stats # 0
      BY <1>1, <1>3, FoundIs
    <2> QED BY <1>1, <1>5, <1>6, <1>9, <2>1, PrepareServed, ServedStays
  <1> QED BY <1>4, <1>7, <1>8, <1>9

LEMMA SizeKeeps == ASSUME StaticInv, Size PROVE StaticInv'
  <1> DEFINE r == [serving EXCEPT !.stats = Found(serving)]
  <1>1. Unopened(serving) /\ handle = 0 /\ FileFits /\ CopyFits /\ ~HasRange(serving)
    <2>1. serving.pc = "size"
      BY DEF Size
    <2> QED BY <2>1, UnopenedNow DEF StaticInv, Served
  <1>2. DOMAIN serving = DOMAIN NoServing
    BY <1>1 DEF Unopened, ServingFits
  <1>3. /\ DOMAIN r = DOMAIN serving /\ r.pc = serving.pc /\ r.stats = Found(serving)
        /\ r.last_modified = serving.last_modified
        /\ r.range = serving.range /\ r.content_range = serving.content_range /\ r.since = serving.since
        /\ r.target = serving.target /\ r.body = serving.body /\ r.position = serving.position
        /\ r.status = serving.status
    BY <1>2, FieldsOfServing
  <1>4. (serving' = NotFound(serving) \/ serving' = BySize(r)) /\ UNCHANGED <<file, copy, handle>>
    BY DEF Size, Serving
  <1> HIDE DEF r
  <1>5. Unopened(r)
    <2>1. Found(serving) \in 0..Now
      BY <1>1, FoundIs
    <2> QED BY <1>1, <1>2, <1>3, <2>1 DEF Unopened, ServingFits, HasRange
  <1> QED BY <1>1, <1>4, <1>5, NotFoundServed, BySizeServed, ServedStays

LEMMA FileStatKeeps == ASSUME StaticInv, FileStat PROVE StaticInv'
  <1> DEFINE r == [serving EXCEPT !.pc = "open", !.last_modified = IF @ = 0 THEN Found(serving) ELSE @]
  <1>1. Unopened(serving) /\ handle = 0 /\ FileFits /\ CopyFits
    <2>1. serving.pc = "file stat"
      BY DEF FileStat
    <2> QED BY <2>1, UnopenedNow DEF StaticInv
  <1>2. DOMAIN serving = DOMAIN NoServing
    BY <1>1 DEF Unopened, ServingFits
  <1>3. /\ DOMAIN r = DOMAIN serving /\ r.pc = "open" /\ r.stats = serving.stats
        /\ r.last_modified = (IF serving.last_modified = 0 THEN Found(serving) ELSE serving.last_modified)
        /\ r.range = serving.range /\ r.content_range = serving.content_range /\ r.since = serving.since
        /\ r.target = serving.target /\ r.body = serving.body /\ r.position = serving.position
        /\ r.status = serving.status
    BY <1>2, FieldsOfServing
  <1>4. (serving' = NotFound(serving) \/ serving' = r) /\ UNCHANGED <<file, copy, handle>>
    BY DEF FileStat, Serving
  <1> HIDE DEF r
  <1>5. Unopened(r)
    <2>1. Found(serving) \in 0..Now
      BY <1>1, FoundIs
    <2> QED BY <1>1, <1>2, <1>3, <2>1 DEF Unopened, ServingFits, HasRange, RangeOf
  <1>6. Served(r)
    BY <1>1, <1>3, <1>5, UnopenedServed
  <1> QED BY <1>1, <1>4, <1>6, NotFoundServed, ServedStays

LEMMA DirectoryServed ==
    ASSUME handle = 0, FileFits, NEW r, Unopened(r), r.target = "directory" PROVE Served(Directory(r))
  <1> DEFINE e == [NoServing EXCEPT !.pc = "file stat", !.in_directory = TRUE]
  <1>1. /\ DOMAIN e = DOMAIN NoServing /\ e.pc = "file stat" /\ e.stats = 0 /\ e.last_modified = 0
        /\ e.range = NoRange /\ e.content_range = NoRange /\ e.since = Missing
        /\ e.body = <<>> /\ e.position = 0 /\ e.status = 0
    BY FieldsOfServing DEF NoServing
  <1> HIDE DEF e
  <1>2. Unopened(e)
    <2>1. 0 \in 0..Now
      BY SizesAre
    <2> QED BY <1>1, <2>1 DEF Unopened, ServingFits, HasRange
  <1>3. Served(e)
    BY <1>1, <1>2, UnopenedServed
  <1>4. \A status \in {200, 302, 404, 500} : Served(Answer(r, status))
    BY AnswerServed
  <1> QED BY <1>3, <1>4 DEF Directory, e

\* What is opened is what is there, and is read from its beginning or that of the range.
LEMMA OpenKeeps == ASSUME StaticInv, Open PROVE StaticInv'
  <1> DEFINE range == RangeOf(serving)
             ranged == [serving EXCEPT !.pc = "read", !.position = range.start, !.to_send = range.size]
             whole == [serving EXCEPT !.pc = "read"]
  <1>1. Unopened(serving) /\ handle = 0 /\ FileFits /\ CopyFits /\ serving.pc = "open"
    <2>1. serving.pc = "open"
      BY DEF Open
    <2> QED BY <2>1, UnopenedNow DEF StaticInv
  <1>2. DOMAIN serving = DOMAIN NoServing
    BY <1>1 DEF Unopened, ServingFits
  <1>3. \/ UNCHANGED <<file, copy, handle>> /\
            \/ serving' = NotFound(serving) \/ serving' = Answer(serving, 500)
            \/ serving.target = "directory" /\ serving' = Directory(serving)
        \/ /\ UNCHANGED <<file, copy>> /\ handle' = Missing
           /\ \/ HasRange(serving) /\ ~(range.start < 0) /\ serving' = ranged
              \/ ~HasRange(serving) /\ serving' = whole
    BY DEF Open, Serving, IsDirectory
  <1>4. ASSUME UNCHANGED <<file, copy, handle>>,
               \/ serving' = NotFound(serving) \/ serving' = Answer(serving, 500)
               \/ serving.target = "directory" /\ serving' = Directory(serving)
        PROVE  StaticInv'
    BY <1>1, <1>4, NotFoundServed, AnswerServed, DirectoryServed, ServedStays
  <1>5. ASSUME UNCHANGED <<file, copy>>, handle' = Missing, NEW r, serving' = r,
               DOMAIN r = DOMAIN NoServing, r.pc = "read", r.stats = serving.stats,
               r.last_modified = serving.last_modified, r.range = serving.range,
               r.content_range = serving.content_range, r.since = serving.since,
               r.target = serving.target, r.body = serving.body, r.status = serving.status,
               HasRange(serving) => /\ range.start >= 0 /\ r.position = range.start
                                    /\ r.to_send = range.size,
               ~HasRange(serving) => r.position = 0
        PROVE  StaticInv'
    <2>1. FileFits' /\ CopyFits' /\ Now' = Now
      BY <1>1, <1>5 DEF FileFits, CopyFits, Now
    <2>2. HasRange(r) = HasRange(serving) /\ RangeOf(r) = range
      BY <1>5 DEF HasRange, RangeOf
    <2>3. ServingFits(r)
      BY <1>1, <1>5, <2>2 DEF Unopened, ServingFits
    <2>4. StreamFits(r)
      <3>1. Now \in Nat /\ Sizes[Now] \in Nat
        BY <1>1, SizesAre
      <3>2. CASE HasRange(r)
        <4>1. /\ range.start \in Nat /\ range.end \in Int /\ range.size = range.end - range.start + 1
              /\ range.start <= range.end
          BY <1>1, <1>5, <2>2, <2>3, <3>2, RangeIs
        <4>2. Span(Now, range.start, range.start) = <<>>
          <5> HIDE DEF range
          <5>1. Reach(Now, range.start, range.start) <= 0
            BY <3>1, <4>1 DEF Reach
          <5>2. range.start \in Int
            BY <4>1
          <5> QED BY <3>1, <4>1, <5>1, <5>2, SpanIs
        <4>3. r.body = <<>> /\ r.position = range.start /\ r.to_send = range.size
          BY <1>1, <1>5, <2>2, <3>2 DEF Unopened
        <4>4. ChunkSize \in Nat \ {0}
          BY StaticAssumption DEF StaticAssumption
        <4> HIDE DEF range
        <4>5. range.end + 1 - range.start > -ChunkSize /\ range.size = range.end + 1 - range.start
          BY <4>1, <4>4
        <4> QED BY <2>2, <3>2, <4>1, <4>2, <4>3, <4>5 DEF StreamFits
      <3>3. CASE ~HasRange(r)
        <4>1. Span(Now, 0, 0) = <<>>
          <5>1. Reach(Now, 0, 0) <= 0
            BY <3>1 DEF Reach
          <5> QED BY <3>1, <5>1, SpanIs
        <4>2. r.body = <<>> /\ r.position = 0
          BY <1>1, <1>5, <2>2, <3>3 DEF Unopened
        <4>3. 0 \in 0..Sizes[Now]
          BY <3>1
        <4> QED BY <3>3, <4>1, <4>2, <4>3 DEF StreamFits
      <3> QED BY <3>2, <3>3
    <2>5. OpenFits(r)'
      <3>1. StreamFits(r)'
        BY <2>1, <2>4 DEF StreamFits
      <3> QED BY <1>5, <2>2, <3>1 DEF OpenFits
    <2>6. ServingFits(r)'
      BY <1>5, <2>1, <2>3 DEF ServingFits
    <2>7. r.status = 0
      BY <1>1, <1>5 DEF Unopened
    <2>8. WholeFits(r)' /\ RangeFits(r)'
      BY <1>5, <2>7 DEF WholeFits, RangeFits
    <2>9. Served(r)'
      BY <1>5, <2>5, <2>6, <2>7, <2>8 DEF Served
    <2> QED BY <1>5, <2>1, <2>9 DEF StaticInv, Served
  <1>6. ASSUME HasRange(serving), ~(range.start < 0) PROVE range.start >= 0
    BY <1>1, <1>6, RangeIs DEF Unopened
  <1>7. /\ DOMAIN ranged = DOMAIN NoServing /\ ranged.pc = "read" /\ ranged.stats = serving.stats
        /\ ranged.last_modified = serving.last_modified /\ ranged.range = serving.range
        /\ ranged.content_range = serving.content_range /\ ranged.since = serving.since
        /\ ranged.target = serving.target /\ ranged.body = serving.body /\ ranged.status = serving.status
        /\ ranged.position = range.start /\ ranged.to_send = range.size
    <2> HIDE DEF range
    <2> QED BY <1>2, FieldsOfServing
  <1>8. /\ DOMAIN whole = DOMAIN NoServing /\ whole.pc = "read" /\ whole.stats = serving.stats
        /\ whole.last_modified = serving.last_modified /\ whole.range = serving.range
        /\ whole.content_range = serving.content_range /\ whole.since = serving.since
        /\ whole.target = serving.target /\ whole.body = serving.body /\ whole.status = serving.status
        /\ whole.position = 0
    <2>1. serving.position = 0
      BY <1>1 DEF Unopened
    <2> QED BY <1>2, <2>1, FieldsOfServing
  <1> HIDE DEF ranged, whole
  <1>9. CASE UNCHANGED <<file, copy>> /\ handle' = Missing /\ HasRange(serving) /\ ~(range.start < 0) /\ serving' = ranged
    <2> HIDE DEF range
    <2> QED BY <1>5, <1>6, <1>7, <1>9
  <1>10. CASE UNCHANGED <<file, copy>> /\ handle' = Missing /\ ~HasRange(serving) /\ serving' = whole
    <2> HIDE DEF range
    <2> QED BY <1>5, <1>8, <1>10
  <1> HIDE DEF range
  <1> QED BY <1>3, <1>4, <1>9, <1>10
-----------------------------------------------------------------------------
\* The open file holds what was looked at, if that is still there.
LEMMA HoldsNow ==
    ASSUME FileFits, OpenFits(serving), serving.pc = "read", serving.stats = Now \/ serving.last_modified = Now
    PROVE  Holds = Now
  <1>1. Now \in Nat
    BY SizesAre
  <1>2. handle = Missing \/ (handle \in 1..Now /\ serving.stats <= handle /\ serving.last_modified <= handle)
    BY DEF OpenFits, Missing
  <1>3. handle = Missing => Holds = Now
    BY DEF Holds, Now
  <1>4. ASSUME handle \in 1..Now, serving.stats <= handle, serving.last_modified <= handle PROVE handle = Now
    BY <1>1, <1>4
  <1>5. handle \in 1..Now => handle # Missing
    BY <1>1 DEF Missing
  <1> QED BY <1>2, <1>3, <1>4, <1>5 DEF Holds

\* A file is closed: what was read of it is what is said.
\* The status may as well be known before the end.
LEMMA AnswerAgain ==
    ASSUME NEW r, NEW status, DOMAIN r = DOMAIN NoServing,
           NEW e, e = [r EXCEPT !.status = status]
    PROVE  Answer(e, e.status) = Answer(r, status)
  <1>1. /\ "pc" \in DOMAIN r /\ "status" \in DOMAIN r
    BY FieldsOfServing
  <1>2. e = [f \in DOMAIN r |-> IF f = "status" THEN status ELSE r[f]] /\ e.status = status /\ DOMAIN e = DOMAIN r
    BY <1>1
  <1>3. Answer(r, status) = [f \in DOMAIN r |-> IF f = "status" THEN status ELSE IF f = "pc" THEN "end" ELSE r[f]]
    BY <1>1 DEF Answer
  <1>4. Answer(e, status) = [f \in DOMAIN r |-> IF f = "status" THEN status ELSE IF f = "pc" THEN "end" ELSE e[f]]
    BY <1>1, <1>2 DEF Answer
  <1>5. \A f \in DOMAIN r : f # "status" => e[f] = r[f]
    BY <1>2
  <1> QED BY <1>2, <1>3, <1>4, <1>5

LEMMA CloseServed ==
    ASSUME StaticInv, NEW r, Close(r, r.status), DOMAIN r = DOMAIN NoServing, ServingFits(r),
           r.status \in {200, 206},
           r.status = 200 /\ r.last_modified = Now => r.body = Content(Now), RangeFits(r)
    PROVE  StaticInv'
  <1> DEFINE e == Answer(r, r.status)
  <1>1. /\ DOMAIN e = DOMAIN NoServing /\ e.pc = "end" /\ e.status = r.status /\ e.stats = r.stats
        /\ e.last_modified = r.last_modified /\ e.range = r.range /\ e.content_range = r.content_range
        /\ e.since = r.since /\ e.target = r.target /\ e.body = r.body /\ e.streams = r.streams
    BY FieldsOfServing DEF Answer
  <1>2. serving' = e /\ handle' = 0 /\ UNCHANGED <<file, copy>>
    BY DEF Close
  <1> HIDE DEF e
  <1>3. FileFits' /\ CopyFits' /\ Now' = Now
    BY <1>2 DEF StaticInv, FileFits, CopyFits, Now
  <1>4. ServingFits(e)'
    BY <1>1, <1>2, <1>3 DEF ServingFits, HasRange, RangeOf
  <1>5. WholeFits(e)'
    BY <1>1, <1>3 DEF WholeFits
  <1>6. RangeFits(e)'
    <2>1. RangeOf(e) = RangeOf(r)
      BY <1>1 DEF RangeOf
    <2>2. RangeFits(e)
      BY <1>1, <2>1, ZenonT(40) DEF RangeFits
    <2> QED BY <1>3, <2>2 DEF RangeFits
  <1>7. OpenFits(e)'
    BY <1>1, <1>2 DEF OpenFits
  <1>8. Served(e)'
    BY <1>1, <1>4, <1>5, <1>6, <1>7 DEF Served
  <1> QED BY <1>2, <1>3, <1>8 DEF StaticInv, Served

LEMMA ReadKeeps == ASSUME StaticInv, Read PROVE StaticInv'
  <1>1. /\ serving.pc = "read" /\ ~serving.streams /\ ServingFits(serving) /\ OpenFits(serving)
        /\ FileFits /\ DOMAIN serving = DOMAIN NoServing
    BY DEF Read, StaticInv, Served, ServingFits
  <1>2. Now \in Nat /\ Sizes[Now] \in Nat
    BY <1>1, SizesAre
  <1>3. ASSUME NEW r, NEW status \in {200, 206}, NEW body, r = [serving EXCEPT !.body = body], Close(r, status),
               status = 200 /\ serving.last_modified = Now => body = Content(Now),
               status = 206 => HasRange(serving),
               status = 206 /\ serving.stats = Now =>
                 body = Span(Now, RangeOf(serving).start, RangeOf(serving).end + 1)
        PROVE  StaticInv'
    <2> DEFINE e == [serving EXCEPT !.body = body, !.status = status]
    <2>1. /\ DOMAIN e = DOMAIN NoServing /\ e.pc = "read" /\ e.status = status /\ e.stats = serving.stats
          /\ e.last_modified = serving.last_modified /\ e.range = serving.range
          /\ e.content_range = serving.content_range /\ e.since = serving.since
          /\ e.target = serving.target /\ e.body = body
      BY <1>1, FieldsOfServing
    <2>2. ~e.streams
      BY <1>1, FieldsOfServing
    <2>3. Answer(e, e.status) = Answer(r, status)
      <3>1. DOMAIN r = DOMAIN NoServing /\ e = [r EXCEPT !.status = status]
        BY <1>1, <1>3
      <3> QED BY <3>1, AnswerAgain
    <2> HIDE DEF e
    <2>4. Close(e, e.status)
      BY <1>3, <2>3 DEF Close
    <2>5. ServingFits(e)
      BY <1>1, <2>1 DEF ServingFits, HasRange, RangeOf
    <2>6. RangeFits(e)
      <3> SUFFICES ASSUME e.status = 206, e.stats = Now
                   PROVE  LET announced == Span(Now, RangeOf(e).start, RangeOf(e).end + 1)
                          IN  /\ IsPrefix(announced, e.body)
                              /\ Len(e.body) - Len(announced) < (IF e.streams THEN ChunkSize ELSE 1)
        BY DEF RangeFits
      <3> DEFINE announced == Span(Now, RangeOf(serving).start, RangeOf(serving).end + 1)
      <3>1. e.body = announced /\ RangeOf(e) = RangeOf(serving)
        BY <1>3, <2>1 DEF RangeOf
      <3>2. Len(announced) \in Nat /\ IsPrefix(announced, announced)
        <4>1. HasRange(serving)
          BY <1>3, <2>1
        <4>2. RangeOf(serving).start \in Int /\ RangeOf(serving).end \in Int
          BY <1>1, <4>1, RangeIs
        <4>3. RangeOf(serving).start >= 0
          BY <1>1, <4>1 DEF OpenFits
        <4>4. RangeOf(serving).start \in Nat /\ RangeOf(serving).end + 1 \in Int
          BY <4>2, <4>3
        <4>5. announced \in Seq(Pairs) /\ Len(announced) \in Nat
          BY <1>2, <4>4, SpanIs
        <4> HIDE DEF announced
        <4> QED BY <4>5 DEF IsPrefix
      <3> HIDE DEF announced
      <3>3. Len(announced) - Len(announced) < 1
        BY <3>2
      <3>4. Now = Now /\ announced = Span(Now, RangeOf(e).start, RangeOf(e).end + 1)
        BY <3>1 DEF announced
      <3> QED BY <2>2, <3>1, <3>2, <3>3, <3>4
    <2>7. e.status = 200 /\ e.last_modified = Now => e.body = Content(Now)
      BY <1>3, <2>1
    <2> QED BY <2>1, <2>4, <2>5, <2>6, <2>7, CloseServed
  <1>4. CASE HasRange(serving)
    <2> DEFINE body == Bytes(serving.position, serving.to_send)
               r == [serving EXCEPT !.body = body]
    <2>1. Close(r, 206)
      BY <1>4 DEF Read
    <2>2. serving.stats = Now => body = Span(Now, RangeOf(serving).start, RangeOf(serving).end + 1)
      <3>1. serving.position = RangeOf(serving).start /\ serving.to_send = RangeOf(serving).size
        BY <1>1, <1>4 DEF OpenFits
      <3>2. /\ RangeOf(serving).start \in Int /\ RangeOf(serving).end \in Int
            /\ RangeOf(serving).size = RangeOf(serving).end - RangeOf(serving).start + 1
        BY <1>1, <1>4, RangeIs
      <3>3. serving.position + serving.to_send = RangeOf(serving).end + 1
        BY <3>1, <3>2
      <3>4. serving.stats = Now => Holds = Now
        BY <1>1, HoldsNow
      <3> QED BY <3>1, <3>3, <3>4 DEF Bytes
    <2> HIDE DEF body
    <2>3. 206 # 200
      OBVIOUS
    <2> QED BY <1>3, <1>4, <2>1, <2>2, <2>3
  <1>5. CASE ~HasRange(serving)
    <2> DEFINE body == Content(Holds)
               r == [serving EXCEPT !.body = body]
    <2>1. Close(r, 200)
      BY <1>5 DEF Read
    <2>2. serving.last_modified = Now => body = Content(Now)
      BY <1>1, HoldsNow
    <2> HIDE DEF body
    <2>3. 206 # 200
      OBVIOUS
    <2> QED BY <1>3, <2>1, <2>2, <2>3
  <1> QED BY <1>4, <1>5

\* a chunk is what is there from p on, as far as it reaches itself
FromHere(chunk, v, p) == chunk = Span(v, p, p + Len(chunk))

\* A chunk is empty at the end of the file only, and otherwise reaches no further.
LEMMA ChunkIs ==
    ASSUME NEW v \in Nat, Sizes[v] \in Nat, NEW p \in Nat, NEW n \in Nat \ {0}, NEW chunk, chunk = Span(v, p, p + n)
    PROVE  /\ chunk = <<>> => p >= Sizes[v]
           /\ chunk # <<>> => Len(chunk) \in 1..n /\ p + Len(chunk) <= Sizes[v] /\ FromHere(chunk, v, p)
  <1> DEFINE reach == Reach(v, p, p + n)
  <1>1. reach \in Int /\ (reach <= 0 => p >= Sizes[v]) /\ (reach > 0 => reach \in 1..n /\ p + reach <= Sizes[v])
    BY DEF Reach
  <1>2. p + n \in Int
    OBVIOUS
  <1>3. reach >= 0 => Len(chunk) = reach
    BY <1>2, SpanIs
  <1>4. reach <= 0 => chunk = <<>>
    BY <1>2, SpanIs
  <1>5. reach > 0 => chunk # <<>>
    BY <1>1, <1>3
  <1>6. ASSUME reach > 0 PROVE FromHere(chunk, v, p)
    <2>1. p + reach = IF p + n < Sizes[v] THEN p + n ELSE Sizes[v]
      BY DEF Reach
    <2>2. (IF p + n < Sizes[v] THEN p + n ELSE Sizes[v]) = (IF p + reach < Sizes[v] THEN p + reach ELSE Sizes[v])
      BY <2>1
    <2>3. chunk = Span(v, p, p + reach)
      BY <2>2 DEF Span
    <2>4. Len(chunk) = reach
      BY <1>1, <1>3, <1>6
    <2> HIDE DEF reach
    <2> QED BY <2>3, <2>4 DEF FromHere
  <1> HIDE DEF reach
  <1> QED BY <1>1, <1>3, <1>4, <1>5, <1>6

\* What a stream sends of a range begins with it, and ends less than a chunk behind it.
LEMMA StreamedRange ==
    ASSUME NEW v \in Nat, Sizes[v] \in Nat, NEW start \in Nat, NEW end \in Int, NEW p \in Nat,
           start <= end, start <= p, p = start \/ p <= Sizes[v], end + 1 - p > -ChunkSize,
           p >= Sizes[v] \/ end + 1 - p <= 0
    PROVE  /\ IsPrefix(Span(v, start, end + 1), Span(v, start, p))
           /\ Len(Span(v, start, p)) - Len(Span(v, start, end + 1)) < ChunkSize
  <1> DEFINE ra == Reach(v, start, end + 1)
             rb == Reach(v, start, p)
             la == Len(Span(v, start, end + 1))
             lb == Len(Span(v, start, p))
  <1>1. end + 1 \in Int /\ p \in Int /\ ChunkSize \in Nat \ {0}
    BY StaticAssumption DEF StaticAssumption
  <1>2. ra \in Int /\ rb \in Int
    BY <1>1 DEF Reach
  <1>3. la \in Nat /\ (ra >= 0 => la = ra) /\ (ra <= 0 => la = 0)
    BY <1>1, SpanIs
  <1>4. lb \in Nat /\ (rb >= 0 => lb = rb) /\ (rb <= 0 => lb = 0)
    BY <1>1, SpanIs
  <1>5. ra <= rb \/ ra <= 0
    BY <1>1 DEF Reach
  <1>6. rb <= 0 \/ rb - ra < ChunkSize
    BY <1>1 DEF Reach
  <1>7. p = start => rb <= 0
    BY DEF Reach
  <1> HIDE DEF ra, rb, la, lb
  <1>8. la <= lb
    BY <1>2, <1>3, <1>4, <1>5
  <1>9. lb - la < ChunkSize
    BY <1>1, <1>2, <1>3, <1>4, <1>6
  <1> QED BY <1>1, <1>8, <1>9, SpanPrefix DEF la, lb

LEMMA ReadChunkKeeps == ASSUME StaticInv, ReadChunk PROVE StaticInv'
  <1> DEFINE range == RangeOf(serving)
             n     == IF HasRange(serving) /\ range.size < ChunkSize THEN range.size ELSE ChunkSize
             chunk == Bytes(serving.position, n)
             r     == [serving EXCEPT !.position = @ + Len(chunk), !.to_send = @ - Len(chunk),
                                      !.body = @ \o chunk]
             over  == chunk = <<>> \/ (HasRange(serving) /\ serving.to_send <= 0)
             status == IF HasRange(serving) THEN 206 ELSE 200
  <1>1. /\ serving.pc = "read" /\ serving.streams /\ ServingFits(serving) /\ OpenFits(serving)
        /\ FileFits /\ CopyFits /\ DOMAIN serving = DOMAIN NoServing /\ StreamFits(serving) /\ Served(serving)
    BY DEF ReadChunk, StaticInv, Served, ServingFits, OpenFits
  <1>2. Now \in Nat /\ Sizes[Now] \in Nat /\ ChunkSize \in Nat \ {0}
    BY <1>1, SizesAre, StaticAssumption DEF StaticAssumption
  <1>3. (over /\ Close(serving, status)) \/ (~over /\ Serving(r))
    <2>1. IF over THEN Close(serving, status) ELSE Serving(r)
      BY Zenon DEF ReadChunk
    <2> QED BY <2>1, Zenon
  <1>4. HasRange(serving) => /\ range.start \in Nat /\ range.end \in Int /\ range.start <= range.end
                             /\ range.size = range.end - range.start + 1
    <2>1. HasRange(serving) => /\ range.start \in Int /\ range.end \in Int /\ range.start <= range.end
                               /\ range.size = range.end - range.start + 1
      BY <1>1, RangeIs
    <2>2. HasRange(serving) => range.start >= 0
      BY <1>1 DEF OpenFits
    <2> HIDE DEF range
    <2> QED BY <2>1, <2>2
  <1>5. n \in Nat \ {0}
    <2> HIDE DEF range
    <2> QED BY <1>2, <1>4
  <1>6. serving.stats = Now \/ serving.last_modified = Now => chunk = Span(Now, serving.position, serving.position + n)
    BY <1>1, HoldsNow DEF Bytes
  <1> HIDE DEF chunk, n
  <1>C. ASSUME serving.position \in Nat, serving.stats = Now \/ serving.last_modified = Now
         PROVE  /\ chunk = <<>> => serving.position >= Sizes[Now]
                /\ chunk # <<>> => /\ Len(chunk) \in 1..n /\ serving.position + Len(chunk) <= Sizes[Now]
                                  /\ chunk = Span(Now, serving.position, serving.position + Len(chunk))
    <2>1. chunk = Span(Now, serving.position, serving.position + n)
      BY <1>6, <1>C
    <2> DEFINE q == serving.position
               v == Now
    <2>2. v \in Nat /\ Sizes[v] \in Nat /\ q \in Nat /\ n \in Nat \ {0} /\ chunk = Span(v, q, q + n)
      BY <1>2, <1>5, <1>C, <2>1
    <2> HIDE DEF q, v
    <2>3. chunk = <<>> => q >= Sizes[v]
      BY ONLY <2>2, ChunkIs
    <2>4. chunk # <<>> => Len(chunk) \in 1..n /\ q + Len(chunk) <= Sizes[v] /\ FromHere(chunk, v, q)
      BY ONLY <2>2, ChunkIs
    <2> QED BY <2>3, <2>4 DEF q, v, FromHere
  <1>7. CASE over /\ Close(serving, status)
    <2> DEFINE e == [serving EXCEPT !.status = status]
    <2>1. /\ DOMAIN e = DOMAIN NoServing /\ e.status = status /\ e.stats = serving.stats
          /\ e.last_modified = serving.last_modified /\ e.range = serving.range
          /\ e.content_range = serving.content_range /\ e.since = serving.since
          /\ e.target = serving.target /\ e.body = serving.body /\ e.pc = "read"
      BY <1>1, FieldsOfServing
    <2>2. e.streams
      BY <1>1, FieldsOfServing
    <2>3. Answer(e, e.status) = Answer(serving, status)
      BY <1>1, AnswerAgain
    <2> HIDE DEF e
    <2>4. Close(e, e.status)
      BY <1>7, <2>3 DEF Close
    <2>5. ServingFits(e)
      BY <1>1, <2>1 DEF ServingFits, HasRange, RangeOf
    <2>6. ASSUME e.status = 200, e.last_modified = Now PROVE e.body = Content(Now)
      <3>1. ~HasRange(serving) /\ serving.last_modified = Now /\ chunk = <<>>
        BY <1>7, <2>1, <2>6
      <3>2. serving.position \in 0..Sizes[Now] /\ serving.body = Span(Now, 0, serving.position)
        BY <1>1, <3>1 DEF StreamFits
      <3>3. serving.position >= Sizes[Now]
        <4>1. serving.position \in Nat
          BY <1>2, <3>2
        <4> QED BY <1>C, <3>1, <4>1
      <3>4. serving.position = Sizes[Now]
        BY <1>2, <3>2, <3>3
      <3> QED BY <1>2, <2>1, <3>2, <3>4, ContentIs
    <2>7. RangeFits(e)
      <3> SUFFICES ASSUME e.status = 206, e.stats = Now
                   PROVE  LET announced == Span(Now, RangeOf(e).start, RangeOf(e).end + 1)
                          IN  /\ IsPrefix(announced, e.body)
                              /\ Len(e.body) - Len(announced) < (IF e.streams THEN ChunkSize ELSE 1)
        BY DEF RangeFits
      <3>1. HasRange(serving) /\ serving.stats = Now /\ RangeOf(e) = range
        BY <2>1 DEF RangeOf
      <3> DEFINE p == serving.position
      <3>2. /\ p \in Int /\ range.start <= p /\ (p = range.start \/ p <= Sizes[Now])
            /\ serving.body = Span(Now, range.start, p)
            /\ serving.to_send = range.end + 1 - p /\ serving.to_send > -ChunkSize
        BY <1>1, <3>1 DEF StreamFits
      <3> HIDE DEF range, p
      <3>3. p \in Nat
        BY <1>4, <3>1, <3>2
      <3>4. p >= Sizes[Now] \/ range.end + 1 - p <= 0
        <4>1. CASE chunk = <<>>
          BY <1>C, <3>1, <3>3, <4>1 DEF p
        <4>2. CASE serving.to_send <= 0
          BY <3>2, <4>2
        <4> QED BY <1>7, <4>1, <4>2
      <3>5. range.end + 1 - p > -ChunkSize
        BY <3>2
      <3>6. /\ IsPrefix(Span(Now, range.start, range.end + 1), Span(Now, range.start, p))
            /\ Len(Span(Now, range.start, p)) - Len(Span(Now, range.start, range.end + 1)) < ChunkSize
        BY <1>2, <1>4, <3>1, <3>2, <3>3, <3>4, <3>5, StreamedRange
      <3>7. e.body = Span(Now, range.start, p)
        BY <2>1, <3>2
      <3> QED BY <2>2, <3>1, <3>6, <3>7
    <2>8. e.status \in {200, 206}
      BY <2>1
    <2> QED BY <2>1, <2>4, <2>5, <2>6, <2>7, <2>8, CloseServed
  <1>8. CASE ~over /\ Serving(r)
    <2>1. /\ DOMAIN r = DOMAIN NoServing /\ r.pc = "read" /\ r.status = serving.status /\ r.stats = serving.stats
          /\ r.last_modified = serving.last_modified /\ r.range = serving.range
          /\ r.content_range = serving.content_range /\ r.since = serving.since /\ r.target = serving.target
          /\ r.position = serving.position + Len(chunk) /\ r.to_send = serving.to_send - Len(chunk)
          /\ r.body = serving.body \o chunk
      BY <1>1, FieldsOfServing
    <2>2. r.streams
      BY <1>1, FieldsOfServing
    <2>3. serving' = r /\ UNCHANGED <<file, copy, handle>> /\ chunk # <<>>
      BY <1>8 DEF Serving
    <2> HIDE DEF r
    <2>4. (HasRange(r) <=> HasRange(serving)) /\ RangeOf(r) = range
      BY <2>1 DEF HasRange, RangeOf
    <2>5. ServingFits(r)
      BY <1>1, <2>1, <2>4 DEF ServingFits
    <2> DEFINE p == serving.position
    <2>6. ASSUME HasRange(serving) PROVE StreamFits(r)
      <3> SUFFICES ASSUME r.stats = Now PROVE StreamFits(r)
        BY <2>4, <2>6 DEF StreamFits
      <3>0. serving.stats = Now
        BY <2>1
      <3>1. /\ p \in Int /\ range.start <= p /\ (p = range.start \/ p <= Sizes[Now])
            /\ serving.body = Span(Now, range.start, p)
            /\ serving.to_send = range.end + 1 - p
        BY <1>1, <2>6, <3>0 DEF StreamFits
      <3>2. ~(serving.to_send <= 0)
        BY <1>8, <2>6
      <3>3. p + Len(chunk) = r.position /\ serving.to_send - Len(chunk) = r.to_send
        BY <2>1
      <3> HIDE DEF range, p
      <3>5. p \in Nat
        BY <1>4, <2>6, <3>1
      <3>6. Len(chunk) \in 1..n /\ p + Len(chunk) <= Sizes[Now] /\ chunk = Span(Now, p, p + Len(chunk))
        BY <1>C, <2>3, <3>0, <3>5 DEF p
      <3>7. n <= ChunkSize
        BY <1>2, <1>4, <2>6 DEF n
      <3>8. r.position \in Nat /\ p <= r.position /\ r.position <= Sizes[Now] /\ range.start <= r.position
        BY <1>4, <1>5, <2>6, <3>1, <3>3, <3>5, <3>6
      <3>9. r.to_send = range.end + 1 - r.position /\ r.to_send > -ChunkSize
        <4> DEFINE l == Len(chunk)
                   end == range.end
        <4>1. /\ end \in Int /\ n \in Nat /\ ChunkSize \in Nat /\ l \in 1..n /\ n <= ChunkSize /\ p \in Nat
              /\ serving.to_send = end + 1 - p /\ ~(serving.to_send <= 0)
          BY <1>2, <1>4, <1>5, <2>6, <3>1, <3>2, <3>5, <3>6, <3>7
        <4>2. p + l = r.position /\ serving.to_send - l = r.to_send
          BY <3>3
        <4> HIDE DEF l, end
        <4>3. r.to_send = end + 1 - r.position /\ r.to_send > -ChunkSize
          BY ONLY <4>1, <4>2
        <4> QED BY <4>3 DEF end
      <3>10. Span(Now, range.start, p) \o Span(Now, p, r.position) = Span(Now, range.start, r.position)
        <4>1. range.start \in Nat /\ range.start <= p
          BY <1>4, <2>6, <3>1
        <4> DEFINE v == Now
                   a == range.start
                   c == r.position
        <4>2. /\ v \in Nat /\ Sizes[v] \in Nat /\ a \in Nat /\ p \in Nat /\ c \in Nat
              /\ a <= p /\ p <= c /\ c <= Sizes[v]
          BY <1>2, <3>5, <3>8, <4>1
        <4> HIDE DEF v, a, c
        <4>3. Span(v, a, p) \o Span(v, p, c) = Span(v, a, c)
          BY ONLY <4>2, SpansJoin, ZenonT(40)
        <4> QED BY <4>3 DEF v, a, c
      <3>11. r.body = Span(Now, range.start, r.position)
        BY <2>1, <3>1, <3>3, <3>6, <3>10
      <3>12. r.position \in Int
        BY <3>8
      <3> QED BY <2>4, <2>6, <3>8, <3>9, <3>11, <3>12 DEF StreamFits
    <2>7. ASSUME ~HasRange(serving) PROVE StreamFits(r)
      <3> SUFFICES ASSUME r.last_modified = Now PROVE StreamFits(r)
        BY <2>4, <2>7 DEF StreamFits
      <3>0. serving.last_modified = Now
        BY <2>1
      <3>1. p \in 0..Sizes[Now] /\ serving.body = Span(Now, 0, p)
        BY <1>1, <2>7, <3>0 DEF StreamFits
      <3>2. p + Len(chunk) = r.position
        BY <2>1
      <3> HIDE DEF p
      <3>3. p \in Nat
        BY <3>1
      <3>4. Len(chunk) \in 1..n /\ p + Len(chunk) <= Sizes[Now] /\ chunk = Span(Now, p, p + Len(chunk))
        BY <1>C, <2>3, <3>0, <3>3 DEF p
      <3>5. r.position \in 0..Sizes[Now] /\ r.position \in Nat /\ p <= r.position
        BY <1>2, <1>5, <3>2, <3>3, <3>4
      <3>6. Span(Now, 0, p) \o Span(Now, p, r.position) = Span(Now, 0, r.position)
        <4>1. 0 \in Nat /\ 0 <= p /\ r.position <= Sizes[Now]
          BY <3>3, <3>5
        <4> DEFINE v == Now
                   a == 0
                   c == r.position
        <4>2. /\ v \in Nat /\ Sizes[v] \in Nat /\ a \in Nat /\ p \in Nat /\ c \in Nat
              /\ a <= p /\ p <= c /\ c <= Sizes[v]
          BY <1>2, <3>3, <3>5, <4>1
        <4> HIDE DEF v, a, c
        <4>3. Span(v, a, p) \o Span(v, p, c) = Span(v, a, c)
          BY ONLY <4>2, SpansJoin, ZenonT(40)
        <4> QED BY <4>3 DEF v, a, c
      <3>7. r.body = Span(Now, 0, r.position)
        BY <2>1, <3>1, <3>2, <3>4, <3>6
      <3> QED BY <2>4, <2>7, <3>5, <3>7 DEF StreamFits
    <2>8. StreamFits(r)
      BY <2>6, <2>7
    <2>9. OpenFits(r)
      <3>1. HasRange(serving) => RangeOf(serving).start >= 0
        BY <1>1 DEF OpenFits
      <3>2. /\ handle = Missing \/ handle \in 1..Now
            /\ handle # Missing => serving.stats <= handle /\ serving.last_modified <= handle
        BY <1>1 DEF OpenFits
      <3> QED BY <2>1, <2>2, <2>4, <2>8, <3>1, <3>2 DEF OpenFits
    <2>10. r.status = 0
      BY <1>1, <2>1 DEF Served
    <2>11. Served(r)
      BY <2>1, <2>5, <2>9, <2>10 DEF Served, WholeFits, RangeFits
    <2> QED BY <1>1, <2>3, <2>11, ServedStays
  <1> QED BY <1>3, <1>7, <1>8

\* What was said of a version goes for no later one: nothing is said yet of the one that is written.
LEMMA WriteKeeps == ASSUME StaticInv, NEW in_place \in BOOLEAN, Write(in_place) PROVE StaticInv'
  <1>1. FileFits /\ CopyFits /\ Served(serving) /\ ServingFits(serving) /\ OpenFits(serving)
    BY DEF StaticInv, Served
  <1>2. Now \in Nat /\ Now # 0 /\ Len(Sizes) \in Nat
    <2>1. Sizes \in Seq(Nat)
      BY StaticAssumption DEF StaticAssumption
    <2> QED BY <1>1, <2>1, SizesAre
  <1>3. Now' = Now + 1 /\ Now < Len(Sizes) /\ DOMAIN file' = {"version", "present"}
    BY DEF Write, Now
  <1>4. serving' = serving /\ copy' = copy
    BY DEF Write
  <1>5. handle' = handle \/ (handle = Missing /\ handle' = Now)
    BY DEF Write, Now
  <1>6. FileFits'
    BY <1>2, <1>3 DEF FileFits
  <1>7. serving.stats \in 0..Now /\ serving.last_modified \in 0..Now /\ copy.last_modified \in 0..Now
    BY <1>1 DEF ServingFits, CopyFits
  <1>8. /\ serving.stats \in 0..(Now') /\ serving.last_modified \in 0..(Now') /\ copy.last_modified \in 0..(Now')
        /\ serving.stats # Now' /\ serving.last_modified # Now' /\ copy.last_modified # Now'
    BY <1>2, <1>3, <1>7
  <1>9. CopyFits'
    BY <1>1, <1>4, <1>8 DEF CopyFits
  <1>10. ServingFits(serving)'
    BY <1>1, <1>4, <1>8 DEF ServingFits, HasRange, RangeOf
  <1>11. OpenFits(serving)'
    <2>1. CASE serving.pc = "read"
      <3>1. /\ handle = Missing \/ handle \in 1..Now
            /\ handle # Missing => serving.stats <= handle /\ serving.last_modified <= handle
        BY <1>1, <2>1 DEF OpenFits
      <3>2. handle' = Missing \/ handle' \in 1..(Now')
        BY <1>2, <1>3, <1>5, <3>1
      <3>3. handle' # Missing => serving.stats <= handle' /\ serving.last_modified <= handle'
        BY <1>2, <1>5, <1>7, <3>1
      <3>4. StreamFits(serving)'
        BY <1>4, <1>8 DEF StreamFits
      <3>5. /\ HasRange(serving) => RangeOf(serving).start >= 0
            /\ ~serving.streams /\ HasRange(serving) =>
                    serving.position = RangeOf(serving).start /\ serving.to_send = RangeOf(serving).size
        BY <1>1, <2>1 DEF OpenFits
      <3> QED BY <1>4, <2>1, <3>2, <3>3, <3>4, <3>5 DEF OpenFits, HasRange, RangeOf
    <2>2. CASE serving.pc # "read"
      <3>1. handle = 0
        BY <1>1, <2>2 DEF OpenFits
      <3>2. handle' = 0
        BY <1>5, <3>1 DEF Missing
      <3> QED BY <1>4, <2>2, <3>2 DEF OpenFits
    <2> QED BY <2>1, <2>2
  <1>12. WholeFits(serving)' /\ RangeFits(serving)'
    BY <1>4, <1>8 DEF WholeFits, RangeFits
  <1>13. Served(serving)'
    <2>1. /\ serving.pc # "end" => serving.status = 0
          /\ serving.pc \notin {"read", "end"} => serving.body = <<>> /\ serving.position = 0
          /\ serving.pc \in {"stat", "size"} => ~HasRange(serving)
          /\ serving.status = 304 => copy.body = Content(serving.stats)
      BY <1>1 DEF Served
    <2> QED BY <1>4, <1>10, <1>11, <1>12, <2>1 DEF Served, HasRange, Content
  <1> QED BY <1>6, <1>9, <1>13 DEF StaticInv

\* A file that is removed is read to its end as it was.
LEMMA UnlinkKeeps == ASSUME StaticInv, Unlink PROVE StaticInv'
  <1>1. FileFits /\ CopyFits /\ Served(serving) /\ ServingFits(serving) /\ OpenFits(serving)
    BY DEF StaticInv, Served
  <1>2. Now \in Nat /\ Now # 0
    BY <1>1, SizesAre
  <1>3. Now' = Now /\ DOMAIN file' = {"version", "present"}
    BY <1>1 DEF Unlink, Now, FileFits
  <1>4. serving' = serving /\ copy' = copy
    BY DEF Unlink
  <1>5. handle' = handle \/ (handle = Missing /\ handle' = Now)
    BY DEF Unlink, Now
  <1>6. FileFits' /\ CopyFits'
    BY <1>1, <1>3, <1>4 DEF FileFits, CopyFits
  <1>7. ServingFits(serving)' /\ WholeFits(serving)' /\ RangeFits(serving)'
    <2>1. ServingFits(serving)'
      BY <1>1, <1>3, <1>4 DEF ServingFits, HasRange, RangeOf
    <2>2. WholeFits(serving)'
      BY <1>1, <1>3, <1>4 DEF Served, WholeFits, Content
    <2>3. RangeFits(serving)'
      <3> DEFINE r == serving
      <3>1. RangeFits(r) /\ r' = r
        BY <1>1, <1>4 DEF Served
      <3>2. RangeFits(r)'
        BY <1>3, <3>1 DEF RangeFits
      <3> QED BY <3>2
    <2> QED BY <2>1, <2>2, <2>3
  <1>8. OpenFits(serving)'
    <2>1. CASE serving.pc = "read"
      <3>1. /\ handle = Missing \/ handle \in 1..Now
            /\ handle # Missing => serving.stats <= handle /\ serving.last_modified <= handle
        BY <1>1, <2>1 DEF OpenFits
      <3>2. serving.stats \in 0..Now /\ serving.last_modified \in 0..Now
        BY <1>1 DEF ServingFits
      <3>3. handle' = Missing \/ handle' \in 1..Now
        BY <1>2, <1>5, <3>1
      <3>4. handle' # Missing => serving.stats <= handle' /\ serving.last_modified <= handle'
        BY <1>2, <1>5, <3>1, <3>2
      <3>5. serving.streams => StreamFits(serving)'
        BY <1>1, <1>3, <1>4, <2>1 DEF OpenFits, StreamFits, HasRange, RangeOf
      <3>6. /\ HasRange(serving) => RangeOf(serving).start >= 0
            /\ ~serving.streams /\ HasRange(serving) =>
                    serving.position = RangeOf(serving).start /\ serving.to_send = RangeOf(serving).size
        BY <1>1, <2>1 DEF OpenFits
      <3> QED BY <1>3, <1>4, <2>1, <3>3, <3>4, <3>5, <3>6 DEF OpenFits, HasRange, RangeOf
    <2>2. CASE serving.pc # "read"
      <3>1. handle = 0
        BY <1>1, <2>2 DEF OpenFits
      <3>2. handle' = 0
        BY <1>5, <3>1 DEF Missing
      <3> QED BY <1>4, <2>2, <3>2 DEF OpenFits
    <2> QED BY <2>1, <2>2
  <1>9. Served(serving)'
    <2>1. /\ serving.pc # "end" => serving.status = 0
          /\ serving.pc \notin {"read", "end"} => serving.body = <<>> /\ serving.position = 0
          /\ serving.pc \in {"stat", "size"} => ~HasRange(serving)
          /\ serving.status = 304 => copy.body = Content(serving.stats)
      BY <1>1 DEF Served
    <2> QED BY <1>4, <1>7, <1>8, <2>1 DEF Served, HasRange, Content
  <1> QED BY <1>6, <1>9 DEF StaticInv

LEMMA IdleServed == ASSUME FileFits, handle = 0 PROVE Served(NoServing)
  <1>1. /\ NoServing.pc = "idle" /\ NoServing.stats = 0 /\ NoServing.last_modified = 0
        /\ NoServing.range = NoRange /\ NoServing.content_range = NoRange /\ NoServing.since = Missing
        /\ NoServing.body = <<>> /\ NoServing.position = 0 /\ NoServing.status = 0
    BY DEF NoServing
  <1>2. 0 \in 0..Now
    BY SizesAre
  <1>3. Unopened(NoServing)
    BY <1>1, <1>2 DEF Unopened, ServingFits, HasRange
  <1> QED BY <1>1, <1>3, UnopenedServed

\* The client keeps what its Last-Modified goes with.
LEMMA DeliverKeeps == ASSUME StaticInv, Deliver PROVE StaticInv'
  <1>1. FileFits /\ CopyFits /\ Served(serving) /\ serving.pc = "end" /\ handle = 0
    BY DEF StaticInv, Deliver, Served, OpenFits
  <1>2. serving' = NoServing /\ UNCHANGED <<file, handle>>
    BY DEF Deliver
  <1>3. FileFits' /\ Now' = Now
    BY <1>1, <1>2 DEF FileFits, Now
  <1>4. CopyFits'
    <2>1. CASE copy' = copy
      BY <1>1, <1>3, <2>1 DEF CopyFits
    <2>2. CASE Keeps(serving) /\ copy' = [body |-> serving.body, last_modified |-> serving.last_modified]
      <3>1. serving.target = "file" /\ ~serving.head /\ serving.status = 200
        BY <2>2 DEF Keeps
      <3>2. serving.last_modified = Now => serving.body = Content(Now)
        BY <1>1, <3>1 DEF Served, WholeFits
      <3>3. serving.last_modified \in 0..Now
        BY <1>1 DEF Served, ServingFits
      <3> QED BY <1>3, <2>2, <3>2, <3>3 DEF CopyFits, Content
    <2> QED BY <2>1, <2>2 DEF Deliver
  <1>5. Served(NoServing)'
    <2>1. handle' = 0
      BY <1>1, <1>2
    <2>2. (FileFits /\ handle = 0 => Served(NoServing))'
      BY IdleServed, PTL
    <2> QED BY <1>3, <2>1, <2>2
  <1> QED BY <1>2, <1>3, <1>4, <1>5 DEF StaticInv, Served
-----------------------------------------------------------------------------
LEMMA StaticStarts == StaticInit => StaticInv
  <1> SUFFICES ASSUME StaticInit PROVE StaticInv
    OBVIOUS
  <1>1. FileFits
    <2>1. Len(Sizes) \in Nat /\ Len(Sizes) > 0
      BY StaticAssumption DEF StaticAssumption
    <2> QED BY <2>1 DEF StaticInit, FileFits, Now
  <1>2. CopyFits
    BY DEF StaticInit, CopyFits, NoCopy, Now
  <1>3. Served(serving)
    BY <1>1, IdleServed DEF StaticInit
  <1> QED BY <1>1, <1>2, <1>3 DEF StaticInv

LEMMA StaticKept == StaticInv /\ [StaticNext]_static_vars => StaticInv'
  <1> SUFFICES ASSUME StaticInv, [StaticNext]_static_vars PROVE StaticInv'
    OBVIOUS
  <1>1. ASSUME NEW in_place \in BOOLEAN, Write(in_place) PROVE StaticInv'
    BY <1>1, WriteKeeps
  <1>2. CASE Unlink
    BY <1>2, UnlinkKeeps
  <1>3. ASSUME NEW target \in {"file", "directory", "link", "dots"}, NEW only_head \in BOOLEAN, NEW slash \in BOOLEAN,
               NEW conditional \in BOOLEAN, NEW range \in Ranges \cup {NoRange},
               Ask(target, only_head, slash, conditional, range)
        PROVE  StaticInv'
    BY <1>3, AskKeeps
  <1>4. CASE Stat
    BY <1>4, StatKeeps
  <1>5. CASE Size
    BY <1>5, SizeKeeps
  <1>6. CASE FileStat
    BY <1>6, FileStatKeeps
  <1>7. CASE Open
    BY <1>7, OpenKeeps
  <1>8. CASE Read
    BY <1>8, ReadKeeps
  <1>9. CASE ReadChunk
    BY <1>9, ReadChunkKeeps
  <1>10. CASE Deliver
    BY <1>10, DeliverKeeps
  <1>11. CASE UNCHANGED static_vars
    <2>1. serving' = serving /\ UNCHANGED <<file, copy, handle>>
      BY <1>11 DEF static_vars
    <2> QED BY <2>1, ServedStays DEF StaticInv
  <1> QED BY <1>1, <1>2, <1>3, <1>4, <1>5, <1>6, <1>7, <1>8, <1>9, <1>10, <1>11 DEF StaticNext

LEMMA InvServed == StaticInv => ServedAsSaid
  <1> SUFFICES ASSUME StaticInv PROVE ServedAsSaid
    OBVIOUS
  <1>1. Served(serving)
    BY DEF StaticInv
  <1>2. NotModifiedIsTrue
    BY <1>1 DEF Served, NotModifiedIsTrue
  <1>3. RangeAsAnnounced
    BY <1>1 DEF Served, RangeFits, RangeAsAnnounced, Now
  <1> QED BY <1>2, <1>3 DEF ServedAsSaid

\* Whatever is written or removed between the stat, the open and the reads, of whatever sizes: a 304 is
\* said only to a client whose copy is what the file held at the stat, and a 206 whose file was not
\* changed meanwhile begins with the range that it announces.
THEOREM AnswersTellOfTheFile == StaticSpec => []ServedAsSaid
  <1>1. StaticInit => StaticInv
    BY StaticStarts
  <1>2. StaticInv /\ [StaticNext]_static_vars => StaticInv'
    BY StaticKept
  <1>3. StaticInv => ServedAsSaid
    BY InvServed
  <1> QED BY <1>1, <1>2, <1>3, PTL DEF StaticSpec
-----------------------------------------------------------------------------
(* What a request is read as *)

\* what was sent, or put into its place
HeadersFit ==
    /\ DOMAIN req = {"headers", "content", "chunks", "route", "error_format", "is_stream", "fallback"}
    /\ \A name \in DOMAIN req.headers : IsHeader(name, req.headers[name])
    /\ req.fallback \in ToSet(Formats) \cup {"auto"}

\* nobody has taken of the body, and it was received or was not
BodyFits ==
    /\ DOMAIN stream = {"left", "body", "taken", "received"}
    /\ ~stream.taken => \/ stream.left = req.chunks /\ stream.body = <<>> /\ ~stream.received
                        \/ stream.left = <<>> /\ stream.body = req.chunks

At(w, v) == IF v \in DOMAIN w THEN w[v] ELSE Unread
JsonOf(chunks) == [value |-> "json", body |-> chunks]

\* what is cached, w, was read, and of one body and one set of proxy headers
ViewsFit(w, chunks) ==
    /\ \A v \in DOMAIN w : w[v] # Unread
    /\ At(w, "json") \in {Unread, Nil, JsonOf(chunks)}
    /\ At(w, "files") = At(w, "form")
    /\ IsHeader("accept", At(w, "accept")) \/ At(w, "accept") = Unread
    /\ At(w, "accept") # Invalid
    /\ \A v \in {"remote_addr", "scheme"} \cap DOMAIN w :
          At(w, "forwarded") # Unread /\ w[v].by = At(w, "forwarded")

\* and what a handler was told is cached
Fitted(v, answer, w, chunks) ==
    /\ v \in {"id", "cookies", "accept", "remote_addr", "scheme"} =>
          answer \in {Invalid, At(w, v)} \ {Unread}
    /\ v \in {"json", "token"} => answer \in {Nil, BadRequest, At(w, v)} \ {Unread}
    /\ v = "json" => answer \in {Nil, BadRequest, JsonOf(chunks)}
    /\ v = "args" => At(w, v) # Unread /\ answer.of \subseteq At(w, v).of
    /\ v \in {"remote_addr", "scheme", "host"} => At(w, "forwarded") # Unread /\ answer.by = At(w, "forwarded")

ToldFits(answers, w, chunks) == \A v \in DOMAIN answers : Fitted(v, answers[v], w, chunks)

DataInv ==
    /\ HeadersFit /\ BodyFits /\ PageAccepted
    /\ ViewsFit(views, req.chunks) /\ ToldFits(told, views, req.chunks)

LEMMA CachedAt == \A v : Cached(v) = At(views, v)
  BY DEF Cached, At

LEMMA InvReads == DataInv => ReadsAgree
  <1> SUFFICES ASSUME DataInv PROVE ReadsAgree
    OBVIOUS
  <1>0. \A v \in DOMAIN told : Fitted(v, told[v], views, req.chunks)
    BY DEF DataInv, ToldFits
  <1>1. OneForwarded
    BY <1>0 DEF Fitted, OneForwarded
  <1>2. stream.received /\ ~stream.taken => Whole
    BY DEF DataInv, BodyFits, Whole
  <1>3. Told("json") \notin {Unread, Nil, BadRequest} => Told("json").body = req.chunks
    BY <1>0 DEF Fitted, Told, JsonOf
  <1>4. WholeBodyRead
    BY <1>2, <1>3, CachedAt DEF WholeBodyRead, DataInv, ViewsFit
  <1>5. AsTold
    BY <1>0, CachedAt DEF Fitted, AsTold
  <1> QED BY <1>1, <1>4, <1>5 DEF ReadsAgree, DataInv

LEMMA Sentinels ==
    /\ Unread # Nil /\ Unread # Invalid /\ Unread # BadRequest /\ Nil # Invalid /\ Nil # BadRequest
    /\ \A r : DOMAIN r # {"value"} => r \notin {Unread, Nil, Invalid, BadRequest}
    /\ "json" # "nothing"
  BY DEF Unread, Nil, Invalid, BadRequest

\* what views may become
StaysCached(old, new) ==
    /\ \A v \in {"id", "cookies", "accept", "remote_addr", "scheme", "forwarded"} :
          At(old, v) # Unread => At(new, v) = At(old, v)
    /\ \A v \in {"json", "token"} : At(old, v) \notin {Unread, Nil} => At(new, v) = At(old, v)
    /\ At(old, "args") # Unread => At(new, "args") # Unread /\ At(old, "args").of \subseteq At(new, "args").of

LEMMA FittedThen ==
    ASSUME NEW w, NEW new, NEW chunks, StaysCached(w, new), NEW v, NEW answer, Fitted(v, answer, w, chunks)
    PROVE  Fitted(v, answer, new, chunks)
  <1>1. v \in {"id", "cookies", "accept", "remote_addr", "scheme"} => answer \in {Invalid, At(new, v)} \ {Unread}
    BY DEF Fitted, StaysCached
  <1>2. v \in {"json", "token"} => answer \in {Nil, BadRequest, At(new, v)} \ {Unread}
    BY DEF Fitted, StaysCached
  <1>3. v = "args" => At(new, v) # Unread /\ answer.of \subseteq At(new, v).of
    BY DEF Fitted, StaysCached
  <1>4. v \in {"remote_addr", "scheme", "host"} =>
           At(new, "forwarded") # Unread /\ answer.by = At(new, "forwarded")
    BY DEF Fitted, StaysCached
  <1> QED BY <1>1, <1>2, <1>3, <1>4 DEF Fitted

LEMMA TellThen ==
    ASSUME DataInv, NEW cached, NEW answers, Tell(cached, answers),
           StaysCached(views, views'), ViewsFit(views', req.chunks), ToldFits(answers, views', req.chunks)
    PROVE  DataInv'
  <1>1. page = NoPage /\ UNCHANGED <<req, stream, page, replaced>> /\ told' = Updated(told, answers)
    BY DEF Tell, Reading
  <1>2. HeadersFit' /\ BodyFits'
    BY <1>1 DEF DataInv, HeadersFit, BodyFits
  <1>3. PageAccepted'
    BY <1>1 DEF PageAccepted
  <1>4. ASSUME NEW v \in DOMAIN told PROVE Fitted(v, told[v], views', req.chunks)
    BY FittedThen DEF DataInv, ToldFits
  <1>5. ToldFits(told', views', req'.chunks)
    <2>1. ASSUME NEW v \in DOMAIN told' PROVE Fitted(v, told'[v], views', req.chunks)
      <3>1. v \in DOMAIN answers => told'[v] = answers[v]
        BY <1>1 DEF Updated
      <3>2. v \notin DOMAIN answers => v \in DOMAIN told /\ told'[v] = told[v]
        BY <1>1 DEF Updated
      <3> QED BY <1>4, <3>1, <3>2 DEF ToldFits
    <2> QED BY <1>1, <2>1 DEF ToldFits
  <1> QED BY <1>1, <1>2, <1>3, <1>5 DEF DataInv

-----------------------------------------------------------------------------
(* One view *)

LEMMA ViewsNow ==
    ASSUME DataInv
    PROVE  /\ \A v \in DOMAIN views : views[v] # Unread
           /\ Cached("json") \in {Unread, Nil, JsonOf(req.chunks)}
           /\ Cached("files") = Cached("form")
           /\ Cached("accept") # Unread => IsHeader("accept", Cached("accept"))
           /\ Cached("accept") # Invalid
           /\ \A v \in {"remote_addr", "scheme"} :
                 Cached(v) # Unread => Cached("forwarded") # Unread /\ Cached(v).by = Cached("forwarded")
  BY CachedAt DEF DataInv, ViewsFit, At

LEMMA KeepsTwice == ASSUME NEW w, NEW x, NEW y, StaysCached(w, x), StaysCached(x, y) PROVE StaysCached(w, y)
  BY Sentinels DEF StaysCached

LEMMA CacheNone ==
    ASSUME DataInv, views' = Updated(views, <<>>)
    PROVE  StaysCached(views, views') /\ ViewsFit(views', req.chunks) /\ \A v : At(views', v) = At(views, v)
  <1>1. DOMAIN views' = DOMAIN views /\ \A v \in DOMAIN views : views'[v] = views[v]
    BY DEF Updated
  <1>2. \A v : At(views', v) = At(views, v)
    BY <1>1 DEF At
  <1> QED BY <1>1, <1>2 DEF StaysCached, DataInv, ViewsFit

\* what is cached where it was not, and changes no view but itself
LEMMA CacheOne ==
    ASSUME NEW w, NEW chunks, ViewsFit(w, chunks), NEW v, NEW value, value # Unread,
           NEW cached, DOMAIN cached = {v}, cached[v] = value, NEW new, new = Updated(w, cached),
           v \notin {"form", "files", "forwarded"},
           v = "json" => value \in {Nil, JsonOf(chunks)},
           v = "accept" => IsHeader("accept", value) /\ value # Invalid,
           v \in {"remote_addr", "scheme"} => At(w, "forwarded") # Unread /\ value.by = At(w, "forwarded"),
           v \in {"id", "cookies", "accept", "remote_addr", "scheme"} => At(w, v) \in {Unread, value},
           v \in {"json", "token"} => At(w, v) \in {Unread, Nil, value},
           v = "args" => At(w, v) = Unread \/ At(w, v).of \subseteq value.of
    PROVE  StaysCached(w, new) /\ ViewsFit(new, chunks) /\ At(new, v) = value
  <1>1. /\ DOMAIN new = DOMAIN w \cup {v}
        /\ \A x : At(new, x) = IF x = v THEN value ELSE At(w, x)
    BY DEF Updated, At
  <1>2. \A x \in DOMAIN new : new[x] = IF x = v THEN value ELSE w[x]
    BY DEF Updated
  <1>3. StaysCached(w, new)
    BY <1>1 DEF StaysCached
  <1>4. ViewsFit(new, chunks)
    <2>1. \A x \in DOMAIN new : new[x] # Unread
      BY <1>1, <1>2 DEF ViewsFit
    <2>2. At(new, "json") \in {Unread, Nil, JsonOf(chunks)}
      BY <1>1 DEF ViewsFit
    <2>3. At(new, "files") = At(new, "form")
      BY <1>1 DEF ViewsFit
    <2>4. /\ IsHeader("accept", At(new, "accept")) \/ At(new, "accept") = Unread
          /\ At(new, "accept") # Invalid
      BY <1>1 DEF ViewsFit
    <2>5. ASSUME NEW x \in {"remote_addr", "scheme"} \cap DOMAIN new
          PROVE  At(new, "forwarded") # Unread /\ new[x].by = At(new, "forwarded")
      BY <1>1, <1>2 DEF ViewsFit
    <2> QED BY <2>1, <2>2, <2>3, <2>4, <2>5 DEF ViewsFit
  <1> QED BY <1>1, <1>3, <1>4

LEMMA CacheForm ==
    ASSUME DataInv, NEW value, value # Unread,
           NEW cached, DOMAIN cached = {"form", "files"}, cached["form"] = value, cached["files"] = value,
           views' = Updated(views, cached)
    PROVE  StaysCached(views, views') /\ ViewsFit(views', req.chunks)
  <1>1. /\ DOMAIN views' = DOMAIN views \cup {"form", "files"}
        /\ \A x : At(views', x) = IF x \in {"form", "files"} THEN value ELSE At(views, x)
    BY DEF Updated, At
  <1>2. \A x \in DOMAIN views' : views'[x] = IF x \in {"form", "files"} THEN value ELSE views[x]
    BY DEF Updated
  <1>3. StaysCached(views, views')
    BY <1>1 DEF StaysCached
  <1>4. ViewsFit(views', req.chunks)
    BY <1>1, <1>2 DEF ViewsFit, DataInv
  <1> QED BY <1>3, <1>4

\* where a client came from is parsed once
LEMMA ForwardedIs ==
    ASSUME DataInv
    PROVE  /\ Forwarded # Unread /\ RemoteAddr # Unread /\ Scheme # Unread
           /\ Cached("forwarded") \in {Unread, Forwarded}
           /\ RemoteAddr.by = Forwarded /\ Scheme.by = Forwarded /\ Host.by = Forwarded
           /\ Cached("remote_addr") \in {Unread, RemoteAddr} /\ Cached("scheme") \in {Unread, Scheme}
  <1>1. ParseForwarded # Unread /\ ParseXForwarded # Unread
    BY DEF ParseForwarded, ParseXForwarded, Unread, Nil
  <1>2. Forwarded # Unread /\ Cached("forwarded") \in {Unread, Forwarded}
    BY <1>1 DEF Forwarded
  <1>3. \A forwarded, part, otherwise :
            /\ PartOf(forwarded, part, otherwise).by = forwarded
            /\ PartOf(forwarded, part, otherwise) # Unread
    <2> TAKE forwarded, part, otherwise
    <2>1. \A x : DOMAIN [value |-> x, by |-> forwarded] # {"value"}
      OBVIOUS
    <2>2. \A x : [value |-> x, by |-> forwarded] # Unread
      BY <2>1, Sentinels
    <2>3. \E x : PartOf(forwarded, part, otherwise) = [value |-> x, by |-> forwarded]
      BY DEF PartOf
    <2> QED BY <2>2, <2>3
  <1>4. Cached("remote_addr") # Unread => Cached("remote_addr").by = Forwarded
    BY ViewsNow DEF Forwarded
  <1>5. Cached("scheme") # Unread => Cached("scheme").by = Forwarded
    BY ViewsNow DEF Forwarded
  <1>6. /\ RemoteAddr # Unread /\ RemoteAddr.by = Forwarded
        /\ Cached("remote_addr") \in {Unread, RemoteAddr}
    BY <1>3, <1>4 DEF RemoteAddr
  <1>7. Scheme # Unread /\ Scheme.by = Forwarded /\ Cached("scheme") \in {Unread, Scheme}
    BY <1>3, <1>5 DEF Scheme
  <1>8. Host.by = Forwarded
    BY <1>3 DEF Host
  <1> QED BY <1>2, <1>6, <1>7, <1>8

LEMMA CacheForwarded ==
    ASSUME DataInv, NEW cached, NEW new, new = Updated(views, cached),
           {"forwarded"} \subseteq DOMAIN cached, DOMAIN cached \subseteq {"forwarded", "remote_addr", "scheme"},
           cached["forwarded"] = Forwarded,
           "remote_addr" \in DOMAIN cached => cached["remote_addr"] = RemoteAddr,
           "scheme" \in DOMAIN cached => cached["scheme"] = Scheme
    PROVE  /\ StaysCached(views, new) /\ ViewsFit(new, req.chunks) /\ At(new, "forwarded") = Forwarded
           /\ \A v \in DOMAIN cached : At(new, v) = cached[v]
  <1>1. /\ DOMAIN new = DOMAIN views \cup DOMAIN cached
        /\ \A x : At(new, x) = IF x \in DOMAIN cached THEN cached[x] ELSE At(views, x)
    BY DEF Updated, At
  <1>2. \A x \in DOMAIN new : new[x] = IF x \in DOMAIN cached THEN cached[x] ELSE views[x]
    BY DEF Updated
  <1>3. StaysCached(views, new)
    BY <1>1, ForwardedIs, CachedAt DEF StaysCached
  <1>4. ViewsFit(new, req.chunks)
    <2>1. \A x \in DOMAIN new : new[x] # Unread
      BY <1>1, <1>2, ForwardedIs DEF ViewsFit, DataInv
    <2>2. At(new, "json") \in {Unread, Nil, JsonOf(req.chunks)}
      BY <1>1 DEF ViewsFit, DataInv
    <2>3. At(new, "files") = At(new, "form")
      BY <1>1 DEF ViewsFit, DataInv
    <2>4. /\ IsHeader("accept", At(new, "accept")) \/ At(new, "accept") = Unread
          /\ At(new, "accept") # Invalid
      BY <1>1 DEF ViewsFit, DataInv
    <2>5. At(new, "forwarded") = Forwarded /\ Forwarded # Unread
      BY <1>1, ForwardedIs
    <2>6. ASSUME NEW x \in {"remote_addr", "scheme"} \cap DOMAIN new PROVE new[x].by = Forwarded
      <3>1. CASE x \in DOMAIN cached
        BY <1>2, <3>1, ForwardedIs
      <3>2. CASE x \notin DOMAIN cached
        <4>1. x \in DOMAIN views /\ new[x] = views[x] /\ Cached(x) = views[x]
          BY <1>1, <1>2, <3>2 DEF Cached
        <4> QED BY <4>1, ForwardedIs, ViewsNow
      <3> QED BY <3>1, <3>2
    <2> QED BY <2>1, <2>2, <2>3, <2>4, <2>5, <2>6 DEF ViewsFit
  <1> QED BY <1>1, <1>3, <1>4

-----------------------------------------------------------------------------
(* What a handler reads *)

LEMMA ReadForwardedKeeps ==
    ASSUME DataInv, ReadRemoteAddr \/ ReadScheme \/ ReadHost \/ ReadUrl
    PROVE  DataInv'
  <1>1. ASSUME NEW cached, NEW answers, Tell(cached, answers),
               {"forwarded"} \subseteq DOMAIN cached, DOMAIN cached \subseteq {"forwarded", "remote_addr", "scheme"},
               cached["forwarded"] = Forwarded,
               "remote_addr" \in DOMAIN cached => cached["remote_addr"] = RemoteAddr,
               "scheme" \in DOMAIN cached => cached["scheme"] = Scheme,
               DOMAIN answers \subseteq {"remote_addr", "scheme", "host"},
               "host" \in DOMAIN answers => answers["host"] = Host,
               \A v \in DOMAIN answers \ {"host"} : v \in DOMAIN cached /\ answers[v] = cached[v]
        PROVE  DataInv'
    <2>1. /\ StaysCached(views, views') /\ ViewsFit(views', req.chunks) /\ At(views', "forwarded") = Forwarded
          /\ \A v \in DOMAIN cached : At(views', v) = cached[v]
      BY <1>1, CacheForwarded DEF Tell
    <2>2. ASSUME NEW v \in DOMAIN answers PROVE Fitted(v, answers[v], views', req.chunks)
      <3>1. answers[v].by = Forwarded /\ Forwarded # Unread
        BY <1>1, ForwardedIs
      <3>2. v \in {"remote_addr", "scheme"} => answers[v] = At(views', v) /\ answers[v] # Unread
        BY <1>1, <2>1, ForwardedIs
      <3>3. v \notin {"id", "cookies", "accept", "json", "token", "args"}
        BY <1>1
      <3> QED BY <1>1, <2>1, <3>1, <3>2, <3>3 DEF Fitted
    <2> QED BY <1>1, <2>1, <2>2, TellThen DEF ToldFits
  <1>2. CASE ReadRemoteAddr
    BY <1>1, <1>2 DEF ReadRemoteAddr
  <1>3. CASE ReadScheme
    BY <1>1, <1>3 DEF ReadScheme
  <1>4. CASE ReadHost
    BY <1>1, <1>4 DEF ReadHost
  <1>5. CASE ReadUrl
    BY <1>1, <1>5 DEF ReadUrl
  <1> QED BY <1>2, <1>3, <1>4, <1>5

LEMMA JsonIs ==
    ASSUME DataInv
    PROVE  /\ Json \in {Nil, BadRequest, JsonOf(req.chunks)}
           /\ Cached("json") \in {Unread, Nil, Json}
  <1>1. LoadJson \in {Nil, BadRequest, JsonOf(req.chunks)}
    BY DEF LoadJson, Whole, JsonOf
  <1> QED BY <1>1, ViewsNow DEF Json

LEMMA JsonOfIs == \A chunks : JsonOf(chunks) \notin {Unread, Nil, Invalid, BadRequest}
  <1> TAKE chunks
  <1>1. DOMAIN JsonOf(chunks) # {"value"}
    BY DEF JsonOf
  <1> QED BY <1>1, Sentinels

LEMMA ReadJsonKeeps == ASSUME DataInv, ReadJson PROVE DataInv'
  <1>1. Tell(IF Json = BadRequest THEN <<>> ELSE [json |-> Json], [json |-> Json])
    BY DEF ReadJson
  <1>2. CASE Json = BadRequest
    <2>1. Tell(<<>>, [json |-> Json]) /\ views' = Updated(views, <<>>)
      BY <1>1, <1>2 DEF Tell
    <2>2. StaysCached(views, views') /\ ViewsFit(views', req.chunks)
      BY <2>1, CacheNone
    <2>3. Fitted("json", Json, views', req.chunks)
      BY <1>2, Sentinels DEF Fitted
    <2>4. ToldFits([json |-> Json], views', req.chunks)
      BY <2>3 DEF ToldFits
    <2> QED BY <2>1, <2>2, <2>4, TellThen
  <1>3. CASE Json # BadRequest
    <2>1. Tell([json |-> Json], [json |-> Json]) /\ views' = Updated(views, [json |-> Json])
      BY <1>1, <1>3 DEF Tell
    <2>2. Json \in {Nil, JsonOf(req.chunks)} /\ Json # Unread /\ Cached("json") \in {Unread, Nil, Json}
      BY <1>3, JsonIs, JsonOfIs, Sentinels
    <2>3. ViewsFit(views, req.chunks) /\ At(views, "json") \in {Unread, Nil, Json}
      BY <2>2, CachedAt DEF DataInv
    <2> DEFINE value == Json
               cached == [json |-> value]
    <2>4. DOMAIN cached = {"json"} /\ cached["json"] = value
      OBVIOUS
    <2>5. StaysCached(views, views') /\ ViewsFit(views', req.chunks) /\ At(views', "json") = Json
      <3> HIDE DEF value, cached
      <3>1. value = Json /\ views' = Updated(views, cached)
        BY <2>1 DEF value, cached
      <3>2. value # Unread /\ value \in {Nil, JsonOf(req.chunks)} /\ At(views, "json") \in {Unread, Nil, value}
        BY <2>2, <2>3, <3>1
      <3>3. StaysCached(views, views') /\ ViewsFit(views', req.chunks) /\ At(views', "json") = value
        BY <2>3, <2>4, <3>1, <3>2, CacheOne
      <3> QED BY <3>1, <3>3
    <2>6. Fitted("json", Json, views', req.chunks)
      BY <2>2, <2>5 DEF Fitted
    <2>7. ToldFits([json |-> Json], views', req.chunks)
      BY <2>6 DEF ToldFits
    <2> QED BY <2>1, <2>5, <2>7, TellThen
  <1> QED BY <1>2, <1>3

\* a view of a name of its own, which is told as it is cached
LEMMA ReadOneKeeps ==
    ASSUME DataInv, NEW v, NEW value, value # Unread, NEW cached, DOMAIN cached = {v}, cached[v] = value,
           Tell(cached, cached), v \in {"id", "cookies", "accept", "token"},
           v = "accept" => IsHeader("accept", value) /\ value # Invalid,
           v # "token" => Cached(v) \in {Unread, value},
           v = "token" => Cached(v) \in {Unread, Nil, value}
    PROVE  DataInv'
  <1>1. ViewsFit(views, req.chunks) /\ views' = Updated(views, cached) /\ Cached(v) = At(views, v)
    BY CachedAt DEF DataInv, Tell
  <1>2. /\ v \notin {"form", "files", "forwarded", "json", "remote_addr", "scheme", "args"}
        /\ v \in {"id", "cookies", "accept", "remote_addr", "scheme"} => At(views, v) \in {Unread, value}
        /\ v \in {"json", "token"} => At(views, v) \in {Unread, Nil, value}
    BY <1>1
  <1>3. StaysCached(views, views') /\ ViewsFit(views', req.chunks) /\ At(views', v) = value
    <2> DEFINE new == views'
               chunks == req.chunks
    <2>1. ViewsFit(views, chunks) /\ new = Updated(views, cached)
      BY <1>1
    <2> HIDE DEF new, chunks
    <2>2. StaysCached(views, new) /\ ViewsFit(new, chunks) /\ At(new, v) = value
      BY <1>2, <2>1, CacheOne
    <2> QED BY <2>2 DEF new, chunks
  <1>4. Fitted(v, value, views', req.chunks)
    BY <1>3 DEF Fitted
  <1>5. ToldFits(cached, views', req.chunks)
    BY <1>4 DEF ToldFits
  <1> QED BY <1>3, <1>5, TellThen

LEMMA HeaderIs == ASSUME DataInv PROVE \A name : Header(name) # Unread
  BY Sentinels DEF DataInv, HeadersFit, IsHeader, Header, Has

LEMMA ReadHeaderKeeps == ASSUME DataInv, ReadCookies \/ ReadToken \/ ReadId PROVE DataInv'
  <1>1. CASE ReadCookies
    <2> DEFINE value == IF Cached("cookies") # Unread THEN Cached("cookies") ELSE Header("cookie")
               cached == [cookies |-> value]
    <2>1. value # Unread /\ Cached("cookies") \in {Unread, value}
      BY HeaderIs
    <2>2. DOMAIN cached = {"cookies"} /\ cached["cookies"] = value
      OBVIOUS
    <2>3. Tell(cached, cached)
      BY <1>1 DEF ReadCookies
    <2> HIDE DEF value, cached
    <2> QED BY <2>1, <2>2, <2>3, ReadOneKeeps
  <1>2. CASE ReadToken
    <2> DEFINE value == Token
               cached == [token |-> value]
    <2>1. value # Unread /\ Cached("token") \in {Unread, Nil, value}
      BY HeaderIs DEF Token
    <2>2. DOMAIN cached = {"token"} /\ cached["token"] = value
      OBVIOUS
    <2>3. Tell(cached, cached)
      BY <1>2 DEF ReadToken
    <2> HIDE DEF value, cached
    <2> QED BY <2>1, <2>2, <2>3, ReadOneKeeps
  <1>3. CASE ReadId
    <2> DEFINE value == RequestId
               cached == [id |-> value]
    <2>1. value # Unread /\ Cached("id") \in {Unread, value}
      BY HeaderIs DEF RequestId, Unread
    <2>2. DOMAIN cached = {"id"} /\ cached["id"] = value
      OBVIOUS
    <2>3. Tell(cached, cached)
      BY <1>3 DEF ReadId
    <2> HIDE DEF value, cached
    <2> QED BY <2>1, <2>2, <2>3, ReadOneKeeps
  <1> QED BY <1>1, <1>2, <1>3

LEMMA AnythingIs == IsHeader("accept", [value |-> "accept", list |-> {Anything}])
                    /\ [value |-> "accept", list |-> {Anything}] # Invalid
  <1> DEFINE any == [value |-> "accept", list |-> {Anything}]
  <1>1. DOMAIN any = {"value", "list"} /\ any.list = {Anything} /\ Anything.q \in Nat
    BY DEF Anything
  <1>2. IsFiniteSet({Anything})
    BY FS_Singleton
  <1>3. any \notin {Unread, Invalid}
    <2>1. DOMAIN any # {"value"}
      BY <1>1
    <2> QED BY <2>1, Sentinels
  <1> HIDE DEF any
  <1> QED BY <1>1, <1>2, <1>3 DEF IsHeader, any

LEMMA AcceptIs == ASSUME DataInv PROVE IsHeader("accept", Accept) /\ Cached("accept") \in {Unread, Accept}
  <1>1. IsHeader("accept", ParseAccept)
    BY AnythingIs DEF ParseAccept, Header, Has, DataInv, HeadersFit
  <1> QED BY <1>1, ViewsNow DEF Accept

LEMMA ReadAcceptKeeps == ASSUME DataInv, ReadAccept PROVE DataInv'
  <1>1. CASE Accept = Invalid
    <2>1. Tell(<<>>, [accept |-> Accept]) /\ views' = Updated(views, <<>>)
      BY <1>1 DEF ReadAccept, Tell
    <2>2. StaysCached(views, views') /\ ViewsFit(views', req.chunks)
      BY <2>1, CacheNone
    <2>3. Fitted("accept", Accept, views', req.chunks)
      BY <1>1, Sentinels DEF Fitted
    <2>4. ToldFits([accept |-> Accept], views', req.chunks)
      BY <2>3 DEF ToldFits
    <2> QED BY <2>1, <2>2, <2>4, TellThen
  <1>2. CASE Accept # Invalid
    <2> DEFINE value == Accept
               cached == [accept |-> value]
    <2>1. /\ value # Unread /\ Cached("accept") \in {Unread, value}
          /\ IsHeader("accept", value) /\ value # Invalid
      BY <1>2, AcceptIs DEF IsHeader
    <2>2. DOMAIN cached = {"accept"} /\ cached["accept"] = value
      OBVIOUS
    <2>3. Tell(cached, cached)
      BY <1>2 DEF ReadAccept
    <2> HIDE DEF value, cached
    <2> QED BY <2>1, <2>2, <2>3, ReadOneKeeps
  <1> QED BY <1>1, <1>2

LEMMA ReadFormKeeps == ASSUME DataInv, ReadForm \/ ReadFormAgain PROVE DataInv'
  <1>0. GetForm # Unread
    BY DEF GetForm, Unread
  <1>1. ASSUME NEW value, value # Unread, NEW cached, DOMAIN cached = {"form", "files"},
               cached["form"] = value, cached["files"] = value,
               NEW answers, Tell(cached, answers), DOMAIN answers \subseteq {"form", "files"}
        PROVE  DataInv'
    <2>1. StaysCached(views, views') /\ ViewsFit(views', req.chunks)
      BY <1>1, CacheForm DEF Tell
    <2>2. ToldFits(answers, views', req.chunks)
      BY <1>1 DEF ToldFits, Fitted
    <2> QED BY <1>1, <2>1, <2>2, TellThen
  <1>2. CASE ReadForm
    <2> DEFINE value == IF Cached("form") # Unread THEN Cached("form") ELSE GetForm
               cached == [form |-> value, files |-> value]
    <2>1. value # Unread
      BY <1>0
    <2>2. DOMAIN cached = {"form", "files"} /\ cached["form"] = value /\ cached["files"] = value
      OBVIOUS
    <2>3. Tell(cached, cached)
      BY <1>2 DEF ReadForm
    <2> HIDE DEF value, cached
    <2> QED BY <1>1, <2>1, <2>2, <2>3
  <1>3. CASE ReadFormAgain
    <2> DEFINE value == GetForm
               cached == [form |-> value, files |-> value]
               answers == [form |-> value]
    <2>2. /\ DOMAIN cached = {"form", "files"} /\ cached["form"] = value /\ cached["files"] = value
          /\ DOMAIN answers \subseteq {"form", "files"} /\ value # Unread
      BY <1>0
    <2>3. Tell(cached, answers)
      BY <1>3 DEF ReadFormAgain
    <2> HIDE DEF value, cached, answers
    <2> QED BY <1>1, <2>2, <2>3
  <1> QED BY <1>2, <1>3

LEMMA ReadArgsKeeps == ASSUME DataInv, NEW opts, ReadArgs(opts) PROVE DataInv'
  <1> DEFINE parsed == (IF Cached("args") = Unread THEN {} ELSE Cached("args").of) \cup {opts}
             value == [value |-> "args", of |-> parsed]
             told_of == [value |-> "args", of |-> {opts}]
             cached == [args |-> value]
             answers == [args |-> told_of]
  <1>1. Tell(cached, answers)
    BY DEF ReadArgs
  <1>2. /\ DOMAIN value = {"value", "of"} /\ value.of = parsed /\ told_of.of = {opts}
        /\ DOMAIN cached = {"args"} /\ cached["args"] = value
        /\ DOMAIN answers = {"args"} /\ answers["args"] = told_of
    OBVIOUS
  <1>3. value # Unread
    <2>1. DOMAIN value # {"value"}
      BY <1>2
    <2> HIDE DEF value
    <2> QED BY <2>1, Sentinels
  <1>4. At(views, "args") = Unread \/ At(views, "args").of \subseteq value.of
    BY <1>2, CachedAt
  <1> HIDE DEF value, told_of, cached, answers
  <1>5. ViewsFit(views, req.chunks) /\ views' = Updated(views, cached)
    BY <1>1 DEF DataInv, Tell
  <1>6. StaysCached(views, views') /\ ViewsFit(views', req.chunks) /\ At(views', "args") = value
    BY <1>2, <1>3, <1>4, <1>5, CacheOne
  <1>7. Fitted("args", told_of, views', req.chunks)
    BY <1>2, <1>3, <1>6 DEF Fitted
  <1>8. ToldFits(answers, views', req.chunks)
    BY <1>2, <1>7 DEF ToldFits
  <1> QED BY <1>1, <1>6, <1>8, TellThen

-----------------------------------------------------------------------------
(* The body and the headers *)

LEMMA SameViews ==
    ASSUME DataInv, UNCHANGED <<views, told, page, reads>>, page = NoPage,
           req'.chunks = req.chunks, HeadersFit', BodyFits'
    PROVE  DataInv'
  <1>1. PageAccepted'
    BY DEF PageAccepted
  <1> QED BY <1>1 DEF DataInv

LEMMA BodyStays == ASSUME DataInv, Route \/ ReadBody \/ Take PROVE DataInv'
  <1>1. ASSUME ReceiveBody \/ UNCHANGED stream, req'.chunks = req.chunks PROVE BodyFits'
    <2>1. BodyFits
      BY DEF DataInv
    <2>2. CASE UNCHANGED stream
      BY <1>1, <2>1, <2>2 DEF BodyFits
    <2>3. CASE ReceiveBody
      <3>1. /\ DOMAIN stream' = DOMAIN stream /\ stream'.taken = stream.taken
            /\ stream'.body = IF stream.body = <<>> THEN stream.left ELSE stream.body
            /\ stream'.left = IF stream.body = <<>> THEN <<>> ELSE stream.left
        BY <2>1, <2>3 DEF ReceiveBody, BodyFits
      <3> QED BY <1>1, <2>1, <3>1 DEF BodyFits
    <2> QED BY <1>1, <2>2, <2>3
  <1>2. CASE Route
    <2>1. HeadersFit' /\ req'.chunks = req.chunks
      BY <1>2 DEF Route, HeadersFit, DataInv
    <2>2. BodyFits'
      BY <1>1, <1>2, <2>1 DEF Route
    <2> QED BY <1>2, <2>1, <2>2, SameViews DEF Route
  <1>3. CASE ReadBody
    <2>1. HeadersFit' /\ req'.chunks = req.chunks
      BY <1>3 DEF ReadBody, HeadersFit, DataInv
    <2>2. BodyFits'
      BY <1>1, <1>3, <2>1 DEF ReadBody
    <2> QED BY <1>3, <2>1, <2>2, SameViews DEF ReadBody
  <1>4. CASE Take
    <2>1. HeadersFit' /\ req'.chunks = req.chunks
      BY <1>4 DEF Take, HeadersFit, DataInv
    <2>2. BodyFits'
      <3>1. stream' = [stream EXCEPT !.left = Tail(@), !.taken = TRUE] /\ BodyFits
        BY <1>4 DEF Take, DataInv
      <3>2. DOMAIN stream' = DOMAIN stream /\ stream'.taken
        BY <3>1 DEF BodyFits
      <3> QED BY <3>1, <3>2 DEF BodyFits
    <2> QED BY <1>4, <2>1, <2>2, SameViews DEF Take
  <1> QED BY <1>2, <1>3, <1>4

LEMMA ReplaceKeeps == ASSUME DataInv, NEW r \in Replacements, ReplaceHeader(r[1], r[2]) PROVE DataInv'
  <1>1. req' = [req EXCEPT !.headers = Updated(@, [n \in {r[1]} |-> r[2]])]
    BY DEF ReplaceHeader
  <1>2. IsHeader(r[1], r[2])
    BY DataAssumption DEF DataAssumption
  <1>3. HeadersFit'
    BY <1>1, <1>2 DEF HeadersFit, DataInv, Updated
  <1>4. req'.chunks = req.chunks /\ BodyFits'
    BY <1>1 DEF ReplaceHeader, BodyFits, DataInv
  <1> QED BY <1>3, <1>4, SameViews DEF ReplaceHeader

-----------------------------------------------------------------------------
(* The error page *)

LEMMA Greatest ==
    ASSUME NEW S, IsFiniteSet(S), S \subseteq Nat, S # {}
    PROVE  Max(S) \in S /\ \A x \in S : x <= Max(S)
  <1> DEFINE R == {pair \in S \X S : pair[1] > pair[2]}
             s == Sorted(S, R)
  <1>1. StrictOrder(S, R)
    BY DEF StrictOrder
  <1>2. /\ s \in Seq(S) /\ \A f \in S : \E i \in DOMAIN s : s[i] = f
        /\ \A i, j \in DOMAIN s : i < j => <<s[i], s[j]>> \in R
    <2> HIDE DEF R
    <2> QED BY <1>1, SortedOf
  <1>0. \A a, b : <<a, b>> \in R => a > b
    OBVIOUS
  <1> HIDE DEF s, R
  <1>3. DOMAIN s = 1..Len(s) /\ Len(s) \in Nat /\ \A i \in 1..Len(s) : s[i] \in S
    BY <1>2, LenProperties
  <1>4. 1 \in DOMAIN s /\ s[1] \in S
    <2>1. PICK f \in S : TRUE
      OBVIOUS
    <2>2. PICK i \in DOMAIN s : s[i] = f
      BY <1>2
    <2> QED BY <1>3, <2>2
  <1>5. ASSUME NEW x \in S PROVE s[1] >= x
    <2>1. PICK i \in DOMAIN s : s[i] = x
      BY <1>2
    <2>2. CASE i = 1
      BY <1>4, <2>1, <2>2
    <2>3. CASE i # 1
      <3>1. <<s[1], s[i]>> \in R
        <4>1. i \in Nat /\ 1 < i
          BY <1>3, <2>1, <2>3
        <4> QED BY <1>2, <1>4, <2>1, <4>1
      <3>2. s[1] > s[i]
        BY <1>0, <3>1
      <3>3. s[1] \in Nat /\ x \in Nat
        BY <1>4
      <3> QED BY <2>1, <3>2, <3>3
    <2> QED BY <2>2, <2>3
  <1>6. \E x \in S : \A y \in S : x >= y
    BY <1>4, <1>5
  <1>7. Max(S) \in S /\ \A y \in S : Max(S) >= y
    BY <1>6 DEF Max
  <1> QED BY <1>7

LEMMA Smallest ==
    ASSUME NEW S, S \subseteq Nat, S # {}
    PROVE  Min(S) \in S /\ \A x \in S : Min(S) <= x
  BY Least DEF Min

\* what an answer of a format is to a client, as PageAccepted has it
Matching(list, format) == {m \in list : MatchesMime(m, MimeByConfig[format])}
Quality(list, format) == Max({0} \cup {1 + m.q : m \in Matching(list, format)})

Accepts(list) == IsFiniteSet(list) /\ \A media \in list : media.q \in Nat

LEMMA QualityIs ==
    ASSUME NEW list, Accepts(list), NEW format
    PROVE  /\ Quality(list, format) \in Nat
           /\ \A m \in Matching(list, format) : 1 + m.q <= Quality(list, format)
           /\ Quality(list, format) # 0 => \E m \in Matching(list, format) : Quality(list, format) = 1 + m.q
  <1> DEFINE M == Matching(list, format)
             Q == {1 + m.q : m \in M}
             S == {0} \cup Q
  <1>1. M \subseteq list /\ IsFiniteSet(M)
    <2>1. M \in SUBSET list
      BY DEF Matching
    <2> HIDE DEF M
    <2> QED BY <2>1, FS_Subset DEF Accepts
  <1>2. IsFiniteSet(Q)
    <2> HIDE DEF M
    <2> DEFINE f == [m \in M |-> 1 + m.q]
    <2>1. f \in Surjection(M, Q)
      BY DEF Surjection
    <2> HIDE DEF Q, f
    <2> QED BY <1>1, <2>1, FS_Surjection
  <1>3. IsFiniteSet(S)
    <2> HIDE DEF Q
    <2> QED BY <1>2, FS_Singleton, FS_Union
  <1>4. S \subseteq Nat /\ S # {}
    <2> HIDE DEF M
    <2> QED BY <1>1 DEF Accepts
  <1>5. Max(S) \in S /\ \A x \in S : x <= Max(S)
    <2> HIDE DEF S
    <2> QED BY <1>3, <1>4, Greatest
  <1>6. Quality(list, format) = Max(S)
    BY DEF Quality
  <1> HIDE DEF M
  <1>7. Max(S) \in Nat /\ (Max(S) # 0 => \E m \in M : Max(S) = 1 + m.q) /\ \A m \in M : 1 + m.q <= Max(S)
    BY <1>4, <1>5
  <1> QED BY <1>6, <1>7 DEF M

\* the format that is chosen is one of the best, and the first of them
LEMMA MatchIs ==
    ASSUME NEW accept, Accepts(accept.list), NEW fs \in Seq(ToSet(Formats))
    PROVE  \/ /\ Match(accept, fs) = ""
              /\ \A i \in DOMAIN fs : Quality(accept.list, fs[i]) = 0
           \/ \E k \in DOMAIN fs :
                 /\ Match(accept, fs) = fs[k] /\ Quality(accept.list, fs[k]) # 0
                 /\ \A i \in DOMAIN fs :
                       /\ Quality(accept.list, fs[i]) <= Quality(accept.list, fs[k])
                       /\ i < k => Quality(accept.list, fs[i]) < Quality(accept.list, fs[k])
  <1> DEFINE list == accept.list
             hits == {hit \in list \X DOMAIN fs : MatchesMime(hit[1], MimeByConfig[fs[hit[2]]])}
             B    == {hit[1].q : hit \in hits}
             best == Max(B)
             firsts == {hit[2] : hit \in {x \in hits : x[1].q = best}}
             k    == Min(firsts)
             Worth(i) == Quality(list, fs[i])
  <1>1. Match(accept, fs) = IF hits = {} THEN "" ELSE fs[k]
    BY DEF Match
  <1>2. DOMAIN fs = 1..Len(fs) /\ Len(fs) \in Nat /\ IsFiniteSet(DOMAIN fs)
    BY LenProperties, FS_Interval
  <1>3. \A i \in DOMAIN fs, m \in list : <<m, i>> \in hits <=> m \in Matching(list, fs[i])
    BY DEF Matching
  <1>4. \A hit \in hits : hit[1] \in list /\ hit[2] \in DOMAIN fs /\ hit[1].q \in Nat /\ hit = <<hit[1], hit[2]>>
    BY DEF Accepts
  <1>5. IsFiniteSet(hits)
    <2>1. IsFiniteSet(list \X DOMAIN fs)
      BY <1>2, FS_Product DEF Accepts
    <2>2. hits \in SUBSET (list \X DOMAIN fs)
      OBVIOUS
    <2> HIDE DEF hits
    <2> QED BY <2>1, <2>2, FS_Subset
  <1> HIDE DEF hits
  <1>6. ASSUME NEW i \in DOMAIN fs
        PROVE  /\ Worth(i) \in Nat
               /\ \A m \in list : <<m, i>> \in hits => 1 + m.q <= Worth(i)
               /\ Worth(i) # 0 => \E m \in list : <<m, i>> \in hits /\ Worth(i) = 1 + m.q
    <2> DEFINE M == Matching(list, fs[i])
    <2>1. M \subseteq list
      BY DEF Matching
    <2>2. /\ Worth(i) \in Nat
          /\ \A m \in M : 1 + m.q <= Worth(i)
          /\ Worth(i) # 0 => \E m \in M : Worth(i) = 1 + m.q
      BY QualityIs
    <2> HIDE DEF M, list
    <2>3. \A m \in list : <<m, i>> \in hits <=> m \in M
      BY <1>3 DEF M
    <2> QED BY <2>1, <2>2, <2>3
  <1>7. CASE hits = {}
    <2>1. \A i \in DOMAIN fs : Worth(i) = 0
      BY <1>6, <1>7
    <2> QED BY <1>1, <1>7, <2>1
  <1>8. CASE hits # {}
    <2>1. IsFiniteSet(B)
      <3> DEFINE f == [hit \in hits |-> hit[1].q]
      <3>1. f \in Surjection(hits, B)
        BY DEF Surjection
      <3> HIDE DEF B, f
      <3> QED BY <1>5, <3>1, FS_Surjection
    <2>2. B \subseteq Nat /\ B # {}
      BY <1>4, <1>8
    <2>3. best \in B /\ \A q \in B : q <= best
      <3> HIDE DEF B
      <3> QED BY <2>1, <2>2, Greatest
    <2>4. best \in Nat /\ \A hit \in hits : hit[1].q <= best
      BY <2>2, <2>3
    <2>5. \E hit \in hits : hit[1].q = best
      BY <2>3
    <2> HIDE DEF B, best
    <2>6. firsts \subseteq Nat /\ firsts # {}
      BY <1>2, <1>4, <2>5
    <2>7. k \in firsts /\ \A i \in firsts : k <= i
      <3> HIDE DEF firsts
      <3> QED BY <2>6, Smallest
    <2> HIDE DEF k
    <2>8. PICK hit \in hits : hit[1].q = best /\ hit[2] = k
      BY <2>7
    <2>9. k \in DOMAIN fs /\ 1 + best <= Worth(k) /\ Worth(k) \in Nat
      <3>1. k \in DOMAIN fs /\ hit[1] \in list /\ <<hit[1], k>> \in hits
        BY <1>4, <2>8
      <3> HIDE DEF list, Worth
      <3> QED BY <1>6, <2>8, <3>1
    <2>10. ASSUME NEW i \in DOMAIN fs
           PROVE  /\ Worth(i) \in Nat /\ Worth(i) <= 1 + best
                  /\ i < k => Worth(i) < 1 + best
      <3>1. Worth(i) \in Nat
        BY <1>6
      <3>2. CASE Worth(i) = 0
        <4> HIDE DEF Worth
        <4> QED BY <2>4, <3>2
      <3>3. CASE Worth(i) # 0
        <4>1. PICK m \in list : <<m, i>> \in hits /\ Worth(i) = 1 + m.q
          BY <1>6, <3>3
        <4>2. m.q \in Nat /\ m.q <= best
          BY <1>4, <2>4, <4>1
        <4>3. m.q = best => i \in firsts
          BY <4>1
        <4>4. m.q = best => k <= i
          BY <2>7, <4>3
        <4>5. i \in Nat /\ k \in Nat
          BY <1>2, <2>9
        <4> HIDE DEF Worth, firsts
        <4> QED BY <2>4, <4>1, <4>2, <4>4, <4>5
      <3> QED BY <3>1, <3>2, <3>3
    <2>11. Worth(k) = 1 + best /\ Worth(k) # 0
      <3> HIDE DEF Worth
      <3> QED BY <2>4, <2>9, <2>10
    <2>12. \A i \in DOMAIN fs : Worth(i) <= Worth(k) /\ (i < k => Worth(i) < Worth(k))
      <3> HIDE DEF Worth
      <3> QED BY <2>10, <2>11
    <2>13. Match(accept, fs) = fs[k]
      BY <1>1, <1>8
    <2> QED BY <2>9, <2>11, <2>12, <2>13
  <1> QED BY <1>7, <1>8

LEMMA FirstWins ==
    ASSUME NEW accept, Accepts(accept.list), NEW fs \in Seq(ToSet(Formats)), fs # <<>>,
           Quality(accept.list, fs[1]) # 0,
           \A i \in DOMAIN fs : Quality(accept.list, fs[i]) <= Quality(accept.list, fs[1])
    PROVE  Match(accept, fs) = fs[1]
  <1> DEFINE Worth(i) == Quality(accept.list, fs[i])
  <1>1. DOMAIN fs = 1..Len(fs) /\ Len(fs) \in Nat /\ 1 \in DOMAIN fs
    BY LenProperties, EmptySeq
  <1>2. \A i \in DOMAIN fs : Worth(i) \in Nat
    BY QualityIs
  <1>3. PICK k \in DOMAIN fs : Match(accept, fs) = fs[k] /\ \A i \in DOMAIN fs : i < k => Worth(i) < Worth(k)
    BY <1>1, MatchIs
  <1>4. Worth(k) <= Worth(1)
    BY <1>3
  <1> HIDE DEF Worth
  <1>5. ~(1 < k)
    BY <1>1, <1>2, <1>3, <1>4
  <1>6. k = 1
    BY <1>1, <1>5
  <1> QED BY <1>3, <1>6

LEMMA FormatsAre ==
    /\ ToSet(Formats) = {"text", "json", "html"} /\ Formats \in Seq(ToSet(Formats))
    /\ \A f \in ToSet(Formats) : \E i \in DOMAIN Formats : Formats[i] = f
    /\ "auto" \notin ToSet(Formats) /\ "" \notin ToSet(Formats)
  <1>1. DOMAIN Formats = 1..3 /\ Formats[1] = "text" /\ Formats[2] = "json" /\ Formats[3] = "html"
    BY DEF Formats
  <1>2. ToSet(Formats) = {"text", "json", "html"}
    BY <1>1 DEF ToSet
  <1>3. Formats \in Seq({"text", "json", "html"})
    BY DEF Formats
  <1> QED BY <1>1, <1>2, <1>3

LEMMA KeptFormats ==
    ASSUME NEW keep
    PROVE  /\ Kept(Formats, keep) \in Seq(ToSet(Formats))
           /\ DOMAIN Kept(Formats, keep) = 1..Len(Kept(Formats, keep)) /\ Len(Kept(Formats, keep)) \in Nat
           /\ \A i \in DOMAIN Kept(Formats, keep) : Kept(Formats, keep)[i] \in ToSet(Formats) \cap keep
           /\ \A f \in ToSet(Formats) \cap keep : \E i \in DOMAIN Kept(Formats, keep) : Kept(Formats, keep)[i] = f
  <1> DEFINE kept == Kept(Formats, keep)
             F == ToSet(Formats)
  <1>1. /\ kept \in Seq(F \cap keep)
        /\ \A i \in DOMAIN Formats : Formats[i] \in keep => \E k \in DOMAIN kept : kept[k] = Formats[i]
    <2>1. Formats \in Seq(F)
      BY FormatsAre
    <2> HIDE DEF F
    <2> QED BY <2>1, KeptOf
  <1> HIDE DEF kept, F
  <1>2. kept \in Seq(F)
    <2>1. Seq(F \cap keep) \subseteq Seq(F)
      OBVIOUS
    <2> QED BY <1>1, <2>1
  <1>3. DOMAIN kept = 1..Len(kept) /\ Len(kept) \in Nat /\ \A i \in DOMAIN kept : kept[i] \in F \cap keep
    BY <1>1, LenProperties
  <1>4. \A f \in F \cap keep : \E i \in DOMAIN kept : kept[i] = f
    BY <1>1, FormatsAre DEF F
  <1> QED BY <1>2, <1>3, <1>4 DEF kept, F

Best(list, format) == \A f \in ToSet(Formats) : Quality(list, f) <= Quality(list, format)
OfRoute == req.route = "routed" /\ req.error_format \in ToSet(Formats)

LEMMA LiterallyMatches ==
    ASSUME NEW accept, Accepts(accept.list), Literally(accept, "json")
    PROVE  Quality(accept.list, "json") # 0
  <1>1. PICK m \in accept.list : m.type = MimeByConfig["json"].type /\ m.subtype = MimeByConfig["json"].subtype
    BY DEF Literally
  <1>2. m \in Matching(accept.list, "json")
    BY <1>1 DEF Matching, MatchesMime
  <1>3. 1 + m.q <= Quality(accept.list, "json") /\ m.q \in Nat
    BY <1>2, QualityIs DEF Accepts
  <1>4. Quality(accept.list, "json") \in Nat
    BY QualityIs
  <1> QED BY <1>3, <1>4

LEMMA GuessIs ==
    ASSUME Accepts(Accept.list), req.fallback \in ToSet(Formats) \cup {"auto"}
    PROVE  /\ req.fallback = "auto" =>
                 \/ Guess = "" /\ \A f \in ToSet(Formats) : Quality(Accept.list, f) = 0
                 \/ Guess \in ToSet(Formats) /\ Best(Accept.list, Guess)
           /\ req.fallback = "auto" /\ OfRoute /\ Best(Accept.list, req.error_format)
                 /\ Quality(Accept.list, req.error_format) # 0 => Guess = req.error_format
           /\ req.fallback = "auto" /\ ~OfRoute /\ Literally(Accept, "json") /\ Best(Accept.list, "json")
                 => Guess = "json"
           /\ req.fallback # "auto" /\ ~OfRoute /\ Quality(Accept.list, req.fallback) # 0
                 => Guess = req.fallback
  <1> DEFINE F == ToSet(Formats)
             config == IF req.route = "routed" THEN F \cap {req.error_format} ELSE {}
             keep == IF config # {} THEN config ELSE {req.fallback}
             given == Kept(Formats, keep)
             auto == req.fallback = "auto"
             json == /\ given = <<>> /\ auto /\ Match(Accept, <<"json">>) # ""
                     /\ \/ Literally(Accept, "json")
                        \/ Has("content-type") /\ Header("content-type").json
                        \/ Json \notin {Nil, BadRequest}
             first == IF json THEN <<"json">> ELSE given
             left == F \ ToSet(first)
             others == IF auto THEN Kept(Formats, left) ELSE <<>>
             fs == first \o others
             Worth(f) == Quality(Accept.list, f)
  <1>1. Guess = Match(Accept, fs)
    BY DEF Guess
  <1>2. config = IF OfRoute THEN {req.error_format} ELSE {}
    BY DEF OfRoute
  <1> HIDE DEF config
  <1>3. /\ given \in Seq(F) /\ DOMAIN given = 1..Len(given) /\ Len(given) \in Nat
        /\ \A i \in DOMAIN given : given[i] \in F \cap keep
        /\ \A f \in F \cap keep : \E i \in DOMAIN given : given[i] = f
    <2> HIDE DEF keep
    <2> QED BY KeptFormats
  <1> HIDE DEF given
  <1>4. first \in Seq(F) /\ DOMAIN first = 1..Len(first) /\ Len(first) \in Nat
    <2>1. "json" \in F
      BY FormatsAre
    <2>2. <<"json">> \in Seq(F)
      BY <2>1
    <2> HIDE DEF F, json
    <2>3. first \in Seq(F)
      BY <1>3, <2>2
    <2> HIDE DEF first
    <2> QED BY <2>3, LenProperties
  <1> HIDE DEF first
  <1>5. others \in Seq(F) /\ (auto => \A f \in F \ ToSet(first) : \E i \in DOMAIN others : others[i] = f)
    <2>1. <<>> \in Seq(F)
      OBVIOUS
    <2>2. /\ Kept(Formats, left) \in Seq(F)
          /\ \A f \in F \cap left : \E i \in DOMAIN Kept(Formats, left) : Kept(Formats, left)[i] = f
      <3> HIDE DEF left
      <3> QED BY KeptFormats
    <2> QED BY <2>1, <2>2
  <1> HIDE DEF others
  <1>6. /\ fs \in Seq(F) /\ Len(fs) = Len(first) + Len(others)
        /\ \A i \in 1..Len(first) : i \in DOMAIN fs /\ fs[i] = first[i]
        /\ \A i \in 1..Len(others) : i + Len(first) \in DOMAIN fs /\ fs[i + Len(first)] = others[i]
    <2> HIDE DEF F
    <2>1. fs \in Seq(F) /\ Len(fs) = Len(first) + Len(others) /\ DOMAIN fs = 1..Len(fs) /\ Len(others) \in Nat
      BY <1>4, <1>5, ConcatProperties, LenProperties
    <2>2. \A i \in 1..Len(first) : i \in DOMAIN fs /\ fs[i] = first[i]
      BY <1>4, <1>5, <2>1, ConcatProperties
    <2>3. \A i \in 1..Len(others) : i + Len(first) \in DOMAIN fs /\ fs[i + Len(first)] = others[i]
      BY <1>4, <1>5, <2>1, ConcatProperties
    <2> QED BY <2>1, <2>2, <2>3
  <1>7. auto => \A f \in F : \E i \in DOMAIN fs : fs[i] = f
    <2>1. SUFFICES ASSUME auto, NEW f \in F PROVE \E i \in DOMAIN fs : fs[i] = f
      OBVIOUS
    <2>2. CASE f \in ToSet(first)
      BY <1>4, <1>6, <2>2 DEF ToSet
    <2>3. CASE f \notin ToSet(first)
      <3>1. PICK i \in DOMAIN others : others[i] = f
        BY <1>5, <2>1, <2>3
      <3>2. DOMAIN others = 1..Len(others)
        BY <1>5, LenProperties
      <3> QED BY <1>6, <3>1, <3>2
    <2> QED BY <2>2, <2>3
  <1>8. ASSUME first # <<>>, Worth(first[1]) # 0,
               \/ Best(Accept.list, first[1])
               \/ fs = first /\ \A i \in DOMAIN first : first[i] = first[1]
        PROVE  Guess = first[1]
    <2>1. 1 \in 1..Len(first)
      <3> HIDE DEF F, Worth
      <3>1. Len(first) # 0
        BY <1>4, <1>8, EmptySeq
      <3> QED BY <1>4, <3>1
    <2>2. fs[1] = first[1] /\ fs # <<>>
      BY <1>6, <2>1
    <2>3. \A i \in DOMAIN fs : fs[i] \in F
      BY <1>6, LenProperties
    <2>4. \A i \in DOMAIN fs : Worth(fs[i]) <= Worth(fs[1])
      <3>1. CASE Best(Accept.list, first[1])
        BY <2>2, <2>3, <3>1 DEF Best
      <3>2. CASE fs = first /\ \A i \in DOMAIN first : first[i] = first[1]
        <4>1. Worth(first[1]) \in Nat
          BY QualityIs
        <4> HIDE DEF Worth
        <4> QED BY <3>2, <4>1
      <3> QED BY <1>8, <3>1, <3>2
    <2> HIDE DEF fs
    <2> QED BY <1>1, <1>6, <1>8, <2>2, <2>4, FirstWins
  <1> HIDE DEF fs
  <1>9. auto => \/ Guess = "" /\ \A f \in F : Worth(f) = 0
                \/ Guess \in F /\ Best(Accept.list, Guess)
    <2>1. SUFFICES ASSUME auto PROVE \/ Guess = "" /\ \A f \in F : Worth(f) = 0
                                     \/ Guess \in F /\ Best(Accept.list, Guess)
      OBVIOUS
    <2>2. CASE Match(Accept, fs) = "" /\ \A i \in DOMAIN fs : Worth(fs[i]) = 0
      BY <1>1, <1>7, <2>1, <2>2
    <2>3. ASSUME NEW k \in DOMAIN fs, Match(Accept, fs) = fs[k], \A i \in DOMAIN fs : Worth(fs[i]) <= Worth(fs[k])
          PROVE  Guess \in F /\ Best(Accept.list, Guess)
      <3>1. Guess = fs[k] /\ fs[k] \in F
        BY <1>1, <1>6, <2>3, LenProperties
      <3>2. \A f \in F : Worth(f) <= Worth(Guess)
        BY <1>7, <2>1, <2>3, <3>1
      <3> QED BY <3>1, <3>2 DEF Best
    <2> QED BY <1>6, <2>2, <2>3, MatchIs
  <1>10. ASSUME auto, OfRoute, Best(Accept.list, req.error_format), Worth(req.error_format) # 0
         PROVE  Guess = req.error_format
    <2>1. keep = {req.error_format} /\ req.error_format \in F
      BY <1>2, <1>10 DEF OfRoute
    <2>2. given # <<>>
      BY <1>3, <2>1
    <2>3. first = given
      BY <2>2 DEF first
    <2>4. first[1] = req.error_format
      BY <1>3, <2>1, <2>2, <2>3
    <2> QED BY <1>8, <1>10, <2>2, <2>3, <2>4
  <1>11. ASSUME ~OfRoute, auto PROVE given = <<>>
    <2>1. keep = {"auto"}
      BY <1>2, <1>11
    <2>2. DOMAIN given = {}
      BY <1>3, <2>1, FormatsAre
    <2> QED BY <1>3, <2>2, EmptySeq
  <1>12. ASSUME auto, ~OfRoute, Literally(Accept, "json"), Best(Accept.list, "json") PROVE Guess = "json"
    <2>1. Worth("json") # 0
      BY <1>12, LiterallyMatches
    <2>2. Match(Accept, <<"json">>) = "json"
      <3> DEFINE one == <<"json">>
      <3>1. one \in Seq(F) /\ one # <<>> /\ one[1] = "json" /\ DOMAIN one = {1}
        BY FormatsAre
      <3>2. Worth("json") \in Nat
        BY QualityIs
      <3>3. \A i \in DOMAIN one : Worth(one[i]) <= Worth(one[1])
        <4> HIDE DEF Worth
        <4> QED BY <3>1, <3>2
      <3> HIDE DEF one
      <3>4. Match(Accept, one) = one[1]
        BY <2>1, <3>1, <3>3, FirstWins
      <3> QED BY <3>1, <3>4 DEF one
    <2>3. first = <<"json">>
      BY <1>11, <1>12, <2>2 DEF first
    <2>4. first # <<>> /\ first[1] = "json"
      BY <2>3
    <2> QED BY <1>8, <1>12, <2>1, <2>4
  <1>13. ASSUME ~auto, ~OfRoute, Worth(req.fallback) # 0 PROVE Guess = req.fallback
    <2>1. keep = {req.fallback} /\ req.fallback \in F
      BY <1>2, <1>13
    <2>2. given # <<>> /\ first = given /\ others = <<>>
      BY <1>3, <1>13, <2>1 DEF first, others
    <2>3. first[1] = req.fallback /\ \A i \in DOMAIN first : first[i] = first[1]
      BY <1>3, <2>1, <2>2
    <2>4. fs = first
      BY <1>4, <2>2, ConcatEmptySeq DEF fs
    <2> QED BY <1>8, <1>13, <2>2, <2>3, <2>4
  <1> QED BY <1>9, <1>10, <1>12, <1>13

LEMMA ErrorPageKeeps == ASSUME DataInv, NEW exception, ErrorPage(exception) PROVE DataInv'
  <1> DEFINE forwarded == [forwarded |-> Forwarded, scheme |-> Scheme]
             logged == IF Quiet(exception) THEN views ELSE Updated(views, forwarded)
             accepted == [accept |-> Accept]
  <1>1. UNCHANGED <<req, stream, told>> /\ req'.chunks = req.chunks /\ page = NoPage
    BY DEF ErrorPage
  <1>2. /\ StaysCached(views, logged) /\ ViewsFit(logged, req.chunks)
        /\ At(logged, "accept") = Cached("accept")
    <2>1. CASE Quiet(exception)
      BY <2>1, CachedAt DEF StaysCached, DataInv
    <2>2. CASE ~Quiet(exception)
      <3>1. /\ DOMAIN forwarded = {"forwarded", "scheme"}
            /\ forwarded["forwarded"] = Forwarded /\ forwarded["scheme"] = Scheme
        OBVIOUS
      <3>2. logged = Updated(views, forwarded)
        BY <2>2
      <3> HIDE DEF forwarded, logged
      <3>3. StaysCached(views, logged) /\ ViewsFit(logged, req.chunks)
        BY <3>1, <3>2, CacheForwarded
      <3>4. At(logged, "accept") = At(views, "accept")
        BY <3>1, <3>2 DEF Updated, At
      <3> QED BY <3>3, <3>4, CachedAt
    <2> QED BY <2>1, <2>2
  <1>3. /\ Accept = Invalid => views' = logged
        /\ Accept # Invalid =>
              /\ views' = Updated(logged, accepted)
              /\ page'.mime = IF Guess = "" THEN BasePage ELSE Guess
    <2>1. CASE Accept = Invalid
      BY <2>1 DEF ErrorPage
    <2>2. CASE Accept # Invalid
      <3>1. views' = Updated(logged, accepted)
        BY <2>2 DEF ErrorPage
      <3>2. page' = [status |-> StatusCode[exception], headers |-> HeadersOf(exception),
                     mime |-> IF Guess = "" THEN BasePage ELSE Guess]
        BY <2>2 DEF ErrorPage
      <3> QED BY <2>2, <3>1, <3>2
    <2> QED BY <2>1, <2>2
  <1>4. DOMAIN accepted = {"accept"} /\ accepted["accept"] = Accept
    OBVIOUS
  <1> HIDE DEF forwarded, logged, accepted
  <1>5. /\ StaysCached(views, views') /\ ViewsFit(views', req.chunks)
        /\ IF Accept = Invalid THEN Cached("accept")' = Unread ELSE Cached("accept")' = Accept
    <2>1. CASE Accept = Invalid
      <3>1. Cached("accept") = Unread
        BY <2>1, AcceptIs, ViewsNow
      <3>2. Cached("accept")' = At(logged, "accept")
        BY <1>3, <2>1 DEF Cached, At
      <3> QED BY <1>2, <1>3, <2>1, <3>1, <3>2
    <2>2. CASE Accept # Invalid
      <3> DEFINE value == Accept
                 new == views'
      <3>1. /\ value # Unread /\ value # Invalid /\ IsHeader("accept", value)
            /\ At(logged, "accept") \in {Unread, value}
        BY <1>2, <2>2, AcceptIs DEF IsHeader
      <3>2. new = Updated(logged, accepted) /\ DOMAIN accepted = {"accept"} /\ accepted["accept"] = value
        BY <1>3, <1>4, <2>2
      <3> HIDE DEF value, new
      <3>3. StaysCached(logged, new) /\ ViewsFit(new, req.chunks) /\ At(new, "accept") = value
        BY <1>2, <3>1, <3>2, CacheOne
      <3>4. StaysCached(views, new)
        BY <1>2, <3>3, KeepsTwice
      <3>5. Cached("accept")' = At(views', "accept")
        BY DEF Cached, At
      <3> QED BY <2>2, <3>3, <3>4, <3>5 DEF value, new
    <2> QED BY <2>1, <2>2
  <1>6. HeadersFit' /\ BodyFits'
    BY <1>1 DEF HeadersFit, BodyFits, DataInv
  <1>7. ToldFits(told', views', req'.chunks)
    BY <1>1, <1>5, FittedThen DEF ToldFits, DataInv
  <1>8. ViewsFit(views', req'.chunks)
    BY <1>1, <1>5
  <1>9. PageAccepted'
    <2>1. CASE Accept = Invalid
      BY <1>5, <2>1 DEF PageAccepted
    <2>2. CASE Accept # Invalid
      <3> DEFINE accept == Accept
                 mime == page'.mime
      <3>1. Accepts(accept.list) /\ req.fallback \in ToSet(Formats) \cup {"auto"}
        BY <2>2, AcceptIs DEF IsHeader, Accepts, DataInv, HeadersFit
      <3>2. Cached("accept")' = accept /\ req' = req /\ mime = IF Guess = "" THEN BasePage ELSE Guess
        BY <1>1, <1>3, <1>5, <2>2
      <3>3. \A format : Quality(accept.list, format) \in Nat
        BY <3>1, QualityIs
      <3>4. /\ req.fallback = "auto" => Best(accept.list, mime)
            /\ req.fallback = "auto" /\ OfRoute /\ Best(accept.list, req.error_format)
                  => mime = req.error_format \/ Quality(accept.list, req.error_format) = 0
            /\ req.fallback = "auto" /\ ~OfRoute /\ Literally(accept, "json") /\ Best(accept.list, "json")
                  => mime = "json"
            /\ req.fallback # "auto" /\ ~OfRoute /\ Quality(accept.list, req.fallback) # 0
                  => mime = req.fallback
        <4>1. "" \notin ToSet(Formats) /\ BasePage \in ToSet(Formats)
          BY FormatsAre DEF BasePage
        <4>2. req.fallback = "auto" => Best(accept.list, mime)
          <5>1. SUFFICES ASSUME req.fallback = "auto" PROVE Best(accept.list, mime)
            OBVIOUS
          <5>2. CASE Guess = "" /\ \A f \in ToSet(Formats) : Quality(accept.list, f) = 0
            <6>1. mime \in ToSet(Formats)
              BY <3>2, <4>1, <5>2
            <6>2. ASSUME NEW f \in ToSet(Formats)
                  PROVE  Quality(accept.list, f) <= Quality(accept.list, mime)
              <7>1. Quality(accept.list, f) = 0 /\ Quality(accept.list, mime) = 0
                BY <5>2, <6>1
              <7> QED BY <7>1
            <6> HIDE DEF mime, accept
            <6> QED BY <6>2 DEF Best
          <5>3. CASE Guess \in ToSet(Formats) /\ Best(accept.list, Guess)
            BY <3>2, <4>1, <5>3
          <5> QED BY <3>1, <5>1, <5>2, <5>3, GuessIs
        <4>3. \A f \in ToSet(Formats) : Guess = f => mime = f
          BY <3>2, <4>1
        <4>4. OfRoute => req.error_format \in ToSet(Formats)
          BY DEF OfRoute
        <4>5. "json" \in ToSet(Formats)
          BY FormatsAre
        <4> QED BY <3>1, <4>2, <4>3, <4>4, <4>5, GuessIs
      <3> HIDE DEF accept, mime
      <3>5. \A format : Quality(accept.list, format)
              = Max({0} \cup {1 + m.q : m \in {x \in accept.list : MatchesMime(x, MimeByConfig[format])}})
        BY DEF Quality, Matching
      <3>6. \A format : Quality(accept.list, format) > 0 => Quality(accept.list, format) # 0
        OBVIOUS
      <3> QED BY <3>2, <3>4, <3>5, <3>6 DEF PageAccepted, Best, OfRoute, mime
    <2> QED BY <2>1, <2>2
  <1> QED BY <1>6, <1>7, <1>8, <1>9 DEF DataInv

LEMMA DataStarts == DataInit => DataInv
  <1> SUFFICES ASSUME DataInit PROVE DataInv
    OBVIOUS
  <1>1. PICK r \in Requests, format \in ErrorFormats, is_stream \in BOOLEAN :
           /\ req = [headers |-> r.headers, content |-> r.content, chunks |-> r.chunks,
                     route |-> "routing", error_format |-> format[1], is_stream |-> is_stream,
                     fallback |-> format[2]]
           /\ stream = [left |-> r.chunks, body |-> <<>>, taken |-> FALSE, received |-> FALSE]
    BY DEF DataInit
  <1>2. views = <<>> /\ told = <<>> /\ page = NoPage
    BY DEF DataInit
  <1>3. HeadersFit
    BY <1>1, DataAssumption DEF HeadersFit, DataAssumption
  <1>4. BodyFits
    BY <1>1 DEF BodyFits
  <1>5. ViewsFit(views, req.chunks) /\ ToldFits(told, views, req.chunks)
    BY <1>2, Sentinels DEF ViewsFit, ToldFits, At
  <1>6. PageAccepted
    BY <1>2 DEF PageAccepted
  <1> QED BY <1>3, <1>4, <1>5, <1>6 DEF DataInv

LEMMA DataKept == DataInv /\ [DataNext]_data_vars => DataInv'
  <1> SUFFICES ASSUME DataInv, [DataNext]_data_vars PROVE DataInv'
    OBVIOUS
  <1>1. CASE Route \/ ReadBody \/ Take
    BY <1>1, BodyStays
  <1>2. CASE \E r \in Replacements : ReplaceHeader(r[1], r[2])
    BY <1>2, ReplaceKeeps
  <1>3. CASE ReadJson
    BY <1>3, ReadJsonKeeps
  <1>4. CASE ReadForm \/ ReadFormAgain
    BY <1>4, ReadFormKeeps
  <1>5. CASE ReadCookies \/ ReadToken \/ ReadId
    BY <1>5, ReadHeaderKeeps
  <1>6. CASE ReadAccept
    BY <1>6, ReadAcceptKeeps
  <1>7. CASE \E opts \in {"blank", "strict"} : ReadArgs(opts)
    BY <1>7, ReadArgsKeeps
  <1>8. CASE ReadRemoteAddr \/ ReadScheme \/ ReadHost \/ ReadUrl
    BY <1>8, ReadForwardedKeeps
  <1>9. CASE \E exception \in Raisable : ErrorPage(exception)
    BY <1>9, ErrorPageKeeps
  <1>10. CASE UNCHANGED data_vars
    <2>1. PageAccepted'
      BY <1>10 DEF data_vars, DataInv, PageAccepted, Cached, Literally
    <2> QED BY <1>10, <2>1 DEF data_vars, DataInv, HeadersFit, BodyFits
  <1> QED BY <1>1, <1>2, <1>3, <1>4, <1>5, <1>6, <1>7, <1>8, <1>9, <1>10 DEF DataNext

\* What a handler reads of a request, in whatever order and whatever middleware replaces in
\* between, fits together, and the error page is one that the client accepts (sanic/request/types.py,
\* sanic/errorpages.py).
THEOREM ReadingsAgree == DataSpec => []ReadsAgree
  <1>1. DataInit => DataInv
    BY DataStarts
  <1>2. DataInv /\ [DataNext]_data_vars => DataInv'
    BY DataKept
  <1>3. DataInv => ReadsAgree
    BY InvReads
  <1> QED BY <1>1, <1>2, <1>3, PTL DEF DataSpec
-----------------------------------------------------------------------------
(* What a client is left with of cookies *)

CookieSet == [name : CookieNames, prefix : KeyPrefixes, path : CookiePaths, secure : BOOLEAN,
              partitioned : BOOLEAN, value : 0..MaxSaid]

CookiesTyped ==
    /\ jar \in Seq(CookieSet) /\ store \subseteq CookieSet /\ secured \in BOOLEAN
    /\ DOMAIN word \subseteq CookieIds /\ said \in 0..MaxSaid
    /\ \A id \in DOMAIN word : word[id] \in Unsure..MaxSaid

LastWord(w, id) == IF id \in DOMAIN w THEN w[id] ELSE 0

\* of a cookie there is no partitioned one, or it has the value, or there is none
Plain(cookies, id) == \A c \in cookies : Id(c) = id => c.partitioned = FALSE
Tells(cookies, id, value) ==
    /\ \A c \in cookies : Id(c) = id => c.partitioned = FALSE /\ c.value = value
    /\ (\E c \in cookies : Id(c) = id) <=> value # 0

\* what the client will make of a jar: it heeds all there is of the cookie, and the last of
\* it is the last word
Absent(cookies, id)  == \A i \in DOMAIN cookies : Id(cookies[i]) # id
LastOf(cookies, i) == \A j \in DOMAIN cookies : i < j => Id(cookies[j]) # Id(cookies[i])
JarFits(cookies, id, value) ==
    \A i \in DOMAIN cookies : Id(cookies[i]) = id =>
        /\ cookies[i].partitioned = FALSE /\ Heeds(cookies[i])
        /\ LastOf(cookies, i) => cookies[i].value = value
IdFits(id, value, cookies, kept) ==
    /\ JarFits(cookies, id, value) /\ Plain(kept, id)
    /\ Absent(cookies, id) => Tells(kept, id, value)

CookiesFit(w, cookies, kept) ==
    \A id \in CookieIds : LastWord(w, id) # Unsure => IdFits(id, LastWord(w, id), cookies, kept)

CookiesInv == CookiesTyped /\ CookiesFit(word, jar, store)

LEMMA CookieTyped ==
    /\ \A c \in CookieSet : Id(c) \in CookieIds
    /\ \A cookies \in Seq(CookieSet) : \A i \in DOMAIN cookies : cookies[i] \in CookieSet
  <1>1. \A c \in CookieSet : Id(c) \in CookieIds
    BY DEF CookieSet, CookieIds, Id
  <1>2. ASSUME NEW cookies \in Seq(CookieSet), NEW i \in DOMAIN cookies PROVE cookies[i] \in CookieSet
    <2>1. DOMAIN cookies = 1..Len(cookies)  BY LenProperties
    <2> QED BY <2>1, ElementOfSeq
  <1> QED BY <1>1, <1>2

-----------------------------------------------------------------------------
(* What is read *)

WordAt(name, prefix, path) == WordOn([name |-> name, prefix |-> prefix, path |-> path])
LastAt(path, name, prefix) ==
    IF WordAt(name, prefix, path) # 0 THEN WordAt(name, prefix, path) ELSE WordAt(name, prefix, Root)

\* what is sent of a prefix and a name is the last word on it
LEMMA SentIs ==
    ASSUME CookiesInv, jar = <<>>, CookiesAssumption, NEW path \in CookiePaths, NEW prefix \in KeyPrefixes,
           NEW name \in CookieNames, \A p \in CookiePaths : WordAt(name, prefix, p) # Unsure
    PROVE  /\ SentWith(path, prefix, name) = {} <=> LastAt(path, name, prefix) = 0
           /\ \A c \in SentWith(path, prefix, name) : c.value = LastAt(path, name, prefix)
  <1> DEFINE of(p) == {c \in store : c.name = name /\ c.prefix = prefix /\ c.path = p}
             id(p) == [name |-> name, prefix |-> prefix, path |-> p]
  <1>1. Root \in CookiePaths
    BY DEF CookiesAssumption
  <1>2. ASSUME NEW p \in CookiePaths
        PROVE  (of(p) = {} <=> WordAt(name, prefix, p) = 0) /\ \A c \in of(p) : c.value = WordAt(name, prefix, p)
    <2>1. id(p) \in CookieIds
      BY DEF CookieIds
    <2>2. WordAt(name, prefix, p) = LastWord(word, id(p)) /\ LastWord(word, id(p)) # Unsure
      BY DEF LastWord, WordOn, WordAt
    <2>3. IdFits(id(p), WordAt(name, prefix, p), jar, store)
      BY <2>1, <2>2 DEF CookiesInv, CookiesFit
    <2>4. Tells(store, id(p), WordAt(name, prefix, p))
      BY <2>3 DEF IdFits, Absent
    <2>5. \A c : c \in of(p) <=> c \in store /\ Id(c) = id(p)
      BY DEF Id
    <2> HIDE DEF of, id
    <2> QED BY <2>4, <2>5 DEF Tells
  <1>3. SentWith(path, prefix, name) = IF of(path) # {} THEN of(path) ELSE of(Root)
    BY DEF SentWith
  <1> HIDE DEF of, id
  <1> QED BY <1>1, <1>2, <1>3 DEF LastAt

LEMMA InvTellsLast == CookiesInv /\ CookiesAssumption => LastWordRead
  <1> SUFFICES ASSUME CookiesInv, CookiesAssumption, jar = <<>>,
                      NEW path \in CookiePaths, NEW name \in {id.name : id \in DOMAIN word},
                      \A id \in DOMAIN word : id.name = name => word[id] # Unsure
               PROVE  Get(path, name) = LastAt(path, name,
                          IF LastAt(path, name, "__Host-") # 0 THEN "__Host-"
                          ELSE IF LastAt(path, name, "__Secure-") # 0 THEN "__Secure-" ELSE "")
    BY DEF LastWordRead, LastAt, WordAt
  <1>1. name \in CookieNames
    BY DEF CookiesInv, CookiesTyped, CookieIds
  <1>2. \A prefix \in KeyPrefixes, p \in CookiePaths : WordAt(name, prefix, p) # Unsure
    BY DEF WordAt, WordOn, Unsure
  <1>3. ASSUME NEW prefix \in KeyPrefixes
        PROVE  /\ SentWith(path, prefix, name) = {} <=> LastAt(path, name, prefix) = 0
               /\ \A c \in SentWith(path, prefix, name) : c.value = LastAt(path, name, prefix)
    BY <1>1, <1>2, <1>3, SentIs
  <1>4. "__Host-" \in KeyPrefixes /\ "__Secure-" \in KeyPrefixes /\ "" \in KeyPrefixes
    BY DEF KeyPrefixes
  <1>5. ASSUME NEW prefix \in KeyPrefixes
        PROVE  LastAt(path, name, prefix) =
                  IF SentWith(path, prefix, name) = {} THEN 0
                  ELSE (CHOOSE c \in SentWith(path, prefix, name) : TRUE).value
    BY <1>3
  <1> QED BY <1>3, <1>4, <1>5 DEF Get

-----------------------------------------------------------------------------
(* What a client makes of a response *)

LEMMA StoredTells ==
    ASSUME NEW id, NEW cookies, Plain(cookies, id), NEW cookie
    PROVE  /\ (Id(cookie) = id => cookie.partitioned = FALSE) => Plain(Stored(cookies, cookie), id)
           /\ Id(cookie) = id /\ cookie.partitioned = FALSE /\ Heeds(cookie) =>
                 Tells(Stored(cookies, cookie), id, cookie.value)
           /\ \A v : Id(cookie) # id /\ Tells(cookies, id, v) => Tells(Stored(cookies, cookie), id, v)
  <1>1. ASSUME Id(cookie) = id => cookie.partitioned = FALSE PROVE Plain(Stored(cookies, cookie), id)
    BY <1>1 DEF Plain, Stored
  <1>2. ASSUME Id(cookie) = id, cookie.partitioned = FALSE, Heeds(cookie)
        PROVE  Tells(Stored(cookies, cookie), id, cookie.value)
    <2> DEFINE others == {c \in cookies : Id(c) # Id(cookie) \/ c.partitioned # cookie.partitioned}
    <2>1. Stored(cookies, cookie) = IF cookie.value = 0 THEN others ELSE others \cup {cookie}
      BY <1>2 DEF Stored
    <2>2. \A c \in others : Id(c) # id
      BY <1>2 DEF Plain
    <2> HIDE DEF others
    <2> QED BY <1>2, <2>1, <2>2 DEF Tells
  <1>3. ASSUME NEW v, Id(cookie) # id, Tells(cookies, id, v) PROVE Tells(Stored(cookies, cookie), id, v)
    <2>1. \A c : Id(c) = id => (c \in Stored(cookies, cookie) <=> c \in cookies)
      BY <1>3 DEF Stored
    <2> QED BY <1>3, <2>1 DEF Tells
  <1> QED BY <1>1, <1>2, <1>3

\* there is what StoredAll chooses
Stores(after, cookies, sent, n) ==
    after = [m \in 0..n |-> IF m = 0 THEN cookies ELSE Stored(after[m - 1], sent[m])]

LEMMA StoresExists ==
    ASSUME NEW cookies, NEW sent
    PROVE  \A n \in Nat : \E after : Stores(after, cookies, sent, n)
  <1> DEFINE T == {n \in Nat : \E after : Stores(after, cookies, sent, n)}
  <1>1. 0 \in T
    <2> DEFINE after == [m \in 0..0 |-> cookies]
    <2>1. Stores(after, cookies, sent, 0)
      BY DEF Stores
    <2> QED BY <2>1
  <1>2. ASSUME NEW n \in T PROVE n + 1 \in T
    <2>1. PICK before : Stores(before, cookies, sent, n)
      OBVIOUS
    <2> DEFINE after == [m \in 0..(n + 1) |-> IF m = n + 1 THEN Stored(before[n], sent[n + 1]) ELSE before[m]]
    <2>2. n \in Nat /\ n + 1 \in Nat
      OBVIOUS
    <2>3. \A m \in 0..n : after[m] = before[m]
      BY <2>2
    <2>4. ASSUME NEW m \in 0..(n + 1)
          PROVE  after[m] = IF m = 0 THEN cookies ELSE Stored(after[m - 1], sent[m])
      <3>1. CASE m = n + 1
        <4>1. after[m] = Stored(before[n], sent[m]) /\ m # 0 /\ m - 1 = n /\ n \in 0..n
          BY <3>1, <2>2
        <4> HIDE DEF after
        <4> QED BY <4>1, <2>3
      <3>2. CASE m \in 0..n
        <4>1. before[m] = IF m = 0 THEN cookies ELSE Stored(before[m - 1], sent[m])
          BY <3>2, <2>1 DEF Stores
        <4>2. m = 0 \/ m - 1 \in 0..n
          BY <3>2, <2>2
        <4> HIDE DEF after
        <4> QED BY <3>2, <4>1, <4>2, <2>3
      <3> QED BY <3>1, <3>2, <2>2
    <2>5. after = [m \in 0..(n + 1) |-> after[m]]
      OBVIOUS
    <2> HIDE DEF after
    <2>6. Stores(after, cookies, sent, n + 1)
      BY <2>4, <2>5 DEF Stores
    <2> QED BY <2>2, <2>6
  <1>3. T = Nat
    <2>1. T \subseteq Nat
      OBVIOUS
    <2> HIDE DEF T
    <2> QED BY <1>1, <1>2, <2>1, Induct
  <1> QED BY <1>3

LEMMA StoredAllIs ==
    ASSUME Len(jar) \in Nat
    PROVE  \E after : /\ StoredAll(store, jar) = after[Len(jar)] /\ after[0] = store
                      /\ \A m \in 1..Len(jar) : after[m] = Stored(after[m - 1], jar[m])
  <1>1. \E after : Stores(after, store, jar, Len(jar))
    BY StoresExists
  <1> DEFINE after == CHOOSE after : Stores(after, store, jar, Len(jar))
  <1>2. Stores(after, store, jar, Len(jar))
    BY <1>1
  <1>3. StoredAll(store, jar) = after[Len(jar)]
    BY DEF StoredAll, Stores
  <1> HIDE DEF after
  <1>4. after[0] = store /\ \A m \in 1..Len(jar) : after[m] = Stored(after[m - 1], jar[m])
    BY <1>2 DEF Stores
  <1> QED BY <1>3, <1>4

\* After the n-th cookie the client has no partitioned one, and has what was last said unless more
\* is to come.
LEMMA SendKeeps ==
    ASSUME NEW id, NEW value, IdFits(id, value, jar, store), jar \in Seq(CookieSet)
    PROVE  Plain(StoredAll(store, jar), id) /\ Tells(StoredAll(store, jar), id, value)
  <1>0. Len(jar) \in Nat /\ DOMAIN jar = 1..Len(jar)
    BY LenProperties
  <1>1. PICK after : /\ StoredAll(store, jar) = after[Len(jar)] /\ after[0] = store
                     /\ \A m \in 1..Len(jar) : after[m] = Stored(after[m - 1], jar[m])
    BY <1>0, StoredAllIs
  <1> DEFINE NoneAfter(n) == \A i \in DOMAIN jar : n < i => Id(jar[i]) # id
             Good(n) == Plain(after[n], id) /\ (NoneAfter(n) => Tells(after[n], id, value))
             T == {n \in Nat : n <= Len(jar) => Good(n)}
  <1>2. 0 \in T
    <2>1. NoneAfter(0) => Absent(jar, id)
      BY <1>0 DEF Absent
    <2> QED BY <1>1, <2>1 DEF IdFits
  <1>3. ASSUME NEW n \in T PROVE n + 1 \in T
    <2>1. SUFFICES ASSUME n + 1 <= Len(jar) PROVE Good(n + 1)
      OBVIOUS
    <2>2. n \in Nat /\ n + 1 \in DOMAIN jar /\ n + 1 \in 1..Len(jar) /\ Good(n)
      BY <1>0, <2>1
    <2>3. after[n + 1] = Stored(after[n], jar[n + 1])
      BY <1>1, <2>2
    <2>4. Id(jar[n + 1]) = id => jar[n + 1].partitioned = FALSE /\ Heeds(jar[n + 1])
      BY <2>2 DEF IdFits, JarFits
    <2>5. Plain(after[n + 1], id)
      BY <2>2, <2>3, <2>4, StoredTells
    <2>6. ASSUME NoneAfter(n + 1) PROVE Tells(after[n + 1], id, value)
      <3>1. CASE Id(jar[n + 1]) = id
        <4>1. LastOf(jar, n + 1)
          BY <2>6, <3>1 DEF LastOf
        <4>2. jar[n + 1].value = value
          BY <2>2, <3>1, <4>1 DEF IdFits, JarFits
        <4> QED BY <2>2, <2>3, <2>4, <3>1, <4>2, StoredTells
      <3>2. CASE Id(jar[n + 1]) # id
        <4>1. ASSUME NEW i \in DOMAIN jar, n < i PROVE Id(jar[i]) # id
          <5>1. i = n + 1 \/ n + 1 < i
            BY <1>0, <2>2, <4>1
          <5> QED BY <5>1, <2>6, <3>2
        <4>2. NoneAfter(n)
          BY <4>1
        <4> QED BY <2>2, <2>3, <3>2, <4>2, StoredTells
      <3> QED BY <3>1, <3>2
    <2> QED BY <2>5, <2>6
  <1>4. T = Nat
    <2>1. T \subseteq Nat
      OBVIOUS
    <2> HIDE DEF T
    <2> QED BY <1>2, <1>3, <2>1, Induct
  <1>5. Good(Len(jar))
    <2>1. Len(jar) \in T /\ Len(jar) <= Len(jar)
      BY <1>0, <1>4
    <2> QED BY <2>1
  <1>6. NoneAfter(Len(jar))
    BY <1>0
  <1> QED BY <1>1, <1>5, <1>6

-----------------------------------------------------------------------------
(* What the calls make of a jar *)

\* of one cookie, what is left of the jar fits as it did
Leaves(rest, cookies, id) ==
    /\ \A v : JarFits(cookies, id, v) => JarFits(rest, id, v)
    /\ Absent(rest, id) => Absent(cookies, id)

LEMMA KeptLeaves ==
    ASSUME NEW cookies \in Seq(CookieSet), NEW keep, NEW id,
           \A i \in DOMAIN cookies : Id(cookies[i]) = id => cookies[i] \in keep
    PROVE  Leaves(Kept(cookies, keep), cookies, id)
  <1> DEFINE rest == Kept(cookies, keep)
  <1>1. PICK at \in [DOMAIN rest -> DOMAIN cookies] :
           /\ \A k \in DOMAIN rest : rest[k] = cookies[at[k]] /\ cookies[at[k]] \in keep
           /\ \A k, m \in DOMAIN rest : at[k] < at[m] => k < m
           /\ \A i \in DOMAIN cookies : cookies[i] \in keep => \E k \in DOMAIN rest : at[k] = i
    BY KeptInOrder
  <1> HIDE DEF rest
  <1>2. ASSUME NEW v, JarFits(cookies, id, v), NEW k \in DOMAIN rest, Id(rest[k]) = id
        PROVE  /\ rest[k].partitioned = FALSE /\ Heeds(rest[k])
               /\ LastOf(rest, k) => rest[k].value = v
    <2>1. at[k] \in DOMAIN cookies /\ rest[k] = cookies[at[k]]
      BY <1>1
    <2>2. rest[k].partitioned = FALSE /\ Heeds(rest[k])
      BY <1>2, <2>1 DEF JarFits
    <2>3. ASSUME LastOf(rest, k) PROVE LastOf(cookies, at[k])
      <3>1. ASSUME NEW j \in DOMAIN cookies, at[k] < j, Id(cookies[j]) = id PROVE FALSE
        <4>1. PICK m \in DOMAIN rest : at[m] = j
          BY <3>1, <1>1
        <4>2. k < m /\ Id(rest[m]) = id
          BY <3>1, <4>1, <1>1
        <4> QED BY <4>2, <2>3, <1>2 DEF LastOf
      <3> QED BY <3>1, <1>2, <2>1 DEF LastOf
    <2> QED BY <1>2, <2>1, <2>2, <2>3 DEF JarFits
  <1>3. ASSUME Absent(rest, id) PROVE Absent(cookies, id)
    <2>1. ASSUME NEW i \in DOMAIN cookies, Id(cookies[i]) = id PROVE FALSE
      <3>1. PICK k \in DOMAIN rest : at[k] = i
        BY <2>1, <1>1
      <3> QED BY <3>1, <2>1, <1>1, <1>3 DEF Absent
    <2> QED BY <2>1 DEF Absent
  <1>4. \A v : JarFits(cookies, id, v) => JarFits(rest, id, v)
    BY <1>2 DEF JarFits
  <1> QED BY <1>3, <1>4 DEF Leaves, rest

LEMMA AppendFits ==
    ASSUME NEW cookies \in Seq(CookieSet), NEW cookie \in CookieSet, NEW id
    PROVE  /\ Id(cookie) # id => Leaves(Append(cookies, cookie), cookies, id)
           /\ /\ Id(cookie) = id /\ cookie.partitioned = FALSE /\ Heeds(cookie)
              /\ \A i \in DOMAIN cookies :
                    Id(cookies[i]) = id => cookies[i].partitioned = FALSE /\ Heeds(cookies[i])
              => /\ JarFits(Append(cookies, cookie), id, cookie.value)
                 /\ ~Absent(Append(cookies, cookie), id)
  <1> DEFINE longer == Append(cookies, cookie)
             n == Len(cookies) + 1
  <1>1. /\ Len(cookies) \in Nat /\ DOMAIN cookies = 1..Len(cookies) /\ DOMAIN longer = 1..n
        /\ longer[n] = cookie /\ \A i \in 1..Len(cookies) : longer[i] = cookies[i]
    BY LenProperties, AppendProperties
  <1> HIDE DEF longer
  <1>2. n \in DOMAIN longer /\ \A i \in DOMAIN longer : i = n \/ (i \in DOMAIN cookies /\ i < n)
    BY <1>1
  <1>3. \A i \in DOMAIN cookies : i \in DOMAIN longer /\ longer[i] = cookies[i]
    BY <1>1
  <1>4. ~(n < n) /\ \A i \in DOMAIN longer : ~(n < i)
    BY <1>1
  <1> HIDE DEF n
  <1>5. ASSUME Id(cookie) # id PROVE Leaves(longer, cookies, id)
    <2>1. Absent(longer, id) => Absent(cookies, id)
      BY <1>3 DEF Absent
    <2>2. ASSUME NEW v, JarFits(cookies, id, v), NEW i \in DOMAIN longer, Id(longer[i]) = id
          PROVE  /\ longer[i].partitioned = FALSE /\ Heeds(longer[i])
                 /\ LastOf(longer, i) => longer[i].value = v
      <3>1. i \in DOMAIN cookies /\ longer[i] = cookies[i]
        BY <1>1, <1>2, <1>3, <1>5, <2>2
      <3>2. LastOf(longer, i) => LastOf(cookies, i)
        BY <1>3, <3>1 DEF LastOf
      <3> QED BY <2>2, <3>1, <3>2 DEF JarFits
    <2>3. \A v : JarFits(cookies, id, v) => JarFits(longer, id, v)
      BY <2>2 DEF JarFits
    <2> QED BY <2>1, <2>3 DEF Leaves
  <1>6. ASSUME Id(cookie) = id, cookie.partitioned = FALSE, Heeds(cookie),
               \A i \in DOMAIN cookies :
                  Id(cookies[i]) = id => cookies[i].partitioned = FALSE /\ Heeds(cookies[i])
        PROVE  JarFits(longer, id, cookie.value) /\ ~Absent(longer, id)
    <2>1. ASSUME NEW i \in DOMAIN longer, Id(longer[i]) = id
          PROVE  /\ longer[i].partitioned = FALSE /\ Heeds(longer[i])
                 /\ LastOf(longer, i) => longer[i].value = cookie.value
      <3>1. CASE i = n
        BY <1>1, <1>6, <3>1
      <3>2. CASE i \in DOMAIN cookies /\ i < n
        <4>1. ~LastOf(longer, i)
          BY <1>1, <1>2, <1>6, <2>1, <3>2 DEF LastOf
        <4> QED BY <1>3, <1>6, <2>1, <3>2, <4>1
      <3> QED BY <1>2, <3>1, <3>2
    <2>2. ~Absent(longer, id)
      BY <1>1, <1>2, <1>6 DEF Absent
    <2> QED BY <2>1, <2>2 DEF JarFits
  <1> QED BY <1>5, <1>6 DEF longer

LEMMA FitThen == UNCHANGED secured /\ CookiesFit(word', jar', store') => CookiesFit(word, jar, store)'
  <1> SUFFICES ASSUME UNCHANGED secured, CookiesFit(word', jar', store'),
                      NEW id \in CookieIds, LastWord(word', id) # Unsure
               PROVE  IdFits(id, LastWord(word, id), jar, store)'
    BY DEF CookiesFit
  <1>1. IdFits(id, LastWord(word', id), jar', store')
    BY DEF CookiesFit
  <1>2. JarFits(jar, id, LastWord(word, id))'
    BY <1>1 DEF IdFits, JarFits, Heeds
  <1> QED BY <1>1, <1>2 DEF IdFits

\* what may be said of a cookie
LEMMA WordRange == Unsure \in Unsure..MaxSaid /\ \A v \in 0..MaxSaid : v \in Unsure..MaxSaid
  BY CookiesAssumption DEF Unsure, CookiesAssumption

LEMMA UpdatedAt ==
    ASSUME NEW w, NEW g
    PROVE  /\ DOMAIN Updated(w, g) = DOMAIN w \cup DOMAIN g
           /\ \A id \in DOMAIN Updated(w, g) : Updated(w, g)[id] = IF id \in DOMAIN g THEN g[id] ELSE w[id]
           /\ \A id : LastWord(Updated(w, g), id) = IF id \in DOMAIN g THEN g[id] ELSE LastWord(w, id)
  BY DEF Updated, LastWord

\* A word is given on what is put last.
LEMMA SaysKeeps ==
    ASSUME CookiesInv, NEW rest \in Seq(CookieSet), NEW cookie \in CookieSet,
           \A id \in CookieIds : id # Id(cookie) => Leaves(rest, jar, id),
           \A i \in DOMAIN rest : Id(rest[i]) = Id(cookie) => rest[i] \in ToSet(jar),
           cookie.prefix # "" \/ cookie.partitioned => cookie.secure,
           cookie.prefix = "__Host-" => cookie.path = Root,
           jar' = Append(rest, cookie), Says(cookie, cookie.value), UNCHANGED <<store, secured>>
    PROVE  /\ jar' \in Seq(CookieSet) /\ CookiesFit(word', jar', store')
           /\ DOMAIN word' \subseteq CookieIds /\ \A id \in DOMAIN word' : word'[id] \in Unsure..MaxSaid
  <1> DEFINE unheeded == cookie.partitioned \/ (cookie.secure /\ ~secured)
             said_of == [id \in {Id(cookie)} |->
                            IF unheeded \/ WordOn(id) = Unsure THEN Unsure ELSE cookie.value]
             longer == Append(rest, cookie)
  <1>1. word' = Updated(word, said_of) /\ jar' = longer /\ store' = store
    BY DEF Says
  <1>2. longer \in Seq(CookieSet)
    BY AppendProperties
  <1>3. Id(cookie) \in CookieIds /\ cookie.partitioned \in BOOLEAN /\ cookie.value \in 0..MaxSaid
    BY CookieTyped DEF CookieSet
  <1>4. DOMAIN said_of = {Id(cookie)} /\ said_of[Id(cookie)] \in {Unsure, cookie.value}
    OBVIOUS
  <1>5. said_of[Id(cookie)] # Unsure =>
           /\ said_of[Id(cookie)] = cookie.value /\ LastWord(word, Id(cookie)) # Unsure
           /\ cookie.partitioned = FALSE /\ (cookie.secure => secured)
    BY <1>3 DEF WordOn, LastWord
  <1> HIDE DEF said_of, longer
  <1>6. ASSUME NEW id \in CookieIds, LastWord(Updated(word, said_of), id) # Unsure
        PROVE  IdFits(id, LastWord(Updated(word, said_of), id), longer, store)
    <2>1. CASE id # Id(cookie)
      <3>1. LastWord(Updated(word, said_of), id) = LastWord(word, id)
        BY <2>1, <1>4, UpdatedAt
      <3>2. IdFits(id, LastWord(word, id), jar, store)
        BY <1>6, <3>1 DEF CookiesInv, CookiesFit
      <3>3. Leaves(rest, jar, id) /\ Leaves(longer, rest, id)
        BY <2>1, AppendFits DEF longer
      <3> QED BY <3>1, <3>2, <3>3 DEF IdFits, Leaves
    <2>2. CASE id = Id(cookie)
      <3>1. LastWord(Updated(word, said_of), id) = said_of[id]
        BY <2>2, <1>4, UpdatedAt
      <3>2. /\ said_of[id] = cookie.value /\ LastWord(word, id) # Unsure
            /\ cookie.partitioned = FALSE /\ (cookie.secure => secured)
        BY <3>1, <2>2, <1>5, <1>6
      <3>3. IdFits(id, LastWord(word, id), jar, store)
        BY <3>2 DEF CookiesInv, CookiesFit
      <3>4. Heeds(cookie)
        BY <3>2 DEF Heeds
      <3>5. ASSUME NEW i \in DOMAIN rest, Id(rest[i]) = id
            PROVE  rest[i].partitioned = FALSE /\ Heeds(rest[i])
        <4>1. PICK j \in DOMAIN jar : rest[i] = jar[j]
          BY <2>2, <3>5 DEF ToSet
        <4> QED BY <3>3, <3>5, <4>1 DEF IdFits, JarFits
      <3>6. JarFits(longer, id, cookie.value) /\ ~Absent(longer, id)
        BY <2>2, <3>2, <3>4, <3>5, AppendFits DEF longer
      <3> QED BY <3>1, <3>2, <3>3, <3>6 DEF IdFits
    <2> QED BY <2>1, <2>2
  <1>7. CookiesFit(word', jar', store')
    BY <1>1, <1>6 DEF CookiesFit
  <1>8. DOMAIN word' \subseteq CookieIds /\ \A id \in DOMAIN word' : word'[id] \in Unsure..MaxSaid
    <2>1. Unsure \in Unsure..MaxSaid /\ \A v \in 0..MaxSaid : v \in Unsure..MaxSaid
      BY WordRange
    <2>3. said_of[Id(cookie)] \in Unsure..MaxSaid
      BY <1>3, <1>4, <2>1
    <2>4. \A id \in DOMAIN said_of : said_of[id] \in Unsure..MaxSaid
      BY <1>4, <2>3
    <2>2. DOMAIN word \subseteq CookieIds /\ \A id \in DOMAIN word : word[id] \in Unsure..MaxSaid
      BY DEF CookiesInv, CookiesTyped
    <2>5. /\ DOMAIN Updated(word, said_of) = DOMAIN word \cup DOMAIN said_of
          /\ \A id \in DOMAIN Updated(word, said_of) :
                Updated(word, said_of)[id] = IF id \in DOMAIN said_of THEN said_of[id] ELSE word[id]
      BY UpdatedAt
    <2> QED BY <1>1, <1>3, <1>4, <2>2, <2>4, <2>5
  <1> QED BY <1>1, <1>2, <1>7, <1>8

\* Of cookies that are lost or changed nobody can be sure.
LEMMA DoubtsKeeps ==
    ASSUME CookiesInv, NEW rest \in Seq(CookieSet), NEW cookies, cookies \subseteq CookieSet,
           \A id \in CookieIds \ {Id(c) : c \in cookies} : Leaves(rest, jar, id),
           jar' = rest, Doubts(cookies), UNCHANGED <<store, secured>>
    PROVE  /\ jar' \in Seq(CookieSet) /\ CookiesFit(word', jar', store')
           /\ DOMAIN word' \subseteq CookieIds /\ \A id \in DOMAIN word' : word'[id] \in Unsure..MaxSaid
  <1> DEFINE ids == {Id(c) : c \in cookies}
             doubts == [id \in ids |-> Unsure]
  <1>1. word' = Updated(word, doubts)
    BY DEF Doubts
  <1>2. ids \subseteq CookieIds
    BY CookieTyped
  <1>3. DOMAIN doubts = ids /\ \A id \in ids : doubts[id] = Unsure
    OBVIOUS
  <1> HIDE DEF ids, doubts
  <1>4. ASSUME NEW id \in CookieIds, LastWord(Updated(word, doubts), id) # Unsure
        PROVE  IdFits(id, LastWord(Updated(word, doubts), id), rest, store)
    <2>0. LastWord(Updated(word, doubts), id) = IF id \in DOMAIN doubts THEN doubts[id] ELSE LastWord(word, id)
      BY UpdatedAt
    <2>1. id \notin ids /\ LastWord(Updated(word, doubts), id) = LastWord(word, id)
      BY <2>0, <1>3, <1>4
    <2>2. IdFits(id, LastWord(word, id), jar, store)
      BY <1>4, <2>1 DEF CookiesInv, CookiesFit
    <2>3. Leaves(rest, jar, id)
      BY <2>1 DEF ids
    <2> QED BY <2>1, <2>2, <2>3 DEF IdFits, Leaves
  <1>5. CookiesFit(word', jar', store')
    BY <1>1, <1>4 DEF CookiesFit
  <1>6. DOMAIN word' \subseteq CookieIds /\ \A id \in DOMAIN word' : word'[id] \in Unsure..MaxSaid
    <2>1. Unsure \in Unsure..MaxSaid
      BY WordRange
    <2>2. DOMAIN word \subseteq CookieIds /\ \A id \in DOMAIN word : word[id] \in Unsure..MaxSaid
      BY DEF CookiesInv, CookiesTyped
    <2>3. /\ DOMAIN Updated(word, doubts) = DOMAIN word \cup DOMAIN doubts
          /\ \A id \in DOMAIN Updated(word, doubts) :
                Updated(word, doubts)[id] = IF id \in DOMAIN doubts THEN doubts[id] ELSE word[id]
      BY UpdatedAt
    <2> QED BY <1>1, <1>2, <1>3, <2>1, <2>2, <2>3
  <1> QED BY <1>5, <1>6

-----------------------------------------------------------------------------
(* The steps *)

LEMMA ArgumentsTyped ==
    ASSUME NEW a \in Arguments, NEW partitioned \in BOOLEAN, NEW value \in 0..MaxSaid
    PROVE  /\ CookieOf(a, partitioned, value) \in CookieSet
           /\ \A cookie : IsMeant(a, cookie) <=> Id(cookie) = Id(CookieOf(a, partitioned, value))
  <1>1. CookieOf(a, partitioned, value) \in CookieSet
    BY DEF Arguments, CookieOf, CookieSet, Prefix, KeyPrefixes
  <1>2. Id(CookieOf(a, partitioned, value)) = [name |-> a.name, prefix |-> Prefix(a), path |-> a.path]
    BY DEF CookieOf, Id
  <1> QED BY <1>1, <1>2 DEF IsMeant

\* what Cookie accepts a client may heed
LEMMA AcceptedIs ==
    ASSUME NEW a \in Arguments, NEW partitioned \in BOOLEAN, ~Refused(a, partitioned)
    PROVE  /\ Prefix(a) # "" \/ partitioned => a.secure
           /\ Prefix(a) = "__Host-" => a.path = Root
  BY DEF Refused, Prefix, BothPrefixes, Arguments

LEMMA AddKeeps ==
    ASSUME CookiesInv, NEW a \in Arguments, NEW partitioned \in BOOLEAN, AddCookie(a, partitioned)
    PROVE  CookiesInv'
  <1> DEFINE cookie == CookieOf(a, partitioned, said + 1)
  <1>1. said \in Nat /\ said' \in 0..MaxSaid /\ said + 1 \in 0..MaxSaid /\ UNCHANGED <<store, secured>>
    BY CookiesAssumption DEF AddCookie, CookiesInv, CookiesTyped, CookiesAssumption
  <1>2. CASE Refused(a, partitioned)
    <2>1. UNCHANGED <<jar, word>>
      BY <1>2 DEF AddCookie
    <2>2. CookiesFit(word', jar', store')
      BY <1>1, <2>1 DEF CookiesInv
    <2> QED BY <1>1, <2>1, <2>2, FitThen DEF CookiesInv, CookiesTyped
  <1>3. CASE ~Refused(a, partitioned)
    <2>1. jar' = Append(jar, cookie) /\ Says(cookie, said + 1) /\ cookie.value = said + 1
      BY <1>3 DEF AddCookie, CookieOf
    <2>2. cookie \in CookieSet
      BY <1>1, ArgumentsTyped
    <2>3. /\ cookie.prefix # "" \/ cookie.partitioned => cookie.secure
          /\ cookie.prefix = "__Host-" => cookie.path = Root
      BY <1>3, AcceptedIs DEF CookieOf
    <2> HIDE DEF cookie
    <2>4. jar \in Seq(CookieSet)
      BY DEF CookiesInv, CookiesTyped
    <2>5. \A id : Leaves(jar, jar, id)
      BY DEF Leaves
    <2>6. \A i \in DOMAIN jar : jar[i] \in ToSet(jar)
      BY DEF ToSet
    <2>7. Says(cookie, cookie.value)
      BY <2>1
    <2>8. /\ jar' \in Seq(CookieSet) /\ CookiesFit(word', jar', store')
          /\ DOMAIN word' \subseteq CookieIds /\ \A id \in DOMAIN word' : word'[id] \in Unsure..MaxSaid
      BY <1>1, <2>1, <2>2, <2>3, <2>4, <2>5, <2>6, <2>7, SaysKeeps
    <2> QED BY <1>1, <2>8, FitThen DEF CookiesInv, CookiesTyped
  <1> QED BY <1>2, <1>3

\* the deletion is of the cookie that is meant
LEMMA DeletionIs ==
    ASSUME jar \in Seq(CookieSet), NEW a \in Arguments,
           NEW meant, meant = {i \in DOMAIN jar : IsMeant(a, jar[i])},
           NEW deletion,
           deletion = IF meant = {} THEN CookieOf(a, FALSE, 0) ELSE [jar[Min(meant)] EXCEPT !.value = 0]
    PROVE  /\ deletion \in CookieSet /\ deletion.value = 0
           /\ Id(deletion) = Id(CookieOf(a, FALSE, 0)) /\ deletion.prefix = Prefix(a) /\ deletion.path = a.path
  <1>0. 0 \in 0..MaxSaid
    BY CookiesAssumption DEF CookiesAssumption
  <1>1. Id(CookieOf(a, FALSE, 0)) = [name |-> a.name, prefix |-> Prefix(a), path |-> a.path]
    BY DEF Id, CookieOf
  <1>2. CASE meant = {}
    <2>1. deletion = CookieOf(a, FALSE, 0) /\ CookieOf(a, FALSE, 0) \in CookieSet
      BY <1>0, <1>2, ArgumentsTyped
    <2>2. LET none == CookieOf(a, FALSE, 0)
          IN  none.value = 0 /\ none.prefix = Prefix(a) /\ none.path = a.path
      BY DEF CookieOf
    <2> QED BY <2>1, <2>2
  <1>3. CASE meant # {}
    <2>1. meant \subseteq Nat
      BY LenProperties
    <2>2. Min(meant) \in meant
      <3>1. \E x \in meant : \A y \in meant : x <= y
        BY <1>3, <2>1, Least
      <3> QED BY <3>1 DEF Min
    <2>3. jar[Min(meant)] \in CookieSet /\ IsMeant(a, jar[Min(meant)])
      BY <2>2, CookieTyped
    <2>4. deletion = [jar[Min(meant)] EXCEPT !.value = 0]
      BY <1>3
    <2>5. PICK c \in CookieSet : IsMeant(a, c) /\ deletion = [c EXCEPT !.value = 0]
      BY <2>3, <2>4
    <2>6. deletion \in CookieSet /\ deletion.value = 0 /\ Id(deletion) = Id(c)
      BY <1>0, <2>5 DEF CookieSet, Id
    <2>7. Id(c) = [name |-> a.name, prefix |-> Prefix(a), path |-> a.path]
      BY <2>5 DEF IsMeant
    <2>8. deletion.prefix = Prefix(a) /\ deletion.path = a.path
      BY <2>6, <2>7 DEF Id
    <2> QED BY <1>1, <2>6, <2>7, <2>8
  <1> QED BY <1>2, <1>3

\* what is put back is all that was not meant
LEMMA OthersAre ==
    ASSUME jar \in Seq(CookieSet), NEW a \in Arguments,
           NEW meant, meant = {i \in DOMAIN jar : IsMeant(a, jar[i])},
           NEW others, others = Kept(jar, ToSet(jar) \ {jar[i] : i \in meant})
    PROVE  /\ others \in Seq(CookieSet)
           /\ \A i \in DOMAIN others : others[i] \in ToSet(jar)
           /\ \A id : (\A i \in meant : Id(jar[i]) # id) => Leaves(others, jar, id)
  <1> DEFINE keep == ToSet(jar) \ {jar[i] : i \in meant}
  <1>1. keep \subseteq ToSet(jar) /\ \A i \in DOMAIN jar : jar[i] \in ToSet(jar)
    BY DEF ToSet
  <1>2. \A c \in keep : \A i \in meant : c # jar[i]
    OBVIOUS
  <1>3. ASSUME NEW id, \A i \in meant : Id(jar[i]) # id,
               NEW i \in DOMAIN jar, Id(jar[i]) = id
        PROVE  jar[i] \in keep
    <2>1. \A j \in meant : jar[j] # jar[i]
      BY <1>3
    <2> QED BY <1>1, <2>1
  <1>4. others = Kept(jar, keep)
    OBVIOUS
  <1> HIDE DEF keep
  <1>5. others \in Seq(CookieSet \cap keep)
    BY <1>4, KeptOf
  <1>6. \A i \in DOMAIN others : others[i] \in CookieSet \cap keep
    <2>1. DOMAIN others = 1..Len(others)
      BY <1>5, LenProperties
    <2> QED BY <1>5, <2>1, ElementOfSeq
  <1>7. others \in Seq(CookieSet)
    BY <1>5, <1>6
  <1>8. ASSUME NEW id, \A i \in meant : Id(jar[i]) # id PROVE Leaves(others, jar, id)
    BY <1>3, <1>4, <1>8, KeptLeaves
  <1> QED BY <1>1, <1>6, <1>7, <1>8

LEMMA DeleteKeeps ==
    ASSUME CookiesInv, NEW a \in Arguments, DeleteCookie(a)
    PROVE  CookiesInv'
  <1> DEFINE meant    == {i \in DOMAIN jar : IsMeant(a, jar[i])}
             others   == Kept(jar, ToSet(jar) \ {jar[i] : i \in meant})
             deletion == IF meant = {} THEN CookieOf(a, FALSE, 0) ELSE [jar[Min(meant)] EXCEPT !.value = 0]
             alike    == [a EXCEPT !.secure = deletion.secure]
  <1>1. /\ said' \in 0..MaxSaid /\ UNCHANGED <<store, secured>> /\ jar \in Seq(CookieSet)
        /\ 0 \in 0..MaxSaid
    BY CookiesAssumption DEF DeleteCookie, CookiesInv, CookiesTyped, CookiesAssumption
  <1>2. /\ deletion \in CookieSet /\ deletion.value = 0
        /\ Id(deletion) = Id(CookieOf(a, FALSE, 0)) /\ deletion.prefix = Prefix(a) /\ deletion.path = a.path
    <2> HIDE DEF meant, deletion
    <2>1. deletion = IF meant = {} THEN CookieOf(a, FALSE, 0) ELSE [jar[Min(meant)] EXCEPT !.value = 0]
      BY DEF deletion
    <2>2. meant = {i \in DOMAIN jar : IsMeant(a, jar[i])}
      BY DEF meant
    <2> QED BY <1>1, <2>1, <2>2, DeletionIs
  <1>3. \A cookie : IsMeant(a, cookie) <=> Id(cookie) = Id(deletion)
    BY <1>1, <1>2, ArgumentsTyped
  <1>4. /\ others \in Seq(CookieSet)
        /\ \A i \in DOMAIN others : others[i] \in ToSet(jar)
        /\ \A id : (\A i \in meant : Id(jar[i]) # id) => Leaves(others, jar, id)
    <2> HIDE DEF meant, others
    <2>1. others = Kept(jar, ToSet(jar) \ {jar[i] : i \in meant})
      BY DEF others
    <2>2. meant = {i \in DOMAIN jar : IsMeant(a, jar[i])}
      BY DEF meant
    <2> QED BY <1>1, <2>1, <2>2, OthersAre
  <1>5. \A i \in meant : i \in DOMAIN jar /\ jar[i] \in CookieSet /\ Id(jar[i]) = Id(deletion)
    BY <1>1, <1>3, CookieTyped
  <1> DEFINE Changed ==
                /\ jar' \in Seq(CookieSet) /\ CookiesFit(word', jar', store')
                /\ DOMAIN word' \subseteq CookieIds /\ \A id \in DOMAIN word' : word'[id] \in Unsure..MaxSaid
  <1>6. ASSUME UNCHANGED <<jar, word>> PROVE Changed
    BY <1>1, <1>6 DEF CookiesInv, CookiesTyped
  <1>7. ASSUME jar' = <<>>, Doubts(ToSet(jar)) PROVE Changed
    <2>1. ToSet(jar) \subseteq CookieSet /\ \A i \in DOMAIN jar : jar[i] \in ToSet(jar)
      BY <1>1, CookieTyped DEF ToSet
    <2>2. <<>> \in Seq(CookieSet)
      OBVIOUS
    <2>3. ASSUME NEW id \in CookieIds \ {Id(c) : c \in ToSet(jar)} PROVE Leaves(<<>>, jar, id)
      <3>1. Absent(jar, id)
        BY <2>1, <2>3 DEF Absent
      <3> QED BY <3>1 DEF Leaves, JarFits
    <2> QED BY <1>1, <1>7, <2>1, <2>2, <2>3, DoubtsKeeps
  <1>8. ASSUME jar' = others, Doubts({jar[i] : i \in meant}) PROVE Changed
    <2> HIDE DEF others, meant
    <2>1. {jar[i] : i \in meant} \subseteq CookieSet
      BY <1>5
    <2>2. ASSUME NEW id \in CookieIds \ {Id(c) : c \in {jar[i] : i \in meant}} PROVE Leaves(others, jar, id)
      <3>1. \A i \in meant : Id(jar[i]) # id
        BY <2>2
      <3> QED BY <3>1, <1>4
    <2> QED BY <1>1, <1>4, <1>8, <2>1, <2>2, DoubtsKeeps
  <1>9. ASSUME ~Refused(alike, deletion.partitioned), jar' = Append(others, deletion), Says(deletion, 0)
        PROVE  Changed
    <2>1. deletion.secure \in BOOLEAN /\ deletion.partitioned \in BOOLEAN
      BY <1>2 DEF CookieSet
    <2> HIDE DEF others, meant, deletion
    <2>2. alike \in Arguments /\ alike.secure = deletion.secure /\ Prefix(alike) = Prefix(a) /\ alike.path = a.path
      BY <2>1 DEF Arguments, Prefix
    <2> HIDE DEF alike
    <2>3. /\ deletion.prefix # "" \/ deletion.partitioned => deletion.secure
          /\ deletion.prefix = "__Host-" => deletion.path = Root
      BY <1>2, <1>9, <2>1, <2>2, AcceptedIs
    <2>4. \A id \in CookieIds : id # Id(deletion) => Leaves(others, jar, id)
      BY <1>4, <1>5
    <2>5. Says(deletion, deletion.value)
      BY <1>2, <1>9
    <2> QED BY <1>1, <1>2, <1>4, <1>9, <2>3, <2>4, <2>5, SaysKeeps
  <1>10. \/ UNCHANGED <<jar, word>>
         \/ jar' = <<>> /\ Doubts(ToSet(jar))
         \/ jar' = others /\ Doubts({jar[i] : i \in meant})
         \/ ~Refused(alike, deletion.partitioned) /\ jar' = Append(others, deletion) /\ Says(deletion, 0)
    BY DEF DeleteCookie
  <1> HIDE DEF meant, others, deletion, alike
  <1>11. Changed
    BY <1>6, <1>7, <1>8, <1>9, <1>10
  <1> QED BY <1>1, <1>11, FitThen DEF CookiesInv, CookiesTyped

LEMMA ExposeKeeps ==
    ASSUME CookiesInv, NEW i \in DOMAIN jar, Expose(i)
    PROVE  CookiesInv'
  <1> DEFINE exposed == [jar[i] EXCEPT !.secure = FALSE]
             rest == [jar EXCEPT ![i] = exposed]
  <1>1. jar \in Seq(CookieSet) /\ jar[i] \in CookieSet
    BY CookieTyped DEF CookiesInv, CookiesTyped
  <1>2. jar' = rest /\ Doubts({jar[i]}) /\ UNCHANGED <<store, secured, said>>
    BY DEF Expose
  <1>3. exposed \in CookieSet /\ Id(exposed) = Id(jar[i])
    <2>1. ASSUME NEW c \in CookieSet PROVE [c EXCEPT !.secure = FALSE] \in CookieSet /\ Id([c EXCEPT !.secure = FALSE]) = Id(c)
      BY DEF CookieSet, Id
    <2> QED BY <1>1, <2>1
  <1> HIDE DEF exposed
  <1>4. rest \in Seq(CookieSet) /\ DOMAIN rest = DOMAIN jar
        /\ \A j \in DOMAIN jar : rest[j] = IF j = i THEN exposed ELSE jar[j]
    BY <1>1, <1>3
  <1> HIDE DEF rest
  <1>5. ASSUME NEW id \in CookieIds \ {Id(c) : c \in {jar[i]}} PROVE Leaves(rest, jar, id)
    <2>1. Id(jar[i]) # id
      BY <1>5
    <2>2. \A j \in DOMAIN jar : Id(rest[j]) = Id(jar[j]) /\ (Id(jar[j]) = id => rest[j] = jar[j])
      BY <1>3, <1>4, <2>1
    <2>3. \A j \in DOMAIN jar : LastOf(rest, j) <=> LastOf(jar, j)
      BY <1>4, <2>2 DEF LastOf
    <2>4. \A v : JarFits(jar, id, v) => JarFits(rest, id, v)
      BY <1>4, <2>2, <2>3 DEF JarFits
    <2>5. Absent(rest, id) => Absent(jar, id)
      BY <1>4, <2>2 DEF Absent
    <2> QED BY <2>4, <2>5 DEF Leaves
  <1>6. {jar[i]} \subseteq CookieSet
    BY <1>1
  <1>7. /\ jar' \in Seq(CookieSet) /\ CookiesFit(word', jar', store')
        /\ DOMAIN word' \subseteq CookieIds /\ \A id \in DOMAIN word' : word'[id] \in Unsure..MaxSaid
    BY <1>2, <1>4, <1>5, <1>6, DoubtsKeeps
  <1> QED BY <1>2, <1>7, FitThen DEF CookiesInv, CookiesTyped

LEMMA StoredTyped ==
    ASSUME store \subseteq CookieSet, jar \in Seq(CookieSet)
    PROVE  StoredAll(store, jar) \subseteq CookieSet
  <1>0. Len(jar) \in Nat /\ DOMAIN jar = 1..Len(jar)
    BY LenProperties
  <1>1. PICK after : /\ StoredAll(store, jar) = after[Len(jar)] /\ after[0] = store
                     /\ \A m \in 1..Len(jar) : after[m] = Stored(after[m - 1], jar[m])
    BY <1>0, StoredAllIs
  <1> DEFINE T == {n \in Nat : n <= Len(jar) => after[n] \subseteq CookieSet}
  <1>2. 0 \in T
    BY <1>1
  <1>3. ASSUME NEW n \in T PROVE n + 1 \in T
    <2>1. SUFFICES ASSUME n + 1 <= Len(jar) PROVE after[n + 1] \subseteq CookieSet
      OBVIOUS
    <2>2. n \in Nat /\ n + 1 \in 1..Len(jar) /\ after[n] \subseteq CookieSet
      BY <1>0, <2>1
    <2>3. after[n + 1] = Stored(after[n], jar[n + 1]) /\ jar[n + 1] \in CookieSet
      BY <1>0, <1>1, <2>2, CookieTyped
    <2> QED BY <2>2, <2>3 DEF Stored
  <1>4. T = Nat
    <2>1. T \subseteq Nat
      OBVIOUS
    <2> HIDE DEF T
    <2> QED BY <1>2, <1>3, <2>1, Induct
  <1>5. Len(jar) \in T /\ Len(jar) <= Len(jar)
    BY <1>0, <1>4
  <1> QED BY <1>1, <1>5

LEMMA SendStepKeeps == CookiesInv /\ SendCookies => CookiesInv'
  <1> SUFFICES ASSUME CookiesInv, SendCookies PROVE CookiesInv'
    OBVIOUS
  <1>1. store' = StoredAll(store, jar) /\ jar' = <<>> /\ UNCHANGED <<secured, word, said>>
    BY DEF SendCookies
  <1>2. jar \in Seq(CookieSet) /\ store \subseteq CookieSet
    BY DEF CookiesInv, CookiesTyped
  <1>3. StoredAll(store, jar) \subseteq CookieSet
    BY <1>2, StoredTyped
  <1>4. ASSUME NEW id \in CookieIds, LastWord(word, id) # Unsure
        PROVE  IdFits(id, LastWord(word, id), <<>>, StoredAll(store, jar))
    <2>1. IdFits(id, LastWord(word, id), jar, store)
      BY <1>4 DEF CookiesInv, CookiesFit
    <2>2. Plain(StoredAll(store, jar), id) /\ Tells(StoredAll(store, jar), id, LastWord(word, id))
      BY <1>2, <2>1, SendKeeps
    <2> QED BY <2>2 DEF IdFits, JarFits
  <1>5. CookiesFit(word', jar', store')
    BY <1>1, <1>4 DEF CookiesFit
  <1>6. jar' \in Seq(CookieSet)
    BY <1>1
  <1> QED BY <1>1, <1>2, <1>3, <1>5, <1>6, FitThen DEF CookiesInv, CookiesTyped

LEMMA CookiesStart == CookiesInit => CookiesInv
  <1> SUFFICES ASSUME CookiesInit PROVE CookiesInv
    OBVIOUS
  <1>1. jar = <<>> /\ store = {} /\ secured \in BOOLEAN /\ word = <<>> /\ said = 0 /\ DOMAIN word = {}
    BY DEF CookiesInit
  <1>2. CookiesTyped
    BY <1>1, CookiesAssumption DEF CookiesTyped, CookiesAssumption
  <1>3. CookiesFit(word, jar, store)
    BY <1>1 DEF CookiesFit, LastWord, IdFits, JarFits, Plain, Tells
  <1> QED BY <1>2, <1>3 DEF CookiesInv

LEMMA CookiesKept == CookiesInv /\ [CookiesNext]_cookie_vars => CookiesInv'
  <1> SUFFICES ASSUME CookiesInv, [CookiesNext]_cookie_vars PROVE CookiesInv'
    OBVIOUS
  <1>1. CASE \E a \in Arguments, partitioned \in BOOLEAN : AddCookie(a, partitioned)
    BY <1>1, AddKeeps
  <1>2. CASE \E a \in Arguments : DeleteCookie(a)
    BY <1>2, DeleteKeeps
  <1>3. CASE \E i \in DOMAIN jar : Expose(i)
    BY <1>3, ExposeKeeps
  <1>4. CASE SendCookies
    BY <1>4, SendStepKeeps
  <1>5. CASE UNCHANGED cookie_vars
    <2>1. UNCHANGED secured /\ CookiesFit(word', jar', store')
      BY <1>5 DEF cookie_vars, CookiesInv
    <2> QED BY <1>5, <2>1, FitThen DEF cookie_vars, CookiesInv, CookiesTyped
  <1> QED BY <1>1, <1>2, <1>3, <1>4, <1>5 DEF CookiesNext

\* Once a response is out, the client has the last word on every cookie, and a handler reads the
\* last word on the one that goes first (sanic/cookies/response.py, request.py).
THEOREM ClientHasLastWord == CookiesSpec => []LastWordRead
  <1>1. CookiesInit => CookiesInv
    BY CookiesStart
  <1>2. CookiesInv /\ [CookiesNext]_cookie_vars => CookiesInv'
    BY CookiesKept
  <1>3. CookiesInv => LastWordRead
    BY InvTellsLast, CookiesAssumption
  <1> QED BY <1>1, <1>2, <1>3, PTL DEF CookiesSpec
-----------------------------------------------------------------------------
(* What is sent of a JSON response *)

USE DEF KeptUpToDate

\* Setting the raw body, as all changes in place do in the end, keeps them together.
LEMMA AssignKeeps ==
    ASSUME KeptUpToDate, NEW value, NEW kept, AssignAs(value, kept), UNCHANGED exists
    PROVE  KeptUpToDate'
  <1>1. CASE Encodes("own", value)
    BY <1>1 DEF AssignAs, Encode
  <1>2. CASE ~Encodes("own", value)
    <2> SUFFICES ASSUME exists', ~body_manually_set', ~behind' PROVE encoded'.value = raw_body'
      OBVIOUS
    <2>1. ~behind /\ ~body_manually_set /\ kept = raw_body
      BY <1>2 DEF AssignAs
    <2>2. encoded' = encoded /\ raw_body' = kept
      BY <1>2 DEF AssignAs
    <2> QED BY <2>1, <2>2
  <1> QED BY <1>1, <1>2

\* And so do all the others.
LEMMA UpToDateKept == KeptUpToDate /\ [JsonNext]_json_vars => KeptUpToDate'
  <1> SUFFICES ASSUME KeptUpToDate, [JsonNext]_json_vars PROVE KeptUpToDate'
    OBVIOUS
  <1>1. ASSUME NEW value \in Raws, MakeJson(value) PROVE KeptUpToDate'
    BY <1>1 DEF MakeJson, Encode
  <1>2. ASSUME NEW value \in Raws, SetRawBody(value) PROVE KeptUpToDate'
    BY <1>2, AssignKeeps DEF SetRawBody, Changing
  <1>3. CASE SetManually
    BY <1>3 DEF SetManually
  <1>4. ASSUME NEW value \in Raws, NEW dumps \in {"own", "other"}, SetBody(value, dumps)
        PROVE  KeptUpToDate'
    <2>1. CASE Encodes(dumps, value)
      BY <1>4, <2>1 DEF SetBody, Encode
    <2>2. CASE ~Encodes(dumps, value)
      BY <1>4, <2>2 DEF SetBody
    <2> QED BY <2>1, <2>2
  <1>5. ASSUME NEW values, Extend(values) PROVE KeptUpToDate'
    BY <1>5, AssignKeeps DEF Extend, InPlace, Changing
  <1>6. ASSUME NEW v \in Values, Update(v) PROVE KeptUpToDate'
    BY <1>6, AssignKeeps DEF Update, InPlace, Changing
  <1>7. ASSUME NEW i \in 1..MaxLen, PopItem(i) PROVE KeptUpToDate'
    BY <1>7, AssignKeeps DEF PopItem, InPlace, Changing
  <1>8. ASSUME NEW key \in Values, NEW default \in BOOLEAN, PopKey(key, default)
        PROVE  KeptUpToDate'
    BY <1>8, AssignKeeps DEF PopKey, InPlace, Changing
  <1>9. CASE UNCHANGED json_vars
    BY <1>9 DEF json_vars
  <1> QED BY <1>1, <1>2, <1>3, <1>4, <1>5, <1>6, <1>7, <1>8, <1>9 DEF JsonNext

\* Whatever list, dict or other body is set, extended, updated or popped, with dumps that raise or
\* not, in whatever order: what is sent is the raw body, unless a dumps has raised half way.
\* (JSONResponse.raw_body, set_body, append, extend, update, pop)
THEOREM SentAsRead == JsonSpec => []KeptUpToDate
  <1>1. JsonInit => KeptUpToDate
    BY DEF JsonInit
  <1> QED BY <1>1, UpToDateKept, PTL DEF JsonSpec
=================================================================================
