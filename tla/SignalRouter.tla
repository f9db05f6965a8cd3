----------------------------- MODULE SignalRouter -----------------------------
(***************************************************************************)
(* The signals of an application that has started: SignalRouter and        *)
(* SignalWaiter of sanic/signals.py, with Sanic.event, the signals that    *)
(* are added later, and the report of exceptions.                          *)
(*                                                                         *)
(* Two namespaces: the events of one, "foo.bar.*", that the application    *)
(* dispatches and awaits, and "server.exception.report".  A signal is      *)
(* declared for one event or with a parameter, foo.bar.<thing>, for all.   *)
(* Handlers that are awaited, dispatches in tasks of their own and waiters *)
(* interleave; a task that does not await keeps the loop.                  *)
(***************************************************************************)
EXTENDS Naturals, FiniteSets, Sequences, SequencesExt, Selecting

CONSTANTS
    Events,        \* of foo.bar
    Conditions,    \* that a dispatch, a signal or a waiter may name
    Waiters,       \* tasks that await events
    Declared,      \* set of the sequences of signals an application starts with
    Added,         \* set of the signals that may be added later
    Awaited,       \* of each, the set of its ways to wait: name, condition, exclusive, timed
    Sent,          \* set of the ways to dispatch: event, condition, reverse, inline
    MaxCalls,      \* bound: dispatches, without the reports
    MaxSignals     \* bound: signals

Report == "server.exception.report"
Star    == "*"
None   == "none"

\* name: what name_index knows it by; trigger: it has a parameter
Signal == [name : Events \cup {Star, Report}, trigger : BOOLEAN,
           requirements : Conditions \cup {None}, exclusive : BOOLEAN]

ASSUME SignalRouterAssumption ==
    /\ Declared \subseteq Seq(Signal) /\ Added \subseteq Signal
    /\ Awaited \in [Waiters -> SUBSET [name : Events \cup {Star}, exclusive : BOOLEAN,
                                       condition : Conditions \cup {None}, timed : BOOLEAN]]
    /\ Sent \subseteq [event : Events, condition : Conditions \cup {None},
                       reverse : BOOLEAN, inline : BOOLEAN]
    /\ Events \cap {Star, Report} = {} /\ None \notin Conditions
    /\ MaxCalls \in Nat /\ MaxSignals \in Nat

VARIABLES
    signals,    \* in the order they were added; <<>>: no application
    waiting,    \* signal.ctx.waiters, by name
    waiters,    \* what each waiter is doing
    calls,      \* every dispatch
    current     \* the dispatch that has the loop, or 0

signal_vars == <<signals, waiting, waiters, calls, current>>

ReportIt == [event |-> Report, condition |-> None, reverse |-> FALSE, inline |-> FALSE]
Names == Events \cup {Star}

NotYet == [name |-> None, condition |-> None, exclusive |-> TRUE, timed |-> FALSE]
Idle == [place |-> "away", how |-> NotYet, future |-> None, cancelled |-> FALSE, owed |-> FALSE,
         outcome |-> None]

SignalTypeOK ==
    /\ signals \in Seq(Signal)
    /\ waiting \in [Names -> Seq(Waiters)]
    /\ waiters \in [Waiters ->
         [place : {"away", "waiting"}, how : UNION {Awaited[w] : w \in Waiters} \cup {NotYet}, future : {None, "pending", "set", "cancelled"},
          cancelled : BOOLEAN, owed : BOOLEAN,
          outcome : {None, "context", "TimeoutError", "ValueError"}]]
    /\ calls \in Seq([how : Sent \cup {ReportIt}, cause : Nat,
                      place : {"created", "running", "awaiting", "reporting", "ended"},
                      todo : Seq(Signal), order : Seq(Signal), called : Seq(Signal),
                      outcome : {None, "value", "raised", "NotFound"}])
    /\ current \in 0..Len(calls)

SignalsAtRest ==
    /\ waiting = [n \in Names |-> <<>>] /\ waiters = [w \in Waiters |-> Idle]
    /\ calls = <<>> /\ current = 0

SignalInit == signals \in Declared /\ SignalsAtRest
SignalOff  == signals = <<>> /\ SignalsAtRest
-----------------------------------------------------------------------------
(* Matching *)

\* SignalWaiter.matches and the same test of _dispatch
Admits(exclusive, requirements, condition) ==
    \/ condition = None /\ (~exclusive \/ requirements = None)
    \/ condition = requirements

Matches(w, event, condition) ==
    /\ Admits(waiters[w].how.exclusive, waiters[w].how.condition, condition)
    /\ waiters[w].how.name \in {Star, event}

Handles(signal, event, condition) ==
    /\ Admits(signal.exclusive, signal.requirements, condition)
    /\ signal.trigger \/ signal.name = event

HandlersFor(event, condition) == {s \in Signal : Handles(s, event, condition)}

\* the group of signals an event belongs to
Group(event) == Kept(signals, {s \in Signal : (s.name = Report) <=> (event = Report)})
-----------------------------------------------------------------------------
(* Adding signals *)

\* finalize(): every signal gets a new deque of waiters
Refinalize == waiting' = [n \in Names |-> <<>>]

\* app.signal, or add_route and the like, after the start: amend() resets and
\* finalizes the router
AddSignal(s) ==
    /\ current = 0 /\ signals # <<>> /\ Len(signals) < MaxSignals
    /\ signals' = Append(signals, s) /\ Refinalize
    /\ UNCHANGED <<waiters, calls, current>>
-----------------------------------------------------------------------------
(* Waiting for an event *)

Known(name) == \E i \in DOMAIN signals : signals[i].name = name

\* Sanic.event up to the future: a signal that is not known is added, with a
\* handler that does nothing (EVENT_AUTOREGISTER, the default)
Await(w, how) ==
    /\ current = 0 /\ signals # <<>> /\ waiters[w] = Idle
    /\ waiters' = [waiters EXCEPT ![w] =
                     [Idle EXCEPT !.place = "waiting", !.how = how, !.future = "pending"]]
    /\ IF Known(how.name)
         THEN waiting' = [waiting EXCEPT ![how.name] = Append(@, w)] /\ UNCHANGED signals
         ELSE /\ Len(signals) < MaxSignals
              /\ signals' = Append(signals, [name |-> how.name, trigger |-> FALSE,
                                             requirements |-> None, exclusive |-> TRUE])
              /\ waiting' = [n \in Names |-> IF n = how.name THEN <<w>> ELSE <<>>]
    /\ UNCHANGED <<calls, current>>

\* wait_for cancels the task: the future, or the wake-up that it already has
Timeout(w) ==
    /\ current = 0 /\ waiters[w].place = "waiting" /\ waiters[w].how.timed /\ ~waiters[w].cancelled
    /\ waiters' = [waiters EXCEPT ![w].cancelled = TRUE,
                                  ![w].future = IF @ = "pending" THEN "cancelled" ELSE @]
    /\ UNCHANGED <<signals, waiting, calls, current>>

\* wait() goes on: `finally: self.signal.ctx.waiters.remove(self)', which raises when
\* the deque is not the one it was put in
Resume(w) ==
    /\ current = 0 /\ waiters[w].place = "waiting" /\ waiters[w].future # "pending"
    /\ LET name   == waiters[w].how.name
           inside == Contains(waiting[name], w)
       IN /\ waiters' = [waiters EXCEPT ![w] = [Idle EXCEPT !.outcome = CASE ~inside -> "ValueError"
                                            [] inside /\ waiters[w].cancelled -> "TimeoutError"
                                            [] OTHER -> "context"]]
          /\ waiting' = [waiting EXCEPT ![name] = Kept(@, Waiters \ {w})]
    /\ UNCHANGED <<signals, calls, current>>
-----------------------------------------------------------------------------
(* Dispatching *)

NewCall(how, cause) ==
    [how |-> how, cause |-> cause, place |-> "created", todo |-> <<>>, order |-> <<>>,
     called |-> <<>>, outcome |-> None]

Own == {c \in DOMAIN calls : calls[c].cause = 0}

\* dispatch(): awaited inline, or a task
Dispatch(how) ==
    /\ current = 0 /\ signals # <<>> /\ Cardinality(Own) < MaxCalls
    /\ calls' = Append(calls, NewCall(how, 0))
    /\ UNCHANGED <<signals, waiting, waiters, current>>

End(c, outcome) ==
    [calls EXCEPT ![c] = [NewCall(@.how, @.cause) EXCEPT !.place = "ended", !.outcome = outcome]]

\* `except Exception': a report is dispatched, in a task, for any event but a report
Raised(c) ==
    /\ current' = 0
    /\ calls' = IF calls[c].how.event = Report THEN End(c, "raised")
                ELSE Append([End(c, "raised") EXCEPT ![c].place = "reporting"],
                            NewCall(ReportIt, c))

WaitersFor(event, condition) == {w \in Waiters : Matches(w, event, condition)}

\* as if those who await a parameter were passed over
ConcernedByName(c) ==
    {Kept(waiting[calls[c].how.event], WaitersFor(calls[c].how.event, calls[c].how.condition))}

\* the waiters of the event, those of a parameter before or after the others
Concerned(c) ==
    LET event == calls[c].how.event
        of(ws) == Kept(ws, WaitersFor(event, calls[c].how.condition))
    IN IF event = Report THEN {<<>>}
       ELSE {of(waiting[event]) \o of(waiting[Star]), of(waiting[Star]) \o of(waiting[event])}

Woken(ws) == [w \in Waiters |-> IF Contains(ws, w) THEN [waiters[w] EXCEPT !.future = "set"]
                                                   ELSE waiters[w]]

\* history: all of them should have been woken
Owed(c, woken) ==
    [w \in Waiters |-> IF waiters[w].future # "pending" \/ calls[c].how.event = Report THEN woken[w]
                      ELSE [woken[w] EXCEPT !.owed = @ \/ Matches(w, calls[c].how.event,
                                                                  calls[c].how.condition)]]

\* _dispatch to its first handler.  set_result raises InvalidStateError on a future
\* that is done, of a waiter that has not run since: waiters after it and all
\* handlers are passed over.
Start(c) ==
    /\ current = 0 /\ calls[c].place = "created"
    /\ LET group == Group(calls[c].how.event)
           order == IF calls[c].how.reverse THEN Reverse(group) ELSE group
           todo  == Kept(order, HandlersFor(calls[c].how.event, calls[c].how.condition))
       IN IF group = <<>>
            THEN /\ calls' = End(c, IF calls[c].how.inline THEN "NotFound" ELSE None)
                 /\ UNCHANGED <<waiters, current>>
            ELSE \E ws \in Concerned(c) :
                   LET done == {i \in DOMAIN ws : waiters[ws[i]].future # "pending"}
                   IN IF done = {}
                        THEN /\ waiters' = Owed(c, Woken(ws))
                             /\ IF todo = <<>>
                                  THEN calls' = [End(c, None) EXCEPT ![c].order = order]
                                         /\ UNCHANGED current
                                  ELSE calls' = [calls EXCEPT ![c].place = "running",
                                                              ![c].todo = todo, ![c].order = order]
                                         /\ current' = c
                        ELSE /\ waiters' = Woken(SubSeq(ws, 1, (CHOOSE i \in done :
                                                     \A j \in done : i <= j) - 1))
                             /\ Raised(c)
    /\ UNCHANGED <<signals, waiting>>

\* What a handler does: it may return a value, nothing, raise, or be awaited.
Returns(c, result) ==
    LET called == Append(calls[c].called, Head(calls[c].todo))
        todo   == Tail(calls[c].todo)
    IN IF result = "raise" THEN Raised(c)
       ELSE IF result = "value" \/ todo = <<>>
              THEN /\ calls' = IF result = "value" THEN End(c, "value")
                               ELSE [calls EXCEPT ![c].place = "ended", ![c].todo = <<>>,
                                                  ![c].called = called]
                   /\ current' = 0
              ELSE /\ calls' = [calls EXCEPT ![c].place = "running", ![c].todo = todo,
                                             ![c].called = called]
                   /\ current' = c

Call(c, result) ==
    /\ current = c /\ calls[c].place = "running"
    /\ IF result = "await"
         THEN calls' = [calls EXCEPT ![c].place = "awaiting"] /\ current' = 0
         ELSE Returns(c, result)
    /\ UNCHANGED <<signals, waiting, waiters>>

HandlerEnds(c, result) ==
    /\ current = 0 /\ calls[c].place = "awaiting"
    /\ Returns(c, result)
    /\ UNCHANGED <<signals, waiting, waiters>>

\* `await self.dispatch(...)' of the report is over: __dispatched__ is set, raise e
Reraise(c) ==
    /\ current = 0 /\ calls[c].place = "reporting"
    /\ calls' = End(c, "raised")
    /\ UNCHANGED <<signals, waiting, waiters, current>>
-----------------------------------------------------------------------------
Scheduled ==
    \/ \E w \in Waiters : Timeout(w) \/ Resume(w)
    \/ \E c \in DOMAIN calls :
         \/ Start(c) \/ Reraise(c)
         \/ \E result \in {"nothing", "value", "raise"} : Call(c, result) \/ HandlerEnds(c, result)
         \/ Call(c, "await")

SignalNext ==
    \/ \E s \in Added : AddSignal(s)
    \/ \E w \in Waiters : \E how \in Awaited[w] : Await(w, how)
    \/ \E how \in Sent : Dispatch(how)
    \/ Scheduled

SignalSpec == SignalInit /\ [][SignalNext]_signal_vars
-----------------------------------------------------------------------------
(* Properties *)

\* A dispatch calls the handlers that match among the signals there were when it
\* started, each once and in their order, whatever is added while one of them is
\* awaited; it stops at the first that returns a value or raises.  What it raises
\* is reported exactly once, and a report that fails is not reported.
\* (SignalRouter._dispatch)
DispatchedInOrder ==
    \A c \in DOMAIN calls :
        LET d     == calls[c]
            right == Kept(d.order, HandlersFor(d.how.event, d.how.condition))
        IN /\ d.place \in {"running", "awaiting"} => d.called \o d.todo = right
           /\ d.place = "ended" /\ d.outcome = None => d.called = right
           /\ d.cause # 0 => calls[d.cause].how.event # Report
           /\ Cardinality({r \in DOMAIN calls : calls[r].cause = c}) =
                IF d.how.event # Report /\ (d.place = "reporting" \/ d.outcome = "raised") THEN 1 ELSE 0

\* A dispatch that gets to its handlers has woken every waiter of the event, one
\* that names a parameter too, unless the router was finalized since it began to
\* wait: it is then in no deque any more.  And no waiter is woken without such a
\* dispatch.  (Sanic.event, SignalWaiter)
WaitersWoken ==
    \A w \in Waiters :
        /\ waiters[w].future = "pending" /\ waiters[w].owed =>
             \A n \in Names : ~Contains(waiting[n], w)
        /\ waiters[w].future = "set" =>
             \E c \in DOMAIN calls : /\ calls[c].place # "created" /\ calls[c].how # ReportIt
                                     /\ Matches(w, calls[c].how.event, calls[c].how.condition)

\* A dispatch reaches whom it should: the handlers and the waiters of its event.
Dispatched == DispatchedInOrder /\ WaitersWoken
=============================================================================
