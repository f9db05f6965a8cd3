------------------------------ MODULE ServerLife ------------------------------
(***************************************************************************)
(* One server process from the start of its loop to the end of it:         *)
(* _serve_http_1, _serve_http_3 and _run_server_forever of                 *)
(* sanic/server/runners.py with what they call of the application: its     *)
(* startup, the four server events and their listeners, stop(), and the    *)
(* registry of named tasks.                                                *)
(*                                                                         *)
(* The process runs its loop a piece at a time: while a listener is        *)
(* awaited, while it serves, while it drains.  In between, nothing on the  *)
(* loop moves.  That, and what a second stop or signal does to a shutdown  *)
(* that has begun, is what can go wrong here.  A connection is only what   *)
(* the shutdown sees of it (Http1Connection, WebsocketClosing have the     *)
(* rest); a task is what shutdown_tasks and purge_tasks see of it.         *)
(***************************************************************************)
EXTENDS Naturals, Sequences, SequencesExt

CONSTANTS
    Conns, Tasks,     \* connections, and names of tasks
    NumListeners,     \* of each server event, in the order they were registered
    Graceful,         \* GRACEFUL_SHUTDOWN_TIMEOUT, in turns of the drain; bound
    MaxStops,         \* bound: stop() calls and signals
    MayRaise,         \* listeners may raise: a subset of {"Exception", "RuntimeError"}
    Lingers           \* a cancelled task may need the loop to end

ASSUME ServerLifeAssumption ==
    /\ NumListeners \in Nat /\ Graceful \in Nat /\ MaxStops \in Nat
    /\ MayRaise \subseteq {"Exception", "RuntimeError"} /\ Lingers \in BOOLEAN

\* before_server_start, after_server_start; before_server_stop, after_server_stop
Inits     == {"init before", "init after"}
Shutdowns == {"shutdown before", "shutdown after"}
Cleanup   == {"drain", "cancel"}
Stopping  == Shutdowns \cup Cleanup
Ends      == {"closed", "failed", "crashed", "killed"}
Stages    == {"off", "startup", "bind", "serving"} \cup Inits \cup Stopping \cup Ends

VARIABLES
    stage,         \* where the process is
    version3,      \* HTTP/3: _serve_http_3
    pending,          \* listeners the event has still to call
    attempt,       \* of _run_shutdown_coro at each of the two events
    halt,          \* a stop is left over: the loop will stop at its first turn
    ghosts,        \* shutdown events that were interrupted and go on by themselves
    announced, is_running,
    stopped,       \* signal.stopped
    conns, tasks,  \* _task_registry: what became of each named task
    ticks,         \* turns of the drain
    stops,         \* history: stop requests
    ran            \* history: the listeners each event called

life_vars == <<stage, version3, pending, attempt, halt, ghosts, announced, is_running, stopped, conns,
               tasks, ticks, stops, ran>>

\* as if they were always called in the order in which they were registered
Registered(event) == [i \in 1..NumListeners |-> i]

\* init events call the listeners in order, shutdown events in reverse
Order(event) ==
    [i \in 1..NumListeners |-> IF event \in Inits THEN i ELSE NumListeners + 1 - i]

LifeTypeOK ==
    /\ stage \in Stages /\ version3 \in BOOLEAN /\ halt \in BOOLEAN
    /\ announced \in BOOLEAN /\ is_running \in BOOLEAN /\ stopped \in BOOLEAN
    /\ pending \in Seq(1..NumListeners) /\ attempt \in [Shutdowns -> 1..2]
    /\ ghosts \in Seq([event : Shutdowns, pending : Seq(1..NumListeners)])
    /\ conns \in [Conns -> {"none", "idle", "busy", "websocket", "closing", "gone"}]
    /\ tasks \in [Tasks -> {"none", "pending", "cancelling", "done"}]
    /\ ticks \in 0..Graceful /\ stops \in 0..MaxStops
    /\ ran \in [Inits \cup Shutdowns -> Seq(1..NumListeners)]

LifeAtRest ==
    /\ pending = <<>> /\ attempt = [e \in Shutdowns |-> 1] /\ halt = FALSE /\ ghosts = <<>> /\ announced = FALSE /\ is_running = FALSE
    /\ stopped = FALSE /\ conns = [c \in Conns |-> "none"] /\ tasks = [t \in Tasks |-> "none"]
    /\ ticks = 0 /\ stops = 0 /\ ran = [e \in Inits \cup Shutdowns |-> <<>>]

LifeInit == stage = "startup" /\ version3 \in BOOLEAN /\ LifeAtRest
LifeOff  == stage = "off" /\ version3 = FALSE /\ LifeAtRest

\* a listener is awaited
Event == stage \in Inits \cup Shutdowns /\ pending # <<>>

\* the loop runs, in run_until_complete or run_forever, and not for its first turn only
Looping == ~halt /\ (Event \/ stage \in {"serving", "drain"})

Live == {c \in Conns : conns[c] \notin {"none", "gone"}}

Begin(event) == stage' = event /\ pending' = Order(event) /\ UNCHANGED attempt
Leave(place) == stage' = place /\ pending' = <<>> /\ UNCHANGED attempt
-----------------------------------------------------------------------------
(* Named tasks *)

\* task.cancel() for every task of the registry; one that does not linger ends at
\* the first turn of the loop, before anything else happens
Cancel(now) ==
    tasks' = [t \in Tasks |->
                IF tasks[t] # "pending" THEN tasks[t]
                ELSE IF Lingers \/ ~now THEN "cancelling" ELSE "done"]

\* purge_tasks
Purged == [t \in Tasks |-> IF tasks[t] = "done" THEN "none" ELSE tasks[t]]

\* a named task is added to a running loop; a name may be used again
AddTask(t) ==
    /\ Looping
    /\ tasks' = [tasks EXCEPT ![t] = "pending"]
    /\ UNCHANGED <<stage, version3, pending, attempt, halt, ghosts, announced, is_running, stopped, conns, ticks,
                   stops, ran>>

TaskEnds(t) ==
    /\ Looping /\ tasks[t] \in {"pending", "cancelling"}
    /\ tasks' = [tasks EXCEPT ![t] = "done"]
    /\ UNCHANGED <<stage, version3, pending, attempt, halt, ghosts, announced, is_running, stopped, conns, ticks,
                   stops, ran>>

\* cancel_task
CancelTask(t) ==
    /\ Looping /\ tasks[t] = "pending"
    /\ tasks' = [tasks EXCEPT ![t] = "cancelling"]
    /\ UNCHANGED <<stage, version3, pending, attempt, halt, ghosts, announced, is_running, stopped, conns, ticks,
                   stops, ran>>
-----------------------------------------------------------------------------
(* Start *)

\* _startup: the routers are finalized; a duplicate route name, say, raises
ProcessStartup(ok) ==
    /\ stage = "startup"
    /\ IF ok THEN Begin("init before") ELSE Leave("crashed")
    /\ UNCHANGED <<version3, halt, ghosts, announced, is_running, stopped, conns, tasks, ticks, stops, ran>>

\* the event is over
Ack ==
    /\ stage = "init before" /\ pending = <<>>
    /\ announced' = TRUE /\ Leave("bind")
    /\ UNCHANGED <<version3, halt, ghosts, is_running, stopped, conns, tasks, ticks, stops, ran>>

Binds(ok, failed) ==
    /\ stage = "bind"
    /\ IF ok /\ ~halt THEN Begin("init after") ELSE Leave(failed)
    /\ UNCHANGED <<version3, halt, ghosts, announced, is_running, stopped, conns, tasks, ticks, stops, ran>>

\* create_server: an error is logged, and _serve_http_1 returns
Bind(ok) == ~version3 /\ Binds(ok, "failed")

\* quic_serve: an error leaves _serve_http_3
BindHttp3(ok) == version3 /\ Binds(ok, "crashed")

\* a stop that is left over ends it at once
RunForever ==
    /\ stage = "init after" /\ pending = <<>>
    /\ IF halt THEN Begin("shutdown before") ELSE Leave("serving")
    /\ halt' = FALSE
    /\ UNCHANGED <<version3, ghosts, announced, stopped, conns, tasks, ticks, stops, ran>>

\* set_serving(True); HTTP/3 does not tell
Serve      == ~version3 /\ RunForever /\ is_running' = TRUE
ServeHttp3 == version3 /\ RunForever /\ UNCHANGED is_running
-----------------------------------------------------------------------------
(* The listeners of an event, one at a time *)

Called == ran' = [ran EXCEPT ![stage] = Append(@, Head(pending))]

ListenerReturns ==
    /\ Event /\ Called
    /\ pending' = Tail(pending)
    /\ UNCHANGED <<stage, version3, attempt, halt, ghosts, announced, is_running, stopped, conns, tasks,
                   ticks, stops>>

\* close_if_idle; a websocket is told to end
CloseIfIdle(conn) == IF conn \in {"idle", "websocket"} THEN "closing" ELSE conn

\* What is after the event when _run_shutdown_coro has given up.
GivesUp ==
    IF stage = "shutdown before" /\ ~version3
      THEN stage' = "drain" /\ pending' = <<>> /\ stopped' = TRUE
             /\ conns' = [c \in Conns |-> CloseIfIdle(conns[c])]
             /\ UNCHANGED attempt
      ELSE IF stage = "shutdown before"
             THEN Begin("shutdown after") /\ UNCHANGED <<stopped, conns>>
             ELSE Leave("closed") /\ UNCHANGED <<stopped, conns>>

\* RuntimeError or KeyboardInterrupt in a shutdown event: once more, from the first
\* listener; then it is passed over.
Again ==
    IF attempt[stage] = 1
      THEN attempt' = [attempt EXCEPT ![stage] = 2] /\ pending' = Order(stage) /\ UNCHANGED <<stage, stopped, conns>>
      ELSE GivesUp

\* run_until_complete that raises because the loop was stopped leaves its task: it
\* goes on when the loop runs next.
Abandoned == ghosts' = Append(ghosts, [event |-> stage, pending |-> pending])

GhostReturns(g) ==
    /\ Looping /\ ghosts[g].pending # <<>>
    /\ LET e == ghosts[g].event
       IN ran' = [ran EXCEPT ![e] = Append(@, Head(ghosts[g].pending))]
    /\ ghosts' = [ghosts EXCEPT ![g].pending = Tail(@)]
    /\ UNCHANGED <<stage, version3, pending, attempt, halt, announced, is_running, stopped, conns, tasks,
                   ticks, stops>>

ListenerRaises(error) ==
    /\ Event /\ Called
    /\ IF stage \in Shutdowns /\ error = "RuntimeError"
         THEN Again
         ELSE Leave("crashed") /\ UNCHANGED <<stopped, conns>>
    /\ UNCHANGED <<version3, halt, ghosts, announced, is_running, tasks, ticks, stops>>

\* The first turn of a loop that a stop was left over for: an event that is not over
\* in it is interrupted.
StopsAtOnce ==
    /\ Event /\ halt /\ halt' = FALSE
    /\ IF stage \in Shutdowns
         THEN Again /\ Abandoned
         ELSE Leave("crashed") /\ UNCHANGED <<stopped, conns, ghosts>>
    /\ UNCHANGED <<version3, announced, is_running, tasks, ticks, stops, ran>>
-----------------------------------------------------------------------------
(* stop() and signals *)

\* shutdown_tasks(0) and loop.stop().  The loop stops in the middle of whatever it
\* runs: run_forever returns, run_until_complete raises RuntimeError.  When the last
\* listener stops it and returns at once, the event is over, and the callback of its
\* end is left to stop the loop the next time it runs.
StopLoop ==
    /\ ~halt /\ stops < MaxStops /\ stops' = stops + 1
    /\ Cancel(TRUE)
    /\ \/ /\ stage = "serving"
          /\ Begin("shutdown before") /\ UNCHANGED <<halt, ghosts, stopped, conns, ran>>
       \/ /\ stage = "drain" \/ (stage \in Inits /\ pending # <<>>)
          /\ Leave("crashed") /\ UNCHANGED <<halt, ghosts, stopped, conns, ran>>
       \/ /\ Event /\ Len(pending) = 1 /\ Called
          /\ pending' = <<>> /\ halt' = TRUE
          /\ UNCHANGED <<stage, attempt, ghosts, stopped, conns>>
       \/ /\ Event /\ stage \in Shutdowns
          /\ Again /\ Abandoned /\ UNCHANGED <<halt, ran>>
    /\ UNCHANGED <<version3, announced, is_running, ticks>>

\* stop() called by a handler, a listener or a task
CallStop == Looping /\ StopLoop

\* SIGINT or SIGTERM while the loop has handlers for them
HandledSignal == stage \in {"init after", "serving"} /\ StopLoop

\* remove_signal_handler has restored the defaults
SIGTERM ==
    /\ stage \in Stopping
    /\ stops < MaxStops /\ stops' = stops + 1
    /\ Leave("killed")
    /\ UNCHANGED <<version3, halt, ghosts, announced, is_running, stopped, conns, tasks, ticks, ran>>

\* KeyboardInterrupt, handled only around the events: in a listener, which ends, or
\* in the loop
SIGINT ==
    /\ stage \in Stopping
    /\ stops < MaxStops /\ stops' = stops + 1
    /\ IF Event
         THEN Again /\ \/ Called /\ UNCHANGED ghosts
                       \/ Abandoned /\ UNCHANGED ran
         ELSE Leave("crashed") /\ UNCHANGED <<stopped, conns, ghosts, ran>>
    /\ UNCHANGED <<version3, halt, announced, is_running, tasks, ticks>>
-----------------------------------------------------------------------------
(* Shutdown *)

\* The listeners have been called: the server is closed, signal.stopped is set and
\* idle connections and websockets begin to close; there is no cleanup of HTTP/3.
ShutdownBegun ==
    /\ stage = "shutdown before" /\ pending = <<>>
    /\ GivesUp
    /\ UNCHANGED <<version3, halt, ghosts, announced, is_running, tasks, ticks, stops, ran>>

\* as if it did not count its turns against the timeout
DrainTurnPast ==
    /\ stage = "drain" /\ Live # {}
    /\ IF halt THEN Leave("crashed") /\ UNCHANGED ticks
               ELSE ticks' = ticks + 1 /\ UNCHANGED <<stage, pending, attempt>>
    /\ UNCHANGED <<version3, halt, ghosts, announced, is_running, stopped, conns, tasks, stops, ran>>

\* `while connections and (start_shutdown < graceful)'
DrainTurn ==
    /\ stage = "drain" /\ Live # {} /\ ticks < Graceful
    /\ IF halt THEN Leave("crashed") /\ UNCHANGED ticks
               ELSE ticks' = ticks + 1 /\ UNCHANGED <<stage, pending, attempt>>
    /\ UNCHANGED <<version3, halt, ghosts, announced, is_running, stopped, conns, tasks, stops, ran>>

\* as if it waited for connections however long
DrainPatient ==
    /\ stage = "drain" /\ Live = {}
    /\ Cancel(FALSE) /\ Leave("cancel")
    /\ UNCHANGED <<version3, halt, ghosts, announced, is_running, stopped, conns, ticks, stops, ran>>

\* shutdown_tasks(graceful - start_shutdown) cancels, without a loop that runs
DrainEnds ==
    /\ stage = "drain" /\ (Live = {} \/ ticks = Graceful)
    /\ Cancel(FALSE) /\ Leave("cancel")
    /\ UNCHANGED <<version3, halt, ghosts, announced, is_running, stopped, conns, ticks, stops, ran>>

\* as if the connections that are left were not closed
ForceNothing ==
    /\ stage = "cancel" /\ tasks' = Purged
    /\ Graceful = 0 \/ \A t \in Tasks : tasks'[t] = "none"
    /\ is_running' = FALSE
    /\ Begin("shutdown after")
    /\ UNCHANGED <<version3, halt, ghosts, announced, stopped, conns, ticks, stops, ran>>

\* as if it were known how long to wait for the tasks
CancelInTime ==
    /\ stage = "cancel" /\ tasks' = Purged
    /\ conns' = [c \in Conns |-> IF c \in Live THEN "closing" ELSE conns[c]]
    /\ is_running' = FALSE
    /\ Begin("shutdown after")
    /\ UNCHANGED <<version3, halt, ghosts, announced, stopped, ticks, stops, ran>>

\* `while len(self._task_registry) and timeout': tasks that have ended are purged;
\* timeout is a float that 0.1 is subtracted from, and that does not come to 0 unless it
\* was 0 (or one of few, like 0.2; 15.0 is the default).  Then connections are aborted and failed, and set_serving(False).
ForceClose ==
    /\ stage = "cancel" /\ tasks' = Purged
    /\ Graceful = 0 \/ \A t \in Tasks : tasks'[t] = "none"
    /\ conns' = [c \in Conns |-> IF c \in Live THEN "closing" ELSE conns[c]]
    /\ is_running' = FALSE
    /\ Begin("shutdown after")
    /\ UNCHANGED <<version3, halt, ghosts, announced, stopped, ticks, stops, ran>>

\* loop.close()
CloseLoop ==
    /\ stage = "shutdown after" /\ pending = <<>>
    /\ Leave("closed")
    /\ UNCHANGED <<version3, halt, ghosts, announced, is_running, stopped, conns, tasks, ticks, stops, ran>>
-----------------------------------------------------------------------------
(* Connections *)

TransportMoves(c, from, to) ==
    /\ Looping /\ conns[c] \in from
    /\ conns' = [conns EXCEPT ![c] = to]
    /\ UNCHANGED <<stage, version3, pending, attempt, halt, ghosts, announced, is_running, stopped, tasks, ticks,
                   stops, ran>>

\* the server listens from the bind to the end of the shutdown's first event
ConnectionMade(c) == stage \in {"init after", "serving", "shutdown before"}
                       /\ TransportMoves(c, {"none"}, "idle")
RequestBegins(c)  == \/ TransportMoves(c, {"idle"}, "busy")
                     \/ TransportMoves(c, {"idle"}, "websocket")
\* keep-alive ends with signal.stopped
RequestEnds(c)    == TransportMoves(c, {"busy"}, IF stopped THEN "gone" ELSE "idle")
ConnectionLost(c) == TransportMoves(c, {"idle", "busy", "websocket", "closing"}, "gone")
-----------------------------------------------------------------------------
Process ==
    \/ \E ok \in BOOLEAN : ProcessStartup(ok) \/ Bind(ok) \/ BindHttp3(ok)
    \/ Ack \/ Serve \/ ServeHttp3 \/ ListenerReturns
    \/ ShutdownBegun \/ DrainTurn \/ DrainEnds \/ ForceClose \/ CloseLoop

Connection(c) ==
    ConnectionMade(c) \/ RequestBegins(c) \/ RequestEnds(c) \/ ConnectionLost(c)

LifeNext ==
    \/ Process
    \/ \E error \in MayRaise : ListenerRaises(error)
    \/ StopsAtOnce \/ CallStop \/ HandledSignal \/ SIGTERM \/ SIGINT
    \/ \E g \in DOMAIN ghosts : GhostReturns(g)
    \/ \E c \in Conns : Connection(c)
    \/ \E t \in Tasks : AddTask(t) \/ TaskEnds(t) \/ CancelTask(t)

\* Listeners return, and the process goes on; nothing is assumed of connections,
\* which the shutdown must not wait for, or of tasks.
LifeFairness == WF_life_vars(Process)

LifeSpec == LifeInit /\ [][LifeNext]_life_vars /\ LifeFairness
-----------------------------------------------------------------------------
Due(e) == LET registered == [i \in 1..NumListeners |-> i]
          IN IF e \in Inits THEN registered ELSE Reverse(registered)

\* Each event calls its listeners in order, the shutdown ones in reverse, and none
\* twice, unless the event was interrupted and runs a second time.  No shutdown listener
\* is called unless every listener of the two start events has returned and the manager
\* has been told: it may rely on what they started.
\* (_server_event; after_server_start that raises or is stopped ends the process
\* without a shutdown)
ListenersInOrder ==
    /\ \A e \in DOMAIN ran :
          \/ \E n \in 0..NumListeners : ran[e] = SubSeq(Due(e), 1, n)
          \/ e \in Shutdowns /\ attempt[e] = 2
    /\ stage \in Stopping \cup {"closed"} =>
          announced /\ \A e \in Inits : ran[e] = Due(e)

\* The last listeners are called when nothing is served any more: no named task is
\* left, no request is being handled, no connection is idle, and the manager knows.
\* (_cleanup between the two events; HTTP/3 has none)
QuietAtTheEnd ==
    [][stage # "shutdown after" /\ stage' = "shutdown after" /\ ~version3 =>
          /\ ~is_running'
          /\ \A c \in Conns : conns'[c] \in {"none", "closing", "gone"}
          /\ Graceful # 0 => \A t \in Tasks : tasks'[t] = "none"]_life_vars

\* A process told to stop ends, whatever its connections do, unless a named task has
\* outlived its cancellation.
Spinning == stage = "cancel" /\ \E t \in Tasks : tasks[t] = "cancelling"
ServerEnds == []<>(stops > 0 => stage \in Ends \cup {"off"} \/ Spinning)

\* The same without the exception: of how long shutdown_tasks "will wait for the tasks to
\* complete" its timeout has "control".  (docstring of Sanic.shutdown_tasks)
ShutdownTasksReturns == []<>(stops > 0 => stage \in Ends \cup {"off"})
=============================================================================
