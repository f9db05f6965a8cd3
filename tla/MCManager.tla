------------------------------ MODULE MCManager ------------------------------
(* Small instances of WorkerManager: what surrounds it, and where it begins. *)
EXTENDS WorkerManager

WorldOf(requests, slow) == [requests |-> requests, slow |-> slow, deaf |-> slow]

RestartFirst == [type |-> "restart", names |-> {1}, order |-> "SHUTDOWN_FIRST"]
ZeroDowntime == [RestartFirst EXCEPT !.order = "STARTUP_FIRST"]
ScaleTo(k)   == [type |-> "scale", num |-> k]
Terminating  == [type |-> "terminate"]

Calm   == WorldOf({RestartFirst, ScaleTo(1), ScaleTo(3)}, FALSE)
Hard   == WorldOf({Terminating}, TRUE)
LiveWorlds == {Calm, Hard}
CalmWorlds == {WorldOf({}, FALSE)}
LateWorlds == {[WorldOf({}, TRUE) EXCEPT !.deaf = FALSE]}

\* The manager monitors NumWorkers servers, all of them up: a state every startup
\* without a failure reaches, from which the longer stories begin.
Online ==
    LET up == [state |-> "ACKED", starts |-> TRUE]
        Initially(n, yes, no) == IF n <= NumWorkers THEN yes ELSE no
    IN /\ phase = "monitor" /\ todo = <<>> /\ misses = 0 /\ shutting_down = FALSE
       /\ num_server = NumWorkers /\ created = NumWorkers
       /\ transient = [i \in 1..NumWorkers |-> i]
       /\ state = [n \in Servers |-> Initially(n, "ACKED", "IDLE")]
       /\ current = [n \in Servers |-> Initially(n, n, 1)]
       /\ old = [n \in Servers |-> 0] /\ waiting = [n \in Servers |-> 0]
       /\ worker_state = [n \in Servers |-> Initially(n, up, None)]
       /\ proc = [p \in Pids |-> Initially(p, [server |-> p, phase |-> "serving"],
                                              [server |-> 1, phase |-> "none"])]
       /\ record = [p \in Pids |-> Initially(p, up, None)]
       /\ signalled = [p \in Pids |-> FALSE] /\ doomed = [p \in Pids |-> FALSE]
       /\ acked = [p \in Pids |-> p <= NumWorkers]

\* Four stories in one run, each with the bounds of the others used up: restarts and
\* scaling, or signals and a crash; and among servers that are slow and deaf for a
\* while, one zero-downtime restart, or a startup, at most with a request to stop.
LiveInit ==
    \/ /\ Online /\ pipe = <<>> /\ world = Calm
       /\ Spent(0, MaxSignals, MaxFailures) \/ Spent(MaxRequests, 0, 0)
    \/ /\ Online /\ pipe = <<ZeroDowntime>> /\ world = Hard
       /\ Spent(MaxRequests - 1, MaxSignals, 0)
    \/ /\ Startup /\ pipe \in {<<>>, <<Terminating>>} /\ world = Hard
       /\ Spent(MaxRequests, MaxSignals, 0)
LiveSpec == LiveInit /\ [][Next]_vars /\ Fairness
==============================================================================
