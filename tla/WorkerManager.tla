---------------------------- MODULE WorkerManager ----------------------------
(***************************************************************************)
(* The main process of a multi-process Sanic (sanic/worker/manager.py,     *)
(* process.py, restarter.py) with the server processes it spawns           *)
(* (worker/serve.py, worker/multiplexer.py, server/runners.py), the state  *)
(* dictionary they share and the pipe the manager listens to.              *)
(*                                                                         *)
(* The main thread runs a program: `todo', a sequence of operations, at    *)
(* the granularity at which a signal handler can interrupt it and at which *)
(* another process can get in between the read and the write of an update  *)
(* of the shared state (worker_state[name] = {**worker_state[name], ...}). *)
(*                                                                         *)
(* Servers are numbered as create_server() numbers them; operating system  *)
(* processes are numbered in the order of WorkerProcess.spawn().           *)
(***************************************************************************)
EXTENDS Integers, Sequences, FiniteSets, Selecting

CONSTANTS
    NumWorkers,   \* servers at startup
    Worlds,       \* what surrounds a behaviour: requests, slow, deaf; see below
    MaxRequests,  \* bound: requests sent
    MaxServers,   \* bound: servers ever created
    MaxSpawns,    \* bound: operating system processes ever created
    MaxSignals,   \* bound: SIGINT or SIGTERM received by the main process
    SignalWhen,   \* phases of the manager in which they may be received
    MaxFailures,  \* bound: servers that fail to start or crash
    Threshold     \* WorkerManager.THRESHOLD

Orders == {"SHUTDOWN_FIRST", "STARTUP_FIRST"}
RequestType ==
    [type : {"restart"}, names : SUBSET (1..MaxServers), order : Orders]
       \cup [type : {"scale"}, num : Nat \ {0}]
       \cup [type : {"terminate"}]
\* names = {}: __ALL_PROCESSES__

\* requests: what may be sent to the monitor; slow: a server may take longer to start
\* than the thresholds; deaf: a signal may come while a server ignores signals
IsWorld(w) ==
    /\ w = [requests |-> w.requests, slow |-> w.slow, deaf |-> w.deaf]
    /\ w.requests \subseteq RequestType /\ w.slow \in BOOLEAN /\ w.deaf \in BOOLEAN

ASSUME ManagerAssumption ==
    /\ MaxServers \in Nat /\ MaxSpawns \in Nat
    /\ NumWorkers \in 1..MaxServers /\ NumWorkers <= MaxSpawns
    /\ \A w \in Worlds : IsWorld(w)
    /\ MaxRequests \in Nat /\ MaxSignals \in Nat /\ MaxFailures \in Nat
    /\ SignalWhen \subseteq {"start", "ack", "monitor", "busy", "join", "terminate", "cleanup"}
    /\ Threshold \in Nat

Servers == 1..MaxServers
Pids    == 1..MaxSpawns

VARIABLES
    \* the main process
    phase,          \* of WorkerManager.run(): see Phases
    todo,           \* operations the main thread has still to perform
    misses,         \* of wait_for_ack
    shutting_down,
    num_server,
    created,        \* servers created: next(_server_count)
    transient,      \* registered servers, in order
    \* the WorkerProcess objects
    state,          \* the state each object knows
    current,        \* the pid of _current_process
    old,            \* the pid of _old_process, 0 when it has none
    waiting,        \* threads in _wait_to_terminate
    \* shared
    worker_state,   \* per server: the state, and whether "starts" is set
    pipe,           \* messages for the monitor
    \* the operating system's processes
    proc,           \* server and phase of each
    record,         \* the record it read from worker_state and will write back
    signalled,      \* a SIGINT or SIGTERM is pending
    \* history
    doomed,         \* it was sent a signal by the manager
    acked,          \* it acknowledged
    requested, signals, failures,
    world           \* one of Worlds

manager  == <<phase, todo, misses, shutting_down, num_server, created, transient>>
objects  == <<state, current, old, waiting>>
children == <<proc, record, signalled, doomed, acked>>
bounds   == <<requested, signals, failures, world>>
vars     == <<manager, objects, worker_state, pipe, children, bounds>>

------------------------------------------------------------------------------
(* Data *)

Rank == [NONE |-> 1, IDLE |-> 2, RESTARTING |-> 3, STARTING |-> 4, STARTED |-> 5,
         ACKED |-> 6, JOINED |-> 7, TERMINATED |-> 8, FAILED |-> 9, COMPLETED |-> 10]
States == DOMAIN Rank
Final  == {"TERMINATED", "FAILED", "COMPLETED"}

Phases == {"start", "ack", "monitor", "join", "terminate", "cleanup", "done",
           "killed", "crashed"}
Ended  == {"done", "killed", "crashed"}

\* "boot": loading the app and starting it, up to app.ack().  "setup": it acked,
\* signals are ignored until the loop handles them.  "up": before set_serving.
Alive  == {"boot", "ack", "bind", "setup", "up", "up_put", "serving", "stop_put"}
Gone   == {"exited", "failed"}        \* by exit code

Op(op, n)         == [op |-> op, n |-> n]
Put(n, rec)       == [op |-> "put", n |-> n, rec |-> rec]   \* worker_state[n] = rec
SetState(n, s, f) == << [op |-> "set", n |-> n, state |-> s, force |-> f] >>

Start(n) == SetState(n, "STARTING", FALSE) \o <<Op("fork", n)>>
              \o SetState(n, "STARTED", FALSE) \o <<Op("first", n)>>
Touch(n) == <<Op("starts", n)>>
Terminate(n) == SetState(n, "TERMINATED", TRUE) \o <<Op("kill", n)>>
\* a variant: the process in place is not terminated
RestartBeside(n, order) ==
    SetState(n, "RESTARTING", TRUE)
      \o (IF order = "SHUTDOWN_FIRST" THEN <<Op("spawn", n)>>
                                      ELSE <<Op("keep_old", n), Op("spawn", n)>>)
      \o Start(n)
      \o (IF order = "STARTUP_FIRST" THEN <<Op("terminate_soon", n)>> ELSE <<>>)
      \o Touch(n)
Restart(n, order) ==
    SetState(n, "RESTARTING", TRUE)
      \o (IF order = "SHUTDOWN_FIRST" THEN <<Op("terminate_now", n), Op("spawn", n)>>
                                      ELSE <<Op("keep_old", n), Op("spawn", n)>>)
      \o Start(n)
      \o (IF order = "STARTUP_FIRST" THEN <<Op("terminate_soon", n)>> ELSE <<>>)
      \o Touch(n)

Each(op, ns) == [i \in DOMAIN ns |-> Op(op, ns[i])]

IsAlive(p)  == proc[p].phase \in Alive
HasPid(n)   == proc[current[n]].phase # "new"
Member(n)   == \E i \in DOMAIN transient : transient[i] = n
Processes   == Kept(transient, {n \in Servers : HasPid(n)})

\* nothing more is to be expected from the process of server n
Settled(n) == acked[current[n]] \/ proc[current[n]].phase \in Gone

\* WorkerManager.shutdown
Shutdown == Each("terminate_alive", Processes) \o <<Op("down", 0)>>

------------------------------------------------------------------------------
(* One operation of the main thread *)

Doing(op)  == todo # <<>> /\ todo[1].op = op /\ phase \notin Ended
It         == todo[1].n
Rest       == Tail(todo)
Then(ops)  == todo' = ops \o Rest
Proceed    == todo' = Rest
Raise      == phase' = "crashed" /\ todo' = <<>>

\* os.kill(pid, SIGINT) or Process.terminate()
SendSignal(ps) ==
    /\ signalled' = [p \in Pids |-> signalled[p] \/ (p \in ps /\ IsAlive(p))]
    /\ doomed' = [p \in Pids |-> doomed[p] \/ p \in ps]

\* WorkerProcess.set_state: the object's own state, and the read of the shared
\* record; then its write
Set ==
    /\ Doing("set")
    /\ IF ~todo[1].force /\ Rank[todo[1].state] < Rank[state[It]]
         THEN Raise /\ UNCHANGED state
         ELSE /\ state' = [state EXCEPT ![It] = todo[1].state]
              /\ Then(<<Put(It, [worker_state[It] EXCEPT !.state = todo[1].state])>>)
              /\ UNCHANGED phase
    /\ UNCHANGED <<misses, shutting_down, num_server, created, transient, current,
                   old, waiting, worker_state, pipe, children, bounds>>

WriteBack ==
    /\ Doing("put")
    /\ worker_state' = [worker_state EXCEPT ![It] = todo[1].rec]
    /\ Proceed
    /\ UNCHANGED <<phase, misses, shutting_down, num_server, created,
                   transient, objects, pipe, children, bounds>>

\* the record of the first start, and the count of starts after a restart
First ==
    /\ Doing("first")
    /\ Then(IF worker_state[It].starts THEN <<>> ELSE Touch(It))
    /\ UNCHANGED <<phase, misses, shutting_down, num_server, created,
                   transient, objects, worker_state, pipe, children, bounds>>

Starts ==
    /\ Doing("starts")
    /\ Then(<<Put(It, [worker_state[It] EXCEPT !.starts = TRUE])>>)
    /\ UNCHANGED <<phase, misses, shutting_down, num_server, created,
                   transient, objects, worker_state, pipe, children, bounds>>

\* a terminate() of an object that is TERMINATED already does nothing
TerminateIt ==
    /\ Doing("terminate")
    /\ Then(IF state[It] = "TERMINATED" THEN <<>> ELSE Terminate(It))
    /\ UNCHANGED <<phase, misses, shutting_down, num_server, created,
                   transient, objects, worker_state, pipe, children, bounds>>

\* WorkerManager.shutdown asks is_alive() first
TerminateAlive ==
    /\ Doing("terminate_alive")
    /\ Then(IF IsAlive(current[It]) THEN <<Op("terminate", It)>> ELSE <<>>)
    /\ UNCHANGED <<phase, misses, shutting_down, num_server, created,
                   transient, objects, worker_state, pipe, children, bounds>>

Kill ==
    /\ Doing("kill") \/ Doing("terminate_now")
    /\ SendSignal({current[It]})
    /\ Proceed
    /\ UNCHANGED <<phase, misses, shutting_down, num_server, created,
                   transient, objects, worker_state, pipe, proc, record, acked,
                   bounds>>

KeepOld ==
    /\ Doing("keep_old")
    /\ old' = [old EXCEPT ![It] = current[It]]
    /\ Proceed
    /\ UNCHANGED <<phase, misses, shutting_down, num_server, created,
                   transient, state, current, waiting, worker_state, pipe,
                   children, bounds>>

Unspawned == {p \in Pids : proc[p].phase = "none"}
NextPid   == CHOOSE p \in Unspawned : \A q \in Unspawned : p <= q

Spawn ==
    /\ Doing("spawn") /\ Unspawned # {}
    /\ IF state[It] \notin {"IDLE", "RESTARTING"}
         THEN Raise /\ UNCHANGED <<current, proc>>
         ELSE /\ current' = [current EXCEPT ![It] = NextPid]
              /\ proc' = [proc EXCEPT ![NextPid] = [server |-> It, phase |-> "new"]]
              /\ Proceed /\ UNCHANGED phase
    /\ UNCHANGED <<misses, shutting_down, num_server, created, transient,
                   state, old, waiting, worker_state, pipe, record, signalled,
                   doomed, acked, bounds>>

Fork ==
    /\ Doing("fork")
    /\ proc' = [proc EXCEPT ![current[It]].phase = "boot"]
    /\ Proceed
    /\ UNCHANGED <<phase, misses, shutting_down, num_server, created,
                   transient, objects, worker_state, pipe, record, signalled,
                   doomed, acked, bounds>>

TerminateSoon ==
    /\ Doing("terminate_soon")
    /\ waiting' = [waiting EXCEPT ![It] = waiting[It] + 1]
    /\ Proceed
    /\ UNCHANGED <<phase, misses, shutting_down, num_server, created,
                   transient, state, current, old, worker_state, pipe, children,
                   bounds>>

\* WorkerManager._sync_states, one process
Sync ==
    /\ Doing("sync")
    /\ LET s == IF IsAlive(current[It]) THEN worker_state[It].state
                ELSE IF proc[current[It]].phase = "failed" THEN "FAILED" ELSE "COMPLETED"
       IN Then(IF HasPid(It) /\ Member(It) /\ state[It] # "RESTARTING" /\ state[It] # s
                 THEN SetState(It, s, TRUE) ELSE <<>>)
    /\ UNCHANGED <<phase, misses, shutting_down, num_server, created,
                   transient, objects, worker_state, pipe, children, bounds>>

\* create_server() and start(), for scale(); the object is created IDLE
Create ==
    /\ Doing("create") /\ created < MaxServers /\ Unspawned # {}
    /\ LET n == created + 1
       IN /\ created' = n
          /\ transient' = Append(transient, n)
          /\ current' = [current EXCEPT ![n] = NextPid]
          /\ proc' = [proc EXCEPT ![NextPid] = [server |-> n, phase |-> "new"]]
          /\ Then(Start(n))
    /\ UNCHANGED <<phase, misses, shutting_down, num_server, state, old,
                   waiting, worker_state, pipe, record, signalled, doomed, acked,
                   bounds>>

\* shutdown_server() of a random server
Drop ==
    /\ Doing("drop")
    /\ \E i \in DOMAIN transient :
          /\ Then(<<Op("terminate", transient[i]), Op("del", transient[i])>>)
    /\ UNCHANGED <<phase, misses, shutting_down, num_server, created,
                   transient, objects, worker_state, pipe, children, bounds>>

Del ==
    /\ Doing("del")
    /\ transient' = Kept(transient, Servers \ {It})
    /\ Proceed
    /\ UNCHANGED <<phase, misses, shutting_down, num_server, created,
                   objects, worker_state, pipe, children, bounds>>

\* a variant: the number of servers is not updated
NumKept ==
    /\ Doing("num")
    /\ Proceed
    /\ UNCHANGED <<phase, misses, shutting_down, num_server, created, transient,
                   objects, worker_state, pipe, children, bounds>>

Num ==
    /\ Doing("num")
    /\ num_server' = It
    /\ Proceed
    /\ UNCHANGED <<phase, misses, shutting_down, created, transient, objects,
                   worker_state, pipe, children, bounds>>

Down ==
    /\ Doing("down")
    /\ shutting_down' = TRUE
    /\ Proceed
    /\ UNCHANGED <<phase, misses, num_server, created, transient, objects,
                   worker_state, pipe, children, bounds>>

\* Process.join()
Wait ==
    /\ Doing("wait") /\ ~IsAlive(current[It])
    /\ Proceed
    /\ UNCHANGED <<phase, misses, shutting_down, num_server, created,
                   transient, objects, worker_state, pipe, children, bounds>>

\* WorkerProcess.exit(): ten seconds at most, then the record goes
Exit ==
    /\ Doing("exit")
    /\ worker_state' = IF IsAlive(current[It]) THEN worker_state
                       ELSE [worker_state EXCEPT ![It].state = "NONE"]
    /\ Proceed
    /\ UNCHANGED <<phase, misses, shutting_down, num_server, created,
                   transient, objects, pipe, children, bounds>>

Operation ==
    \/ Set \/ WriteBack \/ First \/ Starts \/ TerminateIt \/ TerminateAlive \/ Kill
    \/ KeepOld \/ Spawn \/ Fork \/ TerminateSoon \/ Sync \/ Create \/ Drop
    \/ Del \/ Num \/ Down \/ Wait \/ Exit

------------------------------------------------------------------------------
(* WorkerManager.run(): start, monitor, join, terminate, cleanup           *)

Free(ph) == phase = ph /\ todo = <<>>

\* start() has started every server
Started ==
    /\ Free("start")
    /\ phase' = "ack"
    /\ UNCHANGED <<todo, misses, shutting_down, num_server, created,
                   transient, objects, worker_state, pipe, children, bounds>>

AllWorkersAck ==
    /\ created = num_server
    /\ \A n \in 1..created : worker_state[n].state = "ACKED"

AckDone ==
    /\ Free("ack") /\ AllWorkersAck
    /\ phase' = "monitor"
    /\ UNCHANGED <<todo, misses, shutting_down, num_server, created,
                   transient, objects, worker_state, pipe, children, bounds>>

\* wait_for_ack puts every other message back into the pipe, and counts no miss
AckRequeue ==
    /\ Free("ack") /\ ~AllWorkersAck
    /\ pipe # <<>> /\ pipe[1].type # "early"
    /\ pipe' = Append(Tail(pipe), pipe[1])
    /\ UNCHANGED <<manager, objects, worker_state, children, bounds>>

\* WorkerManager.kill: SIGKILL to the process group of a server, which is the
\* manager's own.  A server that ended may have been reaped: it has no group then.
KillGroup ==
    /\ proc' = [p \in Pids |-> IF IsAlive(p) THEN [proc[p] EXCEPT !.phase = "failed"]
                               ELSE proc[p]]
    /\ phase' = "killed" /\ todo' = <<>>
NoneAlive == \A i \in DOMAIN transient : ~IsAlive(current[transient[i]])

GiveUp ==
    /\ \/ KillGroup
       \/ NoneAlive /\ phase' = "killed" /\ UNCHANGED <<todo, proc>>
    /\ UNCHANGED <<shutting_down, num_server, created, transient, objects,
                   worker_state, record, signalled, doomed, acked, bounds>>

\* a variant: the misses are counted and never acted on
AckMissForever ==
    /\ Free("ack") /\ ~AllWorkersAck /\ pipe = <<>>
    /\ world.slow \/ \A n \in 1..created : Settled(n)
    /\ misses' = misses + 1
    /\ UNCHANGED <<phase, todo, shutting_down, num_server, created, transient,
                   objects, worker_state, children, bounds, pipe>>

\* no message for 0.1 s
AckMiss ==
    /\ Free("ack") /\ ~AllWorkersAck /\ pipe = <<>>
    /\ world.slow \/ \A n \in 1..created : Settled(n)
    /\ misses' = misses + 1
    /\ IF misses' > Threshold THEN GiveUp
       ELSE UNCHANGED <<phase, todo, shutting_down, num_server, created, transient,
                        objects, worker_state, children, bounds>>
    /\ UNCHANGED pipe

\* a server that failed to start
AckFailed ==
    /\ Free("ack") /\ ~AllWorkersAck
    /\ pipe # <<>> /\ pipe[1].type = "early" /\ pipe' = Tail(pipe)
    /\ misses' = Threshold + 1
    /\ GiveUp

\* _poll_monitor without a message, then _sync_states
PollNothing ==
    /\ Free("monitor") /\ pipe = <<>>
    /\ todo' = Each("sync", Processes)
    /\ UNCHANGED <<phase, misses, shutting_down, num_server, created,
                   transient, objects, worker_state, pipe, children, bounds>>

Receive(type) == Free("monitor") /\ pipe # <<>> /\ pipe[1].type = type /\ pipe' = Tail(pipe)

\* None breaks the loop
PollNone ==
    /\ Receive("none")
    /\ phase' = "join"
    /\ UNCHANGED <<todo, misses, shutting_down, num_server, created,
                   transient, objects, worker_state, children, bounds>>

\* "__TERMINATE__": shutdown() before the loop is left
PollTerminate ==
    /\ Receive("terminate")
    /\ todo' = Shutdown
    /\ phase' = "join"
    /\ UNCHANGED <<misses, shutting_down, num_server, created, transient,
                   objects, worker_state, children, bounds>>

\* "__SCALE__:num"
PollScale ==
    /\ Receive("scale")
    /\ LET k == pipe[1].num
           change == k - num_server
       IN todo' = IF change = 0 THEN <<>>
                  ELSE [i \in 1..(IF change > 0 THEN change ELSE -change) |->
                          Op(IF change > 0 THEN "create" ELSE "drop", 0)]
                       \o <<Op("num", k)>>
    /\ UNCHANGED <<phase, misses, shutting_down, num_server, created,
                   transient, objects, worker_state, children, bounds>>

\* names, or all: the servers are restarted one after the other
RestartOne ==
    /\ \E order \in Orders : Doing(order) /\ Then(Restart(It, order))
    /\ UNCHANGED <<phase, misses, shutting_down, num_server, created,
                   transient, objects, worker_state, pipe, children, bounds>>

PollRestart ==
    /\ Receive("restart")
    /\ LET m == pipe[1]
           chosen == Kept(transient, IF m.names = {} THEN Servers ELSE m.names)
       IN todo' = Each(m.order, chosen) \o Each("sync", transient)
    /\ UNCHANGED <<phase, misses, shutting_down, num_server, created,
                   transient, objects, worker_state, children, bounds>>

\* outside wait_for_ack "__TERMINATE_EARLY__" is taken for the name of a process
PollEarly ==
    /\ Receive("early")
    /\ todo' = Each("sync", Processes)
    /\ UNCHANGED <<phase, misses, shutting_down, num_server, created,
                   transient, objects, worker_state, children, bounds>>

\* join(): those whose state is below JOINED, again until there is none
ToJoin == Kept(Processes, {n \in Servers : Rank[state[n]] < Rank["JOINED"]})
Join ==
    /\ Free("join")
    /\ IF ToJoin = <<>>
         THEN phase' = "terminate" /\ UNCHANGED todo
         ELSE /\ todo' = SetState(ToJoin[1], "JOINED", FALSE) \o <<Op("wait", ToJoin[1])>>
              /\ UNCHANGED phase
    /\ UNCHANGED <<misses, shutting_down, num_server, created, transient,
                   objects, worker_state, pipe, children, bounds>>

TerminateAll ==
    /\ Free("terminate")
    /\ phase' = "cleanup"
    /\ todo' = (IF shutting_down THEN <<>> ELSE Each("terminate", Processes))
                 \o Each("exit", Processes)
    /\ UNCHANGED <<misses, shutting_down, num_server, created, transient,
                   objects, worker_state, pipe, children, bounds>>

CleanedUp ==
    /\ Free("cleanup")
    /\ phase' = "done"
    /\ UNCHANGED <<todo, misses, shutting_down, num_server, created,
                   transient, objects, worker_state, pipe, children, bounds>>

RunStep ==
    \/ Started \/ AckDone \/ AckRequeue \/ AckMiss \/ AckFailed \/ PollNothing \/ PollNone
    \/ PollTerminate \/ PollScale \/ PollRestart \/ PollEarly \/ RestartOne
    \/ Join \/ TerminateAll \/ CleanedUp

------------------------------------------------------------------------------
(* WorkerManager.shutdown_signal: between any two operations               *)

Whereabouts == IF phase = "monitor" /\ todo # <<>> THEN "busy" ELSE phase

ShutdownSignal ==
    /\ signals < MaxSignals /\ Whereabouts \in SignalWhen
    /\ signals' = signals + 1
    /\ IF shutting_down
         THEN /\ \/ KillGroup
                 \/ NoneAlive /\ UNCHANGED <<phase, todo, proc>>
              /\ UNCHANGED pipe
         ELSE /\ pipe' = Append(pipe, [type |-> "none"])
              /\ todo' = Shutdown \o todo
              /\ UNCHANGED <<phase, proc>>
    /\ UNCHANGED <<misses, shutting_down, num_server, created, transient, objects,
                   worker_state, record, signalled, doomed, acked, requested, failures,
                   world>>

------------------------------------------------------------------------------
(* The threads of STARTUP_FIRST restarts: _wait_to_terminate               *)

\* a variant: a started successor is enough
OldTerminatedEarly(n) ==
    /\ waiting[n] > 0 /\ state[n] \in {"STARTED", "ACKED"}
    /\ waiting' = [waiting EXCEPT ![n] = waiting[n] - 1]
    /\ old' = [old EXCEPT ![n] = 0]
    /\ SendSignal({old[n]} \ {0})
    /\ UNCHANGED <<manager, state, current, worker_state, pipe, proc, record, acked, bounds>>

OldTerminated(n) ==
    /\ waiting[n] > 0 /\ state[n] = "ACKED"
    /\ waiting' = [waiting EXCEPT ![n] = waiting[n] - 1]
    /\ old' = [old EXCEPT ![n] = 0]
    /\ SendSignal({old[n]} \ {0})
    /\ UNCHANGED <<manager, state, current, worker_state, pipe, proc, record, acked, bounds>>

\* TimeoutError ends the thread; _old_process stays
WaitTimesOut(n) ==
    /\ waiting[n] > 0 /\ state[n] # "ACKED"
    /\ world.slow \/ (Settled(n) /\ worker_state[n].state # "ACKED")
    /\ waiting' = [waiting EXCEPT ![n] = waiting[n] - 1]
    /\ UNCHANGED <<manager, state, current, old, worker_state, pipe, children, bounds>>

------------------------------------------------------------------------------
(* The server processes                                                    *)

Moves(p, from, to) ==
    proc[p].phase = from /\ proc' = [proc EXCEPT ![p].phase = to]
Mine(p) == proc[p].server

ReadRecord(p, from, to) ==
    /\ Moves(p, from, to)
    /\ record' = [record EXCEPT ![p] = worker_state[Mine(p)]]
    /\ UNCHANGED <<manager, objects, worker_state, pipe, signalled, doomed, acked, bounds>>

\* until its loop handles signals one ends the process: SIGTERM kills it, SIGINT
\* is caught around create_server() and is uncaught before
Unready(p) == proc[p].phase \in {"boot", "ack", "bind"}

\* WorkerMultiplexer.ack, read and write
AckRead(p) == ReadRecord(p, "boot", "ack")
AckWrite(p) ==
    /\ Moves(p, "ack", "bind")
    /\ worker_state' = [worker_state EXCEPT ![Mine(p)] = [record[p] EXCEPT !.state = "ACKED"]]
    /\ acked' = [acked EXCEPT ![p] = TRUE]
    /\ UNCHANGED <<manager, objects, pipe, record, signalled, doomed, bounds>>

Bound(p) ==
    /\ Moves(p, "bind", "setup")
    /\ UNCHANGED <<manager, objects, worker_state, pipe, record, signalled, doomed,
                   acked, bounds>>

\* SIG_IGN first, the loop's own handlers then
SignalIgnored(p) ==
    /\ world.deaf /\ proc[p].phase = "setup" /\ signalled[p]
    /\ signalled' = [signalled EXCEPT ![p] = FALSE]
    /\ UNCHANGED <<manager, objects, worker_state, pipe, proc, record, doomed, acked, bounds>>
SetupDone(p) ==
    /\ Moves(p, "setup", "up")
    /\ UNCHANGED <<manager, objects, worker_state, pipe, record, signalled, doomed,
                   acked, bounds>>

\* WorkerMultiplexer.set_serving, read and write: the state goes back as it was read
WriteRecord(p, from, to) ==
    /\ Moves(p, from, to)
    /\ worker_state' = [worker_state EXCEPT ![Mine(p)] = record[p]]
    /\ UNCHANGED <<manager, objects, pipe, record, signalled, doomed, acked, bounds>>
ServingRead(p)  == ReadRecord(p, "up", "up_put")
ServingWrite(p) == WriteRecord(p, "up_put", "serving")
StopRead(p)     == signalled[p] /\ ReadRecord(p, "serving", "stop_put")
StopWrite(p)    == WriteRecord(p, "stop_put", "exited")

DieUnready(p) ==
    /\ Unready(p) /\ signalled[p]
    /\ \/ Moves(p, proc[p].phase, "failed")
       \/ Moves(p, "bind", "exited")
    /\ UNCHANGED <<manager, objects, worker_state, pipe, record, signalled, doomed,
                   acked, bounds>>

\* a signal stops the loop under the listeners run after the start: the error is
\* reported like one of a failed start
StopsEarly(p) ==
    /\ signalled[p] /\ Moves(p, "up", "exited")
    /\ pipe' = Append(pipe, [type |-> "early"])
    /\ UNCHANGED <<manager, objects, worker_state, record, signalled, doomed, acked, bounds>>

ChildStep(p) ==
    \/ AckRead(p) \/ AckWrite(p) \/ Bound(p) \/ SignalIgnored(p) \/ SetupDone(p)
    \/ ServingRead(p) \/ ServingWrite(p) \/ StopRead(p) \/ StopWrite(p)
    \/ DieUnready(p) \/ StopsEarly(p)

\* an exception before ack() is caught and reported; one of create_server() ends
\* the process after it; a crash may come at any time
Fails(p) ==
    /\ failures < MaxFailures /\ failures' = failures + 1
    /\ \/ /\ Moves(p, "boot", "exited")
          /\ pipe' = Append(pipe, [type |-> "early"])
       \/ Moves(p, "bind", "exited") /\ UNCHANGED pipe
       \/ /\ IsAlive(p)
          /\ proc' = [proc EXCEPT ![p].phase = "failed"]
          /\ UNCHANGED pipe
    /\ UNCHANGED <<manager, objects, worker_state, record, signalled, doomed, acked,
                   requested, signals, world>>

\* a multiplexer, the reloader or the inspector sends a message
Request ==
    /\ requested < MaxRequests /\ phase \notin Ended
    /\ requested' = requested + 1
    /\ \E m \in world.requests : pipe' = Append(pipe, m)
    /\ UNCHANGED <<manager, objects, worker_state, children, signals, failures,
                   world>>

------------------------------------------------------------------------------
(* The specification *)

None == [state |-> "NONE", starts |-> FALSE]

Startup ==
    /\ phase = "start" /\ misses = 0 /\ shutting_down = FALSE
    /\ num_server = NumWorkers /\ created = NumWorkers
    /\ transient = [i \in 1..NumWorkers |-> i]
    /\ todo = [i \in 1..NumWorkers |-> Op("start", i)]
    /\ state = [n \in Servers |-> "IDLE"]
    /\ current = [n \in Servers |-> IF n <= NumWorkers THEN n ELSE 1]
    /\ old = [n \in Servers |-> 0] /\ waiting = [n \in Servers |-> 0]
    /\ worker_state = [n \in Servers |-> None]
    /\ proc = [p \in Pids |-> IF p <= NumWorkers
                                THEN [server |-> p, phase |-> "new"]
                                ELSE [server |-> 1, phase |-> "none"]]
    /\ record = [p \in Pids |-> None]
    /\ signalled = [p \in Pids |-> FALSE]
    /\ doomed = [p \in Pids |-> FALSE] /\ acked = [p \in Pids |-> FALSE]

\* how much of the environment's bounds is already used up
Spent(r, s, f) == requested = r /\ signals = s /\ failures = f

Init == Startup /\ pipe = <<>> /\ Spent(0, 0, 0) /\ world \in Worlds

\* start() of WorkerManager, one server
StartOne ==
    /\ Doing("start")
    /\ Then(Start(It))
    /\ UNCHANGED <<phase, misses, shutting_down, num_server, created,
                   transient, objects, worker_state, pipe, children, bounds>>

MainStep == Operation \/ StartOne \/ RunStep
Thread   == \E n \in Servers : OldTerminated(n) \/ WaitTimesOut(n)
Child    == \E p \in Pids : ChildStep(p) \/ Fails(p)

Next == MainStep \/ ShutdownSignal \/ Thread \/ Child \/ Request

Spec == Init /\ [][Next]_vars

\* The operating system runs every process and thread.  No message, signal or
\* failure is bound to come.
Fairness ==
    /\ WF_vars(MainStep)
    /\ \A n \in Servers : WF_vars(OldTerminated(n)) /\ WF_vars(WaitTimesOut(n))
    /\ \A p \in Pids : WF_vars(ChildStep(p))

FairSpec == Spec /\ Fairness

------------------------------------------------------------------------------
(* Properties *)

Record == [state : States, starts : BOOLEAN]

\* Types, and what the pids stand for.
TypeOK ==
    /\ phase \in Phases /\ misses \in 0..(Threshold + 1)
    /\ shutting_down \in BOOLEAN /\ num_server \in Nat /\ created \in Servers
    /\ transient \in Seq(Servers)
    /\ state \in [Servers -> States] /\ current \in [Servers -> Pids]
    /\ old \in [Servers -> Pids \cup {0}] /\ waiting \in [Servers -> Nat]
    /\ worker_state \in [Servers -> Record]
    /\ proc \in [Pids -> [server : Servers, phase : Alive \cup Gone \cup {"none", "new"}]]
    /\ record \in [Pids -> Record] /\ signalled \in [Pids -> BOOLEAN]
    /\ doomed \in [Pids -> BOOLEAN] /\ acked \in [Pids -> BOOLEAN] /\ world \in Worlds

\* No server is forgotten: a live process that was never told to stop is the
\* current process of a registered server, or the old one a thread will stop.
\* (restart, scale and shutdown_server hand over _current_process)
Reachable ==
    \A p \in Pids : IsAlive(p) /\ ~doomed[p] =>
        \E n \in Servers :
            \/ p = current[n] /\ Member(n)
            \/ p = old[n] /\ (waiting[n] > 0 \/ todo # <<>>)

\* The monitor only begins once every server has acknowledged.
\* ("Wait for all of the workers to acknowledge that they are ready")
OnlineFirst ==
    [][AckDone => \A i \in DOMAIN transient : acked[current[transient[i]]]]_vars

\* The manager gives up on startup only if some server failed or is late.
\* ("the Manager will exit with a status code `1` if one or more workers do not
\* send that `ack` message", running/manager.md)
KillJustified ==
    [][(AckMiss \/ AckFailed) /\ phase' = "killed" =>
          \E n \in 1..created : ~acked[current[n]] \/ ~IsAlive(current[n])]_vars

\* A zero-downtime restart stops no server process before its successor has
\* acknowledged.
TeardownAfterAck ==
    [][\A n \in Servers : OldTerminated(n) /\ old[n] # 0 => acked[current[n]]]_vars

\* Nothing is taken for started, and nothing is stopped for it, that has not acknowledged.
AckedFirst == OnlineFirst /\ TeardownAfterAck

\* When run() returns every process the manager knows of has been told to stop,
\* or is gone.
DoneClean ==
    phase = "done" => \A n \in Servers :
        Member(n) => doomed[current[n]] \/ ~IsAlive(current[n])

\* No server process is lost, neither while the manager runs nor when it is done: unless
\* the threads that wait for its successor gave up on a slow one.
Accounted == ~world.slow => Reachable /\ DoneClean

\* A shutdown request ends the manager.
ShutdownEnds == []<>(shutting_down => phase \in Ended)

\* Restarts and scaling converge: in the end num_server servers are up, unless one
\* has crashed.
Up      == {p \in Pids : proc[p].phase = "serving" /\ ~signalled[p]}
Crashed == \E p \in Pids : proc[p].phase = "failed"
Settles == <>[](world.slow \/ phase \in Ended \/ Crashed \/ Cardinality(Up) = num_server)

\* The state of a server that died does not stay what it was.
\* (_sync_states, run by the monitor on every turn)
Unnoticed == {n \in Servers :
                 /\ phase = "monitor" /\ Member(n) /\ ~IsAlive(current[n])
                 /\ worker_state[n].state \notin Final}
CrashNoticed == []<>(world.slow \/ Unnoticed = {})

\* What the monitor is for: in the end as many servers are up as were asked for, or one
\* has crashed, which it notices, and does not replace; or it was told to shut down, and
\* has ended.
Converges == Settles /\ CrashNoticed /\ ShutdownEnds
==============================================================================
