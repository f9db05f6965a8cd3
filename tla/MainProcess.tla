------------------------------ MODULE MainProcess ------------------------------
(***************************************************************************)
(* The sockets of Sanic.serve() and serve_single() (sanic/mixins/startup.py *)
(* with sanic/server/socket.py and sanic/worker/serve.py): instances of a  *)
(* program that share a unix socket path and a TCP address, one taking     *)
(* over from another, each with the main process and its workers.          *)
(*                                                                         *)
(* The main process binds what the instance serves on; a worker binds the  *)
(* unix socket again.  Who binds it last has the path; who ends removes    *)
(* what it finds dead there.  A socket is known by the process that made   *)
(* it.  When workers start and stop is the manager's business, which is    *)
(* WorkerManager: here it is at any time.                                  *)
(***************************************************************************)
EXTENDS Naturals, FiniteSets

CONSTANTS
    Instances,
    StartWorkers, \* workers at startup
    MaxWorkers,   \* bound: workers an instance ever starts
    MaxOutside    \* bound: workers restarted, processes killed, and what others do to the path

MainProcessAssumption ==
    MaxWorkers \in Nat /\ StartWorkers \in 1..MaxWorkers /\ MaxOutside \in Nat
ASSUME MainProcessAssumption

VARIABLES
    at,        \* where each process is
    mode,      \* of each instance: serve() or serve_single()
    listening, \* the unix sockets that listen
    tcp,       \* instances that listen at the TCP address
    file,      \* what is at the path: a socket, by its process, or another file
    last,      \* history: the socket that was put there last
    displaced, \* history: sockets that others took from there, or that came late: after
               \* somebody's look at the path, and before its unlink()
    outside

main_vars == <<at, mode, listening, tcp, file, last, displaced, outside>>

Procs    == Instances \X (0..MaxWorkers)
Main(i)  == <<i, 0>>
Workers(i) == {p \in Procs : p[1] = i /\ p[2] # 0}
NoSocket  == <<"no file">>
Regular  == <<"file">>
Leftover == <<"dead socket">>   \* of a program that is no more

Over == {"ended", "failed", "crashed"}
Closing == {"stop", "remove", "unlink"} \cup Over

MainInit ==
    /\ at = [p \in Procs |-> "none"] /\ mode = [i \in Instances |-> "serve"]
    /\ listening = {} /\ tcp = {} /\ file \in {NoSocket, Regular, Leftover}
    /\ last = NoSocket /\ displaced = {} /\ outside = 0

MainOff ==
    /\ at = [p \in Procs |-> "ended"] /\ mode = [i \in Instances |-> "serve"]
    /\ listening = {} /\ tcp = {} /\ file = NoSocket
    /\ last = NoSocket /\ displaced = {} /\ outside = MaxOutside

IsMain(p)   == p[2] = 0
IsSingle(p) == mode[p[1]] = "serve_single"
Goes(p, place) == at' = [at EXCEPT ![p] = place]
Running(p)  == at[p] \notin Over \cup {"none"}

-----------------------------------------------------------------------------
(* Startup *)

\* serve(), to the listeners of main_process_start
ServeInstance(i) ==
    /\ at[Main(i)] = "none"
    /\ mode' = [mode EXCEPT ![i] = "serve"] /\ Goes(Main(i), "start")
    /\ UNCHANGED <<listening, tcp, file, last, displaced, outside>>

\* serve_single() has no such listeners: it binds, and the one worker runs in its process
ServeSingle(i) ==
    /\ at[Main(i)] = "none"
    /\ mode' = [mode EXCEPT ![i] = "serve_single"] /\ Goes(Main(i), "check")
    /\ UNCHANGED <<listening, tcp, file, last, displaced, outside>>

\* trigger_events: one listener that raises, and what follows in the `try' is passed over
Listeners(i, from, next, raises, raised) ==
    at[Main(i)] = from /\ Goes(Main(i), IF raises THEN raised ELSE next)

MainProcessStart(i, raises) ==
    /\ Listeners(i, "start", "check", raises, "close")
    /\ UNCHANGED <<mode, listening, tcp, file, last, displaced, outside>>

\* What becomes of a process whose startup raises.  In serve_single() there is only one: before
\* its `try' nothing is cleaned up.  A worker asks to terminate early and ends.
Raises(p) ==
    at' = [at EXCEPT ![p] = IF IsMain(p) /\ ~IsSingle(p) THEN "close" ELSE "failed",
                     ![Main(p[1])] = IF IsSingle(p) /\ ~IsMain(p) THEN "close"
                                     ELSE IF IsMain(p) /\ ~IsSingle(p) THEN "close"
                                     ELSE IF IsMain(p) THEN "failed" ELSE @]

\* bind_unix_socket: what is there must be a socket, of whomever;
Check(p) ==
    /\ at[p] = "check"
    /\ IF file = Regular THEN Raises(p) ELSE Goes(p, "listen")
    /\ UNCHANGED <<mode, listening, tcp, file, last, displaced, outside>>

\* bind and listen under a temporary name,
Listen(p) ==
    /\ at[p] = "listen"
    /\ listening' = listening \cup {p}
    /\ Goes(p, "rename")
    /\ UNCHANGED <<mode, tcp, file, last, displaced, outside>>

\* and rename, over whatever is there by then.  serve_single() has no other sockets to bind.
Rename(p) ==
    /\ at[p] = "rename"
    /\ file' = p /\ last' = p
    /\ displaced' = IF \E q \in Procs : at[q] = "unlink" THEN displaced \cup {p} ELSE displaced
    /\ at' = [at EXCEPT ![p] = IF ~IsMain(p) THEN "startup" ELSE IF IsSingle(p) THEN "run" ELSE "tcp",
                        ![<<p[1], 1>>] = IF IsMain(p) /\ IsSingle(p) THEN "load" ELSE @]
    /\ UNCHANGED <<mode, listening, tcp, outside>>

\* The other server of the instance.  If its address is in use, the sockets bound so far are
\* in no list, and are closed as soon as nothing holds them.
BindTcp(i) ==
    /\ at[Main(i)] = "tcp"
    /\ IF tcp \subseteq {i}
       THEN tcp' = tcp \cup {i} /\ Goes(Main(i), "manage") /\ UNCHANGED listening
       ELSE listening' = listening \ {Main(i)} /\ Raises(Main(i)) /\ UNCHANGED tcp
    /\ UNCHANGED <<mode, file, last, displaced, outside>>

\* the manager, the reloader and the inspector are made, main_process_ready, manager.run()
MainProcessReady(i, raises) ==
    /\ at[Main(i)] = "manage"
    /\ \/ raises /\ Listeners(i, "manage", "run", TRUE, "close")
       \/ /\ ~raises
          /\ at' = [p \in Procs |-> IF p = Main(i) THEN "run"
                                    ELSE IF p[1] = i /\ p[2] <= StartWorkers THEN "load" ELSE at[p]]
    /\ UNCHANGED <<mode, listening, tcp, file, last, displaced, outside>>

-----------------------------------------------------------------------------
(* The workers *)

\* a restart, or scaling up
SpawnWorker(i) ==
    /\ outside < MaxOutside /\ outside' = outside + 1
    /\ at[Main(i)] = "run" /\ mode[i] = "serve"
    /\ \E p \in Workers(i) :
          /\ at[p] = "none" /\ \A q \in Workers(i) : at[q] = "none" => p[2] <= q[2]
          /\ Goes(p, "load")
    /\ UNCHANGED <<mode, listening, tcp, file, last, displaced>>

\* worker_serve, to _serve_http_1: the application is loaded
Load(p, raises) ==
    /\ at[p] = "load"
    /\ IF raises THEN Raises(p) ELSE Goes(p, "check")
    /\ UNCHANGED <<mode, listening, tcp, file, last, displaced, outside>>

\* before_server_start, ack, after_server_start
StartUp(p, raises) ==
    /\ at[p] = "startup"
    /\ IF raises THEN listening' = listening \ {p} /\ Raises(p)
                 ELSE Goes(p, "serving") /\ UNCHANGED listening
    /\ UNCHANGED <<mode, tcp, file, last, displaced, outside>>

\* told to stop, by whomever, it closes its socket
StopServing(p) ==
    /\ at[p] = "serving"
    /\ listening' = listening \ {p}
    /\ Goes(p, "remove")
    /\ UNCHANGED <<mode, tcp, file, last, displaced, outside>>

-----------------------------------------------------------------------------
(* The end *)

\* manager.run() returns, once all workers are over
Joined(i) ==
    /\ at[Main(i)] = "run" /\ \A p \in Workers(i) : ~Running(p)
    /\ Goes(Main(i), "close")
    /\ UNCHANGED <<mode, listening, tcp, file, last, displaced, outside>>

\* ServerKilled: a worker has failed or is late, and all are killed
KillWorkers(i) ==
    /\ at[Main(i)] = "run" /\ mode[i] = "serve"
    /\ \E p \in Workers(i) : at[p] \in Over \cup {"load", "check", "listen", "rename", "startup"}
    /\ at' = [p \in Procs |-> IF p = Main(i) THEN "close"
                              ELSE IF p[1] = i /\ Running(p) THEN "crashed" ELSE at[p]]
    /\ listening' = listening \ Workers(i)
    /\ UNCHANGED <<mode, tcp, file, last, displaced, outside>>

\* the `finally' of both: the sockets are closed; what serve_single() had bound is not removed
CloseSockets(i) ==
    /\ at[Main(i)] = "close"
    /\ listening' = listening \ {Main(i)} /\ tcp' = tcp \ {i}
    /\ Goes(Main(i), IF mode[i] = "serve" THEN "stop" ELSE "ended")
    /\ UNCHANGED <<mode, file, last, displaced, outside>>

\* if a listener raises, nothing more is done.  Then the states of the workers are waited for,
\* at most for 10 seconds.
MainProcessStop(i, raises) ==
    /\ Listeners(i, "stop", "remove", raises, "failed")
    /\ UNCHANGED <<mode, listening, tcp, file, last, displaced, outside>>

\* as if whoever ends removed whatever is there
RemoveAnySocket(p) ==
    /\ at[p] = "remove"
    /\ Goes(p, IF file \in {NoSocket, Regular} THEN "ended" ELSE "unlink")
    /\ UNCHANGED <<mode, listening, tcp, file, last, displaced, outside>>

\* remove_unix_socket, of the main process and of each worker: if it is a socket, and connecting
\* to it is refused,
RemoveUnixSocket(p) ==
    /\ at[p] = "remove"
    /\ Goes(p, IF file \in {NoSocket, Regular} \cup listening THEN "ended" ELSE "unlink")
    /\ UNCHANGED <<mode, listening, tcp, file, last, displaced, outside>>

\* unlink(), whatever is there by then
UnlinkSocket(p) ==
    /\ at[p] = "unlink"
    /\ file' = NoSocket
    /\ Goes(p, "ended")
    /\ UNCHANGED <<mode, listening, tcp, last, displaced, outside>>

-----------------------------------------------------------------------------
(* What else happens *)

\* The system closes what a process has open.
CrashOf(p) ==
    LET dead == IF IsSingle(p) THEN {q \in Procs : q[1] = p[1] /\ Running(q)} ELSE {p}
    IN  /\ outside < MaxOutside /\ outside' = outside + 1
        /\ Running(p)
        /\ at' = [q \in Procs |-> IF q \in dead THEN "crashed" ELSE at[q]]
        /\ listening' = listening \ dead
        /\ tcp' = IF IsMain(p) THEN tcp \ {p[1]} ELSE tcp
        /\ UNCHANGED <<mode, file, last, displaced>>

Outside(what) ==
    /\ outside < MaxOutside /\ outside' = outside + 1
    /\ file # what /\ file' = what
    /\ displaced' = displaced \cup ({file} \cap listening)
    /\ UNCHANGED <<at, mode, listening, tcp, last>>

MainNext ==
    \/ \E i \in Instances :
          \/ ServeInstance(i) \/ ServeSingle(i)
          \/ BindTcp(i) \/ SpawnWorker(i) \/ Joined(i) \/ KillWorkers(i) \/ CloseSockets(i)
          \/ \E raises \in BOOLEAN :
                MainProcessStart(i, raises) \/ MainProcessReady(i, raises) \/ MainProcessStop(i, raises)
    \/ \E p \in Procs :
          \/ Check(p) \/ Listen(p) \/ Rename(p) \/ StopServing(p)
          \/ RemoveUnixSocket(p) \/ UnlinkSocket(p) \/ CrashOf(p)
          \/ \E raises \in BOOLEAN : Load(p, raises) \/ StartUp(p, raises)
    \/ \E what \in {NoSocket, Regular} : Outside(what)

MainSpec == MainInit /\ [][MainNext]_main_vars
-----------------------------------------------------------------------------
MainTypeOK ==
    /\ at \in [Procs -> {"none", "start", "check", "listen", "rename", "tcp", "manage", "run", "load",
                         "startup", "serving", "close"} \cup Closing]
    /\ mode \in [Instances -> {"serve", "serve_single"}]
    /\ listening \subseteq Procs /\ tcp \subseteq Instances /\ displaced \subseteq Procs
    /\ file \in Procs \cup {NoSocket, Regular, Leftover} /\ last \in Procs \cup {NoSocket}

\* A client is never refused by a server that is starting, serving or being replaced: the socket
\* at the path listens until its process closes it to end.
\* ("Start listening before rename to avoid connection failures", bind_unix_socket)
PathAnswers == file \in Procs \ listening => at[file] \in Closing \cup {"close"}

\* Whoever has put its socket at the path last has it as long as it listens, whichever others end
\* meanwhile, unless it came between another's look and its unlink(), or others took the file.
\* ("Is it actually dead (doesn't belong to a new server instance)?", remove_unix_socket)
LastKeepsPath == last \in listening => file = last \/ last \in displaced

\* No address is ever held by two, and when all have ended by themselves no socket of theirs
\* is left at the path, however they took over from each other.
\* ("Remove dead unix socket during server exit", remove_unix_socket)
NothingLeft ==
    /\ Cardinality(tcp) <= 1
    /\ (\A p \in Procs : at[p] \in {"none", "ended"}) => file \notin Procs /\ listening = {} /\ tcp = {}

\* What clients find at the path of a server is the server.
PathKept == PathAnswers /\ LastKeepsPath /\ NothingLeft
===============================================================================
