---------------------------- MODULE SecondaryServers ----------------------------
(***************************************************************************)
(* One worker process that serves what several applications have prepared: *)
(* StartupMixin.prepare, _start_servers and _run_server                    *)
(* (sanic/mixins/startup.py), worker_serve (sanic/worker/serve.py) and     *)
(* AsyncioServer (sanic/server/async_server.py).                           *)
(*                                                                         *)
(* The first server of the primary application runs the loop, which is     *)
(* ServerLife; every other one runs in a task called RunServer.  The first *)
(* of an application's servers starts the application.                     *)
(***************************************************************************)
EXTENDS Naturals, Sequences, SequencesExt, FiniteSetsExt

CONSTANTS
    Apps,         \* in the order in which they were registered
    MaxPrepared,  \* bound: servers prepared
    MaxCalls      \* bound: stop() calls

SecondaryAssumption ==
    Apps \in Seq(ToSet(Apps)) /\ Apps # <<>> /\ MaxPrepared \in Nat /\ MaxCalls \in Nat
ASSUME SecondaryAssumption

VARIABLES
    life,      \* of the worker
    primary,
    infos,     \* server_info of each application: the versions that were prepared
    stages,    \* of each server
    run_server,\* the RunServer task of each server
    to_start,      \* servers that have still to be started
    listens,   \* servers that listen
    is_started,
    calls_stop,
    began      \* history: how often each application's listeners of an event were called

secondary_vars ==
    <<life, primary, infos, stages, run_server, to_start, listens, is_started, calls_stop, began>>

AppNames  == ToSet(Apps)
ServersOf(app) == {<<app, k>> : k \in DOMAIN infos[app]}
AllServers == UNION {ServersOf(app) : app \in AppNames}
InitEvents == {"init_before", "init_after"}
Events    == InitEvents \cup {"shutdown_before", "shutdown_after"}
FirstServer     == <<primary, 1>>
Turning   == life \in {"starting", "up", "stopping"}

\* ApplicationState.stage: serving, partial or stopped
IsStopped(app) == \A s \in ServersOf(app) : stages[s] # "SERVING"

SecondaryInit ==
    /\ life = "prepare" /\ primary \in AppNames /\ infos = [app \in AppNames |-> <<>>]
    /\ stages = <<>> /\ run_server = <<>> /\ to_start = {} /\ listens = {} /\ is_started = {}
    /\ calls_stop = 0 /\ began = [app \in AppNames |-> [event \in Events |-> 0]]

SecondaryOff ==
    /\ life = "closed" /\ primary = Head(Apps) /\ infos = [app \in AppNames |-> <<>>]
    /\ stages = <<>> /\ run_server = <<>> /\ to_start = {} /\ listens = {} /\ is_started = {}
    /\ calls_stop = MaxCalls /\ began = [app \in AppNames |-> [event \in Events |-> 0]]

-----------------------------------------------------------------------------
(* Startup *)

\* prepare(), when it does not raise: options may exclude each other, and HTTP/3 must come first
\* in its application.  Other applications are not looked at.
Prepare(app, version) ==
    /\ life = "prepare" /\ Cardinality(AllServers) < MaxPrepared
    /\ version = 3 => infos[app] = <<>>
    /\ infos' = [infos EXCEPT ![app] = Append(@, version)]
    /\ UNCHANGED <<primary, stages, run_server, to_start, listens, is_started, calls_stop, began>>

PrepareOnly(app, version) == Prepare(app, version) /\ UNCHANGED life

\* run(): one more, and then serve() or serve_single() with this application as the primary one
Run(version) == Prepare(primary, version) /\ life' = "run"

Call(app, event) == began' = [began EXCEPT ![app][event] = @ + 1]

\* worker_serve, to the last listener of before_server_start, which is _start_servers: the
\* servers of each application in turn, but the first of the primary one
WorkerServe ==
    /\ life \in {"prepare", "run"} /\ infos[primary] # <<>>
    /\ life' = "starting"
    /\ stages' = [s \in AllServers |-> IF s = FirstServer THEN "SERVING" ELSE "STOPPED"]
    /\ run_server' = [s \in AllServers |-> "none"]
    /\ to_start' = AllServers \ {FirstServer}
    /\ is_started' = {primary}
    /\ Call(primary, "init_before")
    /\ UNCHANGED <<primary, infos, listens, calls_stop>>

\* application by application, and each one's servers as they were prepared
Earlier(s, t) ==
    \E i, j \in DOMAIN Apps :
        Apps[i] = s[1] /\ Apps[j] = t[1] /\ (i < j \/ (i = j /\ s[2] <= t[2]))

\* A server of HTTP/3 would run the loop, which is running: RuntimeError ends the worker.  One
\* that cannot listen is left out.
StartServer(os_error) ==
    /\ life = "starting"
    /\ \E s \in to_start :
          /\ \A t \in to_start : Earlier(s, t)
          /\ IF infos[s[1]][s[2]] = 3
             THEN life' = "failed" /\ UNCHANGED <<to_start, listens, run_server>>
             ELSE /\ to_start' = to_start \ {s} /\ UNCHANGED life
                  /\ IF os_error THEN UNCHANGED <<listens, run_server>>
                     ELSE /\ listens' = listens \cup {s}
                          /\ run_server' = [run_server EXCEPT ![s] = "created"]
    /\ UNCHANGED <<primary, infos, stages, is_started, calls_stop, began>>

\* _start_servers returns; the first server listens, and after_server_start is called
AllStarted ==
    /\ life = "starting" /\ to_start = {}
    /\ life' = "up" /\ listens' = listens \cup {FirstServer}
    /\ Call(primary, "init_after")
    /\ UNCHANGED <<primary, infos, stages, run_server, to_start, is_started, calls_stop>>

-----------------------------------------------------------------------------
(* _run_server *)

\* as if each server started its application
RunServerAnyhow(s, raises) ==
    /\ Turning /\ run_server[s] = "created"
    /\ run_server' = [run_server EXCEPT ![s] = IF raises THEN "raised" ELSE "init_before"]
    /\ stages' = [stages EXCEPT ![s] = IF raises THEN "STOPPED" ELSE "SERVING"]
    /\ IF raises THEN UNCHANGED <<is_started, began>>
       ELSE is_started' = is_started \cup {s[1]} /\ Call(s[1], "init_before")
    /\ UNCHANGED <<life, primary, infos, to_start, listens, calls_stop>>

\* The stage is set and the application started - which may raise - in one go, up to the first
\* listener.  A server of an application of which another one serves goes on to serve_forever().
RunServer(s, raises) ==
    /\ Turning /\ run_server[s] = "created"
    /\ IF IsStopped(s[1])
       THEN /\ run_server' = [run_server EXCEPT ![s] = IF raises THEN "raised" ELSE "init_before"]
            /\ stages' = [stages EXCEPT ![s] = IF raises THEN "STOPPED" ELSE "SERVING"]
            /\ IF raises THEN UNCHANGED <<is_started, began>>
               ELSE is_started' = is_started \cup {s[1]} /\ Call(s[1], "init_before")
       ELSE /\ ~raises /\ run_server' = [run_server EXCEPT ![s] = "serve_forever"]
            /\ UNCHANGED <<stages, is_started, began>>
    /\ UNCHANGED <<life, primary, infos, to_start, listens, calls_stop>>

\* What awaits ends; the next event, or `finally'.  A task that has failed leaves a socket that
\* the loop goes on to accept from.
NextEvent == [x \in {"init_before", "init_after", "shutdown_before", "shutdown_after"} |->
            CASE x = "init_before" -> "init_after" [] x = "init_after" -> "serve_forever"
              [] x = "shutdown_before" -> "shutdown_after" [] OTHER -> "over"]

EventEnds(s, raises) ==
    /\ Turning /\ run_server[s] \in Events
    /\ LET next == IF raises THEN "raised" ELSE NextEvent[run_server[s]]
       IN  /\ run_server' = [run_server EXCEPT ![s] = next]
           /\ stages' = IF next \in {"raised", "over"} THEN [stages EXCEPT ![s] = "STOPPED"] ELSE stages
           /\ listens' = IF next = "shutdown_after" THEN listens \ {s} ELSE listens
           /\ IF next \in Events THEN Call(s[1], next) ELSE UNCHANGED began
    /\ UNCHANGED <<life, primary, infos, to_start, is_started, calls_stop>>

-----------------------------------------------------------------------------
(* Shutdown *)

\* stop() of the primary application, or a signal: every RunServer task is cancelled.  One that
\* has not begun never runs, one in its shutdown breaks it off; all others begin it, wherever
\* they are.
Cancelled(place) ==
    CASE place = "created" -> "cancelled"
      [] place \in InitEvents \cup {"serve_forever"} -> "shutdown_before"
      [] place \in {"shutdown_before", "shutdown_after"} -> "raised"
      [] OTHER -> place

StopAll ==
    /\ life \in {"up", "stopping"} /\ calls_stop < MaxCalls /\ ~IsStopped(primary)
    /\ calls_stop' = calls_stop + 1 /\ life' = "stopping"
    /\ run_server' = [s \in AllServers |-> Cancelled(run_server[s])]
    /\ stages' = [s \in AllServers |-> IF run_server'[s] = "raised" THEN "STOPPED" ELSE stages[s]]
    /\ began' = [app \in AppNames |-> [began[app] EXCEPT !["shutdown_before"] =
           @ + Cardinality({s \in ServersOf(app) : /\ run_server'[s] = "shutdown_before"
                                                   /\ run_server[s] # "shutdown_before"})
             + IF app = primary /\ life = "up" THEN 1 ELSE 0]]
    /\ UNCHANGED <<primary, infos, to_start, listens, is_started>>

\* the rest of the primary one's shutdown: what has not ended by then never does
EndLoop ==
    /\ life = "stopping"
    /\ life' = "closed"
    /\ listens' = {} /\ Call(primary, "shutdown_after")
    /\ UNCHANGED <<primary, infos, stages, run_server, to_start, is_started, calls_stop>>

SecondaryNext ==
    \/ \E version \in {1, 3} : Run(version) \/ \E app \in AppNames : PrepareOnly(app, version)
    \/ WorkerServe \/ AllStarted \/ StopAll \/ EndLoop
    \/ \E os_error \in BOOLEAN : StartServer(os_error)
    \/ \E s \in DOMAIN run_server, raises \in BOOLEAN : RunServer(s, raises) \/ EventEnds(s, raises)

SecondarySpec == SecondaryInit /\ [][SecondaryNext]_secondary_vars
-----------------------------------------------------------------------------
SecondaryTypeOK ==
    /\ life \in {"prepare", "run", "starting", "up", "stopping", "closed", "failed"} /\ primary \in AppNames
    /\ infos \in [AppNames -> Seq({1, 3})]
    /\ DOMAIN stages = DOMAIN run_server /\ listens \subseteq DOMAIN stages
    /\ \A s \in DOMAIN stages :
          /\ stages[s] \in {"STOPPED", "SERVING"}
          /\ run_server[s] \in Events \cup {"none", "created", "serve_forever", "raised", "over", "cancelled"}
    /\ to_start \subseteq DOMAIN stages /\ is_started \subseteq AppNames /\ calls_stop \in 0..MaxCalls
    /\ began \in [AppNames -> [Events -> Nat]]

\* However the RunServer tasks interleave, with each other and with a stop: an application starts
\* once in a worker, or once more for each of its servers that failed; its shutdown listeners are
\* called at most once for each of its servers, and never unless it has started; and HTTP/3 is
\* only ever served by the first server of the primary application.
\* ("There can only be a single HTTP/3 worker and it must be the first instance prepared", prepare)
SecondariesInStep ==
    /\ \A app \in AppNames :
          LET failed == {s \in ServersOf(app) \cap DOMAIN run_server : run_server[s] = "raised"}
          IN  /\ began[app]["init_before"] <= 1 + Cardinality(failed)
              /\ began[app]["init_after"] <= began[app]["init_before"]
              /\ \A event \in {"shutdown_before", "shutdown_after"} :
                    began[app][event] <= Len(infos[app])
              /\ began[app]["init_before"] = 0 => \A event \in Events : began[app][event] = 0
    /\ \A s \in listens : infos[s[1]][s[2]] = 3 => s = FirstServer
===============================================================================
