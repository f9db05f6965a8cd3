-------------------------------- MODULE Daemon --------------------------------
(***************************************************************************)
(* Daemon mode: several launches of `sanic app --daemon', the files they   *)
(* share, and the commands stop, kill and status of another terminal.      *)
(* sanic/worker/daemon.py, sanic/cli/daemon.py and what sanic/cli/app.py   *)
(* calls of them.                                                          *)
(*                                                                         *)
(* A launch is one process for its forks: the lock belongs to the open     *)
(* file, which they inherit.  A file is known by the launch that created   *)
(* it.  flock, unlink and atexit (last registered, first run) are the      *)
(* system's.  A process number is not used a second time.                  *)
(***************************************************************************)
EXTENDS FiniteSets

CONSTANTS Launches, Commands, NoFile

ASSUME DaemonAssumption == NoFile \notin Launches

VARIABLES
    launch,     \* where each launch is
    fd,         \* _lock_fd: the lock file it has open
    holding,    \* launches that hold the lock of the file they have open
    lockfile,   \* the file at the path of the lock
    pidfile,    \* whose number the PID file says
    command,    \* where each command is, and its target
    disturbed   \* history: a file of a daemon that is alive was taken from it

daemon_vars == <<launch, fd, holding, lockfile, pidfile, command, disturbed>>

Detached == {"detached", "serving", "stopping"}         \* the forks are behind it
Exiting  == {"stopped", "unlisted", "released"}         \* in its atexit functions
Living   == {"validated", "opened", "locked"} \cup Detached \cup Exiting
Steps    == {"none", "signal", "unlist", "unlock", "done"}

DaemonTypeOK ==
    /\ launch \in [Launches -> {"new", "refused", "gone"} \cup Living]
    /\ fd \in [Launches -> Launches \cup {NoFile}] /\ holding \subseteq Launches
    /\ lockfile \in Launches \cup {NoFile} /\ pidfile \in Launches \cup {NoFile}
    /\ command \in [Commands -> [name : {"stop", "kill", "status"}, step : Steps,
                                 pid : Launches \cup {NoFile}]]
    /\ disturbed \in BOOLEAN

DaemonOff ==
    /\ launch = [p \in Launches |-> "gone"] /\ fd = [p \in Launches |-> NoFile] /\ holding = {}
    /\ lockfile = NoFile /\ pidfile = NoFile /\ disturbed = FALSE
    /\ command = [c \in Commands |-> [name |-> "stop", step |-> "done", pid |-> NoFile]]

DaemonInit ==
    /\ launch = [p \in Launches |-> "new"] /\ fd = [p \in Launches |-> NoFile] /\ holding = {}
    /\ lockfile = NoFile /\ pidfile = NoFile /\ disturbed = FALSE
    /\ command \in [Commands -> {[name |-> n, step |-> "none", pid |-> NoFile] :
                                    n \in {"stop", "kill", "status"}}]

LaunchAlive(p) == p # NoFile /\ launch[p] \in Living     \* _process_exists and _is_sanic_process

\* its files are closed: the lock is free
CloseFiles(p, where) ==
    /\ launch' = [launch EXCEPT ![p] = where]
    /\ fd' = [fd EXCEPT ![p] = NoFile] /\ holding' = holding \ {p}
-----------------------------------------------------------------------------
(* A launch *)

\* as if any PID file were that of a daemon
ValidateAny(p) ==
    /\ launch[p] = "new"
    /\ IF pidfile # NoFile THEN CloseFiles(p, "refused")
       ELSE launch' = [launch EXCEPT ![p] = "validated"] /\ UNCHANGED <<fd, holding>>
    /\ UNCHANGED <<lockfile, pidfile, command, disturbed>>

\* validate: there is no PID file, or what it says is not alive
Validate(p) ==
    /\ launch[p] = "new"
    /\ IF LaunchAlive(pidfile) THEN CloseFiles(p, "refused")
       ELSE launch' = [launch EXCEPT ![p] = "validated"] /\ UNCHANGED <<fd, holding>>
    /\ UNCHANGED <<lockfile, pidfile, command, disturbed>>

\* _acquire_lockfile: os.open ..
OpenLockfile(p) ==
    /\ launch[p] = "validated"
    /\ launch' = [launch EXCEPT ![p] = "opened"]
    /\ lockfile' = IF lockfile = NoFile THEN p ELSE lockfile
    /\ fd' = [fd EXCEPT ![p] = lockfile']
    /\ UNCHANGED <<holding, pidfile, command, disturbed>>

\* .. and flock, which does not wait
AcquireLockfile(p) ==
    /\ launch[p] = "opened"
    /\ IF \E q \in holding : fd[q] = fd[p] THEN CloseFiles(p, "refused")
       ELSE /\ launch' = [launch EXCEPT ![p] = "locked"] /\ holding' = holding \cup {p}
            /\ UNCHANGED fd
    /\ UNCHANGED <<lockfile, pidfile, command, disturbed>>

\* as if a lock that is held were taken, too
AcquireShared(p) ==
    /\ launch[p] = "opened"
    /\ launch' = [launch EXCEPT ![p] = "locked"] /\ holding' = holding \cup {p}
    /\ UNCHANGED <<fd, lockfile, pidfile, command, disturbed>>

\* os.fork, twice; where it fails DaemonError ends the program, and atexit unlocks
Detach(p) ==
    /\ launch[p] = "locked"
    /\ \E to \in {"detached", "unlisted"} : launch' = [launch EXCEPT ![p] = to]
    /\ UNCHANGED <<fd, holding, lockfile, pidfile, command, disturbed>>

\* _write_pidfile, which may fail, too; then it serves
WritePidfile(p) ==
    /\ launch[p] = "detached"
    /\ \/ pidfile' = p /\ launch' = [launch EXCEPT ![p] = "serving"]
       \/ UNCHANGED pidfile /\ launch' = [launch EXCEPT ![p] = "unlisted"]
    /\ UNCHANGED <<fd, holding, lockfile, command, disturbed>>

\* SIGHUP writes the PID file, whatever the daemon is doing
Hangup(p) ==
    /\ launch[p] \in {"serving", "stopping"} \cup Exiting /\ pidfile # p
    /\ pidfile' = p
    /\ disturbed' = (disturbed \/ launch[p] \in Exiting)
    /\ UNCHANGED <<launch, fd, holding, lockfile, command>>

\* the server ends by itself, or at a SIGTERM
EndServing(p) ==
    /\ launch[p] \in {"serving", "stopping"}
    /\ launch' = [launch EXCEPT ![p] = "stopped"]
    /\ UNCHANGED <<fd, holding, lockfile, pidfile, command, disturbed>>

\* as if the functions ran in the order in which they are registered
ReleaseFirst(p) ==
    /\ \/ launch[p] = "stopped" /\ CloseFiles(p, "unlisted") /\ UNCHANGED pidfile
       \/ launch[p] = "unlisted" /\ CloseFiles(p, "released") /\ pidfile' = NoFile
    /\ UNCHANGED <<lockfile, command, disturbed>>

\* _remove_pidfile; without the privileges it fails
RemovePidfile(p) ==
    /\ launch[p] = "stopped" /\ launch' = [launch EXCEPT ![p] = "unlisted"]
    /\ \E removed \in {NoFile, pidfile} : pidfile' = removed
    /\ UNCHANGED <<fd, holding, lockfile, command, disturbed>>

\* _release_lockfile: unlocked and closed ..
ReleaseLockfile(p) ==
    /\ launch[p] = "unlisted" /\ CloseFiles(p, "released")
    /\ UNCHANGED <<lockfile, pidfile, command, disturbed>>

\* .. and then removed, whoever has opened it since
UnlinkLockfile(p) ==
    /\ launch[p] = "released" /\ CloseFiles(p, "gone")
    /\ \/ /\ lockfile' = NoFile
          /\ disturbed' = (disturbed \/ \E q \in Launches : lockfile # NoFile /\ fd[q] = lockfile)
       \/ UNCHANGED <<lockfile, disturbed>>
    /\ UNCHANGED <<pidfile, command>>

\* SIGKILL, a crash, or a SIGTERM before there is a handler
Die(p) == LaunchAlive(p) /\ CloseFiles(p, "gone")

Crash(p) == Die(p) /\ UNCHANGED <<lockfile, pidfile, command, disturbed>>
-----------------------------------------------------------------------------
(* A command *)

To(c, step) == command' = [command EXCEPT ![c].step = step]

\* resolve_target; without a PID file it exits
Resolve(c) ==
    /\ command[c].step = "none"
    /\ command' = [command EXCEPT ![c].pid = pidfile,
                     ![c].step = IF pidfile = NoFile THEN "done" ELSE "signal"]
    /\ UNCHANGED <<launch, fd, holding, lockfile, pidfile, disturbed>>

\* os.kill; a process that is not there ends stop and kill, one that is ends status
SignalDaemon(c) ==
    LET p == command[c].pid
    IN /\ command[c].step = "signal"
       /\ \/ /\ ~LaunchAlive(p) /\ To(c, IF command[c].name = "status" THEN "unlist" ELSE "done")
             /\ UNCHANGED <<launch, fd, holding>>
          \/ /\ LaunchAlive(p) /\ command[c].name = "status" /\ To(c, "done")
             /\ UNCHANGED <<launch, fd, holding>>
          \/ /\ LaunchAlive(p) /\ command[c].name # "status" /\ Die(p) /\ To(c, "unlist")
          \/ /\ LaunchAlive(p) /\ command[c].name = "stop" /\ To(c, "unlist")
             /\ launch' = [launch EXCEPT ![p] = IF @ = "serving" THEN "stopping" ELSE @]
             /\ UNCHANGED <<fd, holding>>
       /\ UNCHANGED <<lockfile, pidfile, disturbed>>

\* the PID file is removed, whatever it says by now
Unlist(c) ==
    /\ command[c].step = "unlist"
    /\ To(c, IF command[c].name = "status" THEN "done" ELSE "unlock")
    /\ pidfile' = NoFile /\ disturbed' = (disturbed \/ LaunchAlive(pidfile))
    /\ UNCHANGED <<launch, fd, holding, lockfile>>

Unlock(c) ==
    /\ command[c].step = "unlock" /\ To(c, "done")
    /\ lockfile' = NoFile
    /\ disturbed' = (disturbed \/ \E q \in Launches : lockfile # NoFile /\ fd[q] = lockfile)
    /\ UNCHANGED <<launch, fd, holding, pidfile>>

DaemonNext ==
    \/ \E p \in Launches :
          \/ Validate(p) \/ OpenLockfile(p) \/ AcquireLockfile(p) \/ Detach(p) \/ WritePidfile(p)
          \/ Hangup(p) \/ EndServing(p) \/ RemovePidfile(p) \/ ReleaseLockfile(p)
          \/ UnlinkLockfile(p) \/ Crash(p)
    \/ \E c \in Commands : Resolve(c) \/ SignalDaemon(c) \/ Unlist(c) \/ Unlock(c)

DaemonSpec == DaemonInit /\ [][DaemonNext]_daemon_vars
-----------------------------------------------------------------------------
(* Properties *)

\* As long as nobody takes a file from a daemon that is alive, at most one launch is past
\* the lock, and the PID file says whose: a daemon that goes removes its own PID file
\* before another can have written one.
\* (_acquire_lockfile, the order of the atexit functions, read_pidfile)
OneDaemon ==
    ~disturbed =>
       /\ \A p, q \in holding : p = q
       /\ \A p \in Launches : launch[p] = "serving" => p \in holding /\ pidfile = p

\* A launch is refused only where another one is alive: what a crash leaves behind never
\* prevents a start.  (_validate_runtime_state, _acquire_lockfile)
RefusedForAnother ==
    [][\A p \in Launches : launch[p] # "refused" /\ launch'[p] = "refused" =>
          \E q \in Launches \ {p} : launch[q] \in Living]_daemon_vars
=============================================================================
