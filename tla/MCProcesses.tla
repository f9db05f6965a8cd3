----------------------------- MODULE MCProcesses -----------------------------
(* The processes of a program side by side, but for the manager, which has  *)
(* runs of its own: what a server runs from its start to its end, alone and  *)
(* for several applications; the main processes of two instances with the   *)
(* sockets they share; the reloader; daemon launches.  They share no        *)
(* variable: a behaviour is one of ServerLife, MainProcess,                 *)
(* SecondaryServers, Reloading or Daemon, and the others are in a state     *)
(* without a step.                                                          *)
EXTENDS ServerLife, MainProcess, SecondaryServers, Reloading, Daemon

TwoApps == <<"a", "b">>

ProcessesInit ==
    \/ LifeInit /\ MainOff /\ SecondaryOff /\ ReloadOff /\ DaemonOff
    \/ LifeOff /\ MainInit /\ SecondaryOff /\ ReloadOff /\ DaemonOff
    \/ LifeOff /\ MainOff /\ SecondaryInit /\ ReloadOff /\ DaemonOff
    \/ LifeOff /\ MainOff /\ SecondaryOff /\ ReloadInit /\ DaemonOff
    \/ LifeOff /\ MainOff /\ SecondaryOff /\ ReloadOff /\ DaemonInit

ProcessesNext ==
    \/ LifeNext /\ UNCHANGED <<main_vars, secondary_vars, reload_vars, daemon_vars>>
    \/ MainNext /\ UNCHANGED <<life_vars, secondary_vars, reload_vars, daemon_vars>>
    \/ SecondaryNext /\ UNCHANGED <<life_vars, main_vars, reload_vars, daemon_vars>>
    \/ ReloadNext /\ UNCHANGED <<life_vars, main_vars, secondary_vars, daemon_vars>>
    \/ DaemonNext /\ UNCHANGED <<life_vars, main_vars, secondary_vars, reload_vars>>

ProcessesSpec ==
    /\ ProcessesInit
    /\ [][ProcessesNext]_<<life_vars, main_vars, secondary_vars, reload_vars, daemon_vars>>
    /\ LifeFairness /\ ReloadFairness

\* Every variable of each process keeps its type.
ProcessesTypeOK ==
    /\ LifeTypeOK /\ MainTypeOK /\ SecondaryTypeOK /\ ReloadTypeOK /\ DaemonTypeOK
==============================================================================
