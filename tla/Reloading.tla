------------------------------- MODULE Reloading -------------------------------
(***************************************************************************)
(* Auto-reload (sanic/worker/reloader.py): the reloader process looks at   *)
(* the modification time of one file after another and asks the manager to *)
(* restart all workers when one is later than it was.  The workers load    *)
(* the files when they start (sanic/worker/loader.py), also one after      *)
(* another; the files change meanwhile.                                    *)
(***************************************************************************)
EXTENDS Naturals, FiniteSets

CONSTANTS
    Files,
    MaxTime     \* bound: modification times

ReloadingAssumption == IsFiniteSet(Files) /\ MaxTime \in Nat \ {0}
ASSUME ReloadingAssumption

VARIABLES
    disk,       \* modification time of each file, 0 when it is not there
    mtimes,     \* the reloader's, 0 for a file it has not seen
    unread,     \* files of this pass that it has still to look at
    changed,    \* files of this pass that have changed
    messages,   \* restarts the manager has still to begin
    loaded,     \* what each file was when the worker loaded it
    unloaded,   \* files the worker has still to load
    watched,    \* history: the files that have changed since the reloader first saw them
    reloader    \* "starting", "running", "stopping" or "over"

reload_vars == <<disk, mtimes, unread, changed, messages, loaded, unloaded, watched, reloader>>

Zero == [f \in Files |-> 0]

ReloadInit ==
    /\ disk \in [Files -> {0, 1}] /\ mtimes = Zero /\ unread = {} /\ changed = {} /\ messages = 0
    /\ loaded = Zero /\ unloaded = Files /\ watched = {} /\ reloader = "starting"

ReloadOff ==
    /\ disk = [f \in Files |-> MaxTime] /\ mtimes = disk /\ unread = {} /\ changed = {} /\ messages = 0
    /\ loaded = disk /\ unloaded = {} /\ watched = {} /\ reloader = "over"

-----------------------------------------------------------------------------
\* A file is written, or put there; or an earlier one is put back; or it is removed: as long as
\* somebody looks.
Modify(f, time) ==
    /\ reloader # "over" /\ time # disk[f]
    /\ disk' = [disk EXCEPT ![f] = time]
    /\ watched' = IF mtimes[f] # 0 /\ time > mtimes[f] THEN watched \cup {f} ELSE watched \ {f}
    /\ UNCHANGED <<mtimes, unread, changed, messages, loaded, unloaded, reloader>>

\* Reloader.__call__, which loads the application itself, to reload_process_start
StartReloader ==
    /\ reloader = "starting"
    /\ reloader' = "running"
    /\ UNCHANGED <<disk, mtimes, unread, changed, messages, loaded, unloaded, watched>>

\* after the interval: the files that are there, or may be gone by the time they are looked at
Pass ==
    /\ reloader = "running" /\ unread = {} /\ changed = {}
    /\ unread' = {f \in Files : disk[f] # 0} /\ unread' # {}
    /\ UNCHANGED <<disk, mtimes, changed, messages, loaded, unloaded, watched, reloader>>

\* as if the time were remembered before it is compared
CheckAfter(f) ==
    /\ f \in unread /\ unread' = unread \ {f}
    /\ mtimes' = IF disk[f] = 0 THEN mtimes ELSE [mtimes EXCEPT ![f] = disk[f]]
    /\ UNCHANGED <<disk, changed, messages, loaded, unloaded, watched, reloader>>

\* check_file: a file that is seen for the first time has not changed, nor one that is older than
\* it was; what is gone is passed over and not forgotten
CheckFile(f) ==
    /\ f \in unread /\ unread' = unread \ {f}
    /\ mtimes' = IF mtimes[f] = 0 \/ disk[f] > mtimes[f] THEN [mtimes EXCEPT ![f] = disk[f]] ELSE mtimes
    /\ changed' = IF mtimes[f] # 0 /\ disk[f] > mtimes[f] THEN changed \cup {f} ELSE changed
    /\ UNCHANGED <<disk, messages, loaded, unloaded, watched, reloader>>

\* before_reload_trigger, "__ALL_PROCESSES__:<files>", after_reload_trigger
Trigger ==
    /\ reloader # "over" /\ unread = {} /\ changed # {}
    /\ messages' = messages + 1 /\ changed' = {}
    /\ UNCHANGED <<disk, mtimes, unread, loaded, unloaded, watched, reloader>>

\* A listener of the reloader raises: its process ends, before it has asked for the restart, or
\* after; nobody starts it again.
ListenerFails ==
    /\ reloader' = "over"
    /\ \/ /\ reloader = "starting" \/ (reloader = "stopping" /\ unread = {} /\ changed = {})
          /\ UNCHANGED <<messages, changed>>
       \/ /\ reloader # "over" /\ unread = {} /\ changed # {}
          /\ \/ UNCHANGED <<messages, changed>>
             \/ messages' = messages + 1 /\ changed' = {}
    /\ UNCHANGED <<disk, mtimes, unread, loaded, unloaded, watched>>

\* SIGTERM: the pass is finished first
StopReloader ==
    /\ reloader = "running"
    /\ reloader' = "stopping"
    /\ UNCHANGED <<disk, mtimes, unread, changed, messages, loaded, unloaded, watched>>

ReloaderStops ==
    /\ reloader = "stopping" /\ unread = {} /\ changed = {}
    /\ reloader' = "over"
    /\ UNCHANGED <<disk, mtimes, unread, changed, messages, loaded, unloaded, watched>>

-----------------------------------------------------------------------------
(* The manager and a worker *)

\* as if a worker that is starting were not restarted
RestartStarted ==
    /\ messages > 0 /\ messages' = messages - 1
    /\ unloaded' = IF unloaded = {} THEN Files ELSE unloaded
    /\ UNCHANGED <<disk, mtimes, unread, changed, loaded, watched, reloader>>

\* the worker is terminated and starts again, even in the middle of its load
RestartWorker ==
    /\ messages > 0 /\ messages' = messages - 1
    /\ unloaded' = Files
    /\ UNCHANGED <<disk, mtimes, unread, changed, loaded, watched, reloader>>

LoadFile(f) ==
    /\ f \in unloaded /\ unloaded' = unloaded \ {f}
    /\ loaded' = [loaded EXCEPT ![f] = disk[f]]
    /\ UNCHANGED <<disk, mtimes, unread, changed, messages, watched, reloader>>

ReloaderStep == Pass \/ (\E f \in Files : CheckFile(f)) \/ Trigger

ReloadNext ==
    \/ StartReloader \/ ReloaderStep \/ StopReloader \/ ReloaderStops \/ ListenerFails \/ RestartWorker
    \/ \E f \in Files : LoadFile(f) \/ \E time \in 0..MaxTime : Modify(f, time)

\* Every process goes on; nobody is bound to write a file.
ReloadFairness ==
    /\ WF_reload_vars(ReloaderStep)
    /\ WF_reload_vars(RestartWorker) /\ WF_reload_vars(\E f \in Files : LoadFile(f))

ReloadSpec == ReloadInit /\ [][ReloadNext]_reload_vars /\ ReloadFairness
-----------------------------------------------------------------------------
ReloadTypeOK ==
    /\ {disk, mtimes, loaded} \subseteq [Files -> 0..MaxTime] /\ messages \in 0..(MaxTime * Cardinality(Files))
    /\ {unread, changed, unloaded, watched} \subseteq SUBSET Files
    /\ reloader \in {"starting", "running", "stopping", "over"}

\* A change that the worker has not loaded is on its way to it: the file is later than the
\* reloader knows, or it has it among the changed, or a restart is due, or the worker has yet to
\* load it.  This holds of a file that was written since the reloader first saw it, whenever it
\* was; it misses one that was written before, that was older, or that came and went.
\* (Reloader.check_file)
ChangeOnItsWay ==
    \A f \in watched :
        \/ loaded[f] = disk[f] \/ disk[f] > mtimes[f] \/ f \in changed
        \/ messages > 0 \/ f \in unloaded

\* And so the workers run it, once no file is written any more and unless the reloader stops.
ChangesLoaded ==
    <>[][UNCHANGED disk]_disk => []<>(reloader = "running" => \A f \in watched : loaded[f] = disk[f])
===============================================================================
