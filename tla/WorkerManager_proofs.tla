------------------------- MODULE WorkerManager_proofs -------------------------
(***************************************************************************)
(* The worker manager, for any number of servers, processes, requests,     *)
(* signals and failures, and for every behaviour of the environment that   *)
(* ManagerAssumption allows.                                               *)
(*                                                                         *)
(*   ManagerTyped     the types of the manager, of what it keeps of its    *)
(*                    servers, and of what it shares with them.            *)
(*   AllAcknowledged  the monitor begins only over servers that have       *)
(*                    acknowledged.                                        *)
(*   NoneLost         no server is forgotten: a live process the manager   *)
(*                    did not mean to stop is the current one of a         *)
(*                    registered server, and when the manager is done none *)
(*                    is left running.  Untroubled says of which           *)
(*                    environments.                                        *)
(***************************************************************************)
EXTENDS WorkerManager, Selecting_proofs, SequenceTheorems, FiniteSetTheorems, WellFoundedInduction, TLAPS

-----------------------------------------------------------------------------
(* What the main thread has still to do, and what is sent to it.           *)

OneServer ==
    {"start", "fork", "first", "starts", "kill", "spawn", "keep_old", "terminate_soon", "terminate_now",
     "terminate", "terminate_alive", "sync", "del", "wait", "exit"} \cup Orders
Ops == [op : OneServer, n : Servers] \cup [op : {"create", "drop", "down"}, n : {0}]
         \cup [op : {"num"}, n : Nat]
         \cup [op : {"set"}, n : Servers, state : States, force : BOOLEAN]
         \cup [op : {"put"}, n : Servers, rec : Record]
Messages == RequestType \cup [type : {"none", "early"}]

Typed ==
    /\ TypeOK /\ todo \in Seq(Ops) /\ pipe \in Seq(Messages)
    /\ misses > Threshold => phase = "killed"

LEMMA StatesAre ==
    States = {"NONE", "IDLE", "RESTARTING", "STARTING", "STARTED", "ACKED", "JOINED", "TERMINATED",
              "FAILED", "COMPLETED"}
BY DEF States, Rank

\* the fields of an operation
LEMMA OpFields ==
    ASSUME NEW o \in Ops
    PROVE  /\ o.op \in OneServer => o.n \in Servers
           /\ o.op = "num" => o.n \in Nat
           /\ o.op = "set" => o.n \in Servers /\ o.state \in States /\ o.force \in BOOLEAN
           /\ o.op = "put" => o.n \in Servers /\ o.rec \in Record
BY DEF Ops, OneServer, Orders

LEMMA OpsAre ==
    /\ \A op \in OneServer, n \in Servers : Op(op, n) \in Ops
    /\ Op("create", 0) \in Ops /\ Op("drop", 0) \in Ops /\ Op("down", 0) \in Ops
    /\ \A k \in Nat : Op("num", k) \in Ops
    /\ \A n \in Servers, rec \in Record : Put(n, rec) \in Ops
<1>1. ASSUME NEW op \in OneServer, NEW n \in Servers PROVE Op(op, n) \in Ops
  BY DEF Ops, Op
<1>2. Op("create", 0) \in Ops /\ Op("drop", 0) \in Ops /\ Op("down", 0) \in Ops
  BY DEF Ops, Op
<1>3. ASSUME NEW k \in Nat PROVE Op("num", k) \in Ops
  BY DEF Ops, Op
<1>4. ASSUME NEW n \in Servers, NEW rec \in Record PROVE Put(n, rec) \in Ops
  BY DEF Ops, Put
<1> QED BY <1>1, <1>2, <1>3, <1>4

LEMMA One == \A S : /\ \A x \in S : <<x>> \in Seq(S)
                    /\ <<>> \in Seq(S)
                    /\ \A s, t \in Seq(S) : s \o t \in Seq(S)
<1>1. ASSUME NEW S, NEW s \in Seq(S), NEW t \in Seq(S) PROVE s \o t \in Seq(S)
  BY ConcatProperties
<1> QED BY <1>1, EmptySeq

\* the programs of start(), restart() and terminate()
LEMMA ProgramsTyped ==
    ASSUME NEW n \in Servers
    PROVE  /\ \A s \in States, f \in BOOLEAN : SetState(n, s, f) \in Seq(Ops)
           /\ Start(n) \in Seq(Ops) /\ Touch(n) \in Seq(Ops) /\ Terminate(n) \in Seq(Ops)
           /\ \A order \in Orders : Restart(n, order) \in Seq(Ops)
<1>1. ASSUME NEW s \in States, NEW f \in BOOLEAN PROVE SetState(n, s, f) \in Seq(Ops)
  <2>1. [op |-> "set", n |-> n, state |-> s, force |-> f] \in Ops  BY DEF Ops
  <2> QED BY <2>1, One DEF SetState
<1>2. \A op \in OneServer : <<Op(op, n)>> \in Seq(Ops)
  BY OpsAre, One
<1>3. SetState(n, "STARTING", FALSE) \in Seq(Ops) /\ SetState(n, "STARTED", FALSE) \in Seq(Ops)
      /\ SetState(n, "TERMINATED", TRUE) \in Seq(Ops) /\ SetState(n, "RESTARTING", TRUE) \in Seq(Ops)
  BY <1>1, StatesAre
<1>4. <<Op("fork", n)>> \in Seq(Ops) /\ <<Op("first", n)>> \in Seq(Ops) /\ <<Op("starts", n)>> \in Seq(Ops)
      /\ <<Op("kill", n)>> \in Seq(Ops) /\ <<Op("spawn", n)>> \in Seq(Ops) /\ <<Op("terminate_soon", n)>> \in Seq(Ops)
  BY <1>2 DEF OneServer
<1>5. Start(n) \in Seq(Ops)  BY <1>3, <1>4, One DEF Start
<1>6. Touch(n) \in Seq(Ops) /\ Terminate(n) \in Seq(Ops)
  BY <1>3, <1>4, One DEF Touch, Terminate
<1>7. ASSUME NEW order \in Orders PROVE Restart(n, order) \in Seq(Ops)
  <2> DEFINE first == IF order = "SHUTDOWN_FIRST" THEN <<Op("terminate_now", n), Op("spawn", n)>>
                                                  ELSE <<Op("keep_old", n), Op("spawn", n)>>
             last == IF order = "STARTUP_FIRST" THEN <<Op("terminate_soon", n)>> ELSE <<>>
  <2>1. Op("terminate_now", n) \in Ops /\ Op("keep_old", n) \in Ops /\ Op("spawn", n) \in Ops
    BY OpsAre DEF OneServer
  <2>2. first \in Seq(Ops)  BY <2>1
  <2>3. last \in Seq(Ops)  BY <1>4, One
  <2>4. Restart(n, order) = SetState(n, "RESTARTING", TRUE) \o first \o Start(n) \o last \o Touch(n)
    BY DEF Restart
  <2> HIDE DEF first, last
  <2>5. SetState(n, "RESTARTING", TRUE) \o first \in Seq(Ops)  BY <1>3, <2>2, One
  <2>6. SetState(n, "RESTARTING", TRUE) \o first \o Start(n) \in Seq(Ops)  BY <1>5, <2>5, One
  <2>7. SetState(n, "RESTARTING", TRUE) \o first \o Start(n) \o last \in Seq(Ops)  BY <2>3, <2>6, One
  <2> QED BY <1>6, <2>4, <2>7, One
<1> QED BY <1>1, <1>5, <1>6, <1>7

LEMMA EachTyped ==
    ASSUME NEW ns \in Seq(Servers), NEW op \in OneServer
    PROVE  Each(op, ns) \in Seq(Ops)
<1>1. DOMAIN ns = 1..Len(ns) /\ Len(ns) \in Nat  BY LenProperties
<1>2. \A i \in 1..Len(ns) : Op(op, ns[i]) \in Ops
  BY ElementOfSeq, OpsAre
<1>3. Each(op, ns) = [i \in 1..Len(ns) |-> Op(op, ns[i])]  BY <1>1 DEF Each
<1> QED BY <1>1, <1>2, <1>3

\* What is asked of all processes is asked of registered servers.
LEMMA ProcessesTyped ==
    ASSUME transient \in Seq(Servers)
    PROVE  /\ \A keep : Kept(transient, keep) \in Seq(Servers)
           /\ Processes \in Seq(Servers) /\ ToJoin \in Seq(Servers)
           /\ Shutdown \in Seq(Ops)
<1>1. \A ns \in Seq(Servers) : \A keep : Kept(ns, keep) \in Seq(Servers)
  <2> TAKE ns \in Seq(Servers)
  <2> TAKE keep
  <2>1. Kept(ns, keep) \in Seq(Servers \cap keep)  BY KeptOf
  <2> QED BY <2>1, SeqMonotonic
<1>2. Processes \in Seq(Servers) /\ ToJoin \in Seq(Servers)
  BY <1>1 DEF Processes, ToJoin
<1>3. Shutdown \in Seq(Ops)
  <2>1. "terminate_alive" \in OneServer  BY DEF OneServer
  <2>2. Each("terminate_alive", Processes) \in Seq(Ops)  BY <1>2, <2>1, EachTyped
  <2> QED BY <2>2, OpsAre, One DEF Shutdown
<1> QED BY <1>1, <1>2, <1>3

\* the operation in front, and the rest
LEMMA DoingTyped ==
    ASSUME todo \in Seq(Ops), todo # <<>>
    PROVE  todo[1] \in Ops /\ Rest \in Seq(Ops) /\ (\A ops \in Seq(Ops) : ops \o Rest \in Seq(Ops))
<1>1. 1 \in 1..Len(todo)  BY EmptySeq
<1>2. todo[1] \in Ops  BY <1>1, ElementOfSeq
<1>3. Rest \in Seq(Ops)  BY HeadTailProperties DEF Rest
<1> QED BY <1>2, <1>3, One

LEMMA NextPidTyped == Unspawned # {} => NextPid \in Unspawned /\ NextPid \in Pids
<1> SUFFICES ASSUME Unspawned # {} PROVE NextPid \in Unspawned /\ NextPid \in Pids
  OBVIOUS
<1>1. Unspawned \subseteq Nat /\ Unspawned \subseteq Pids
  BY ManagerAssumption DEF Unspawned, Pids
<1>2. \E p \in Unspawned : \A q \in Unspawned : p <= q
  BY <1>1, Least
<1> QED BY <1>1, <1>2 DEF NextPid

LEMMA TypedAtStart == Init => Typed
<1> SUFFICES ASSUME Init PROVE Typed
  OBVIOUS
<1>1. NumWorkers \in Nat /\ NumWorkers \in Servers /\ 1 \in Servers /\ 1 \in Pids
      /\ \A n \in 1..NumWorkers : n \in Servers /\ n \in Pids
  BY ManagerAssumption DEF Servers, Pids
<1>2. None \in Record /\ "IDLE" \in States  BY StatesAre DEF None, Record
<1>3. transient \in Seq(Servers)
  <2>1. transient = [i \in 1..NumWorkers |-> i]  BY DEF Init, Startup
  <2> QED BY <1>1, <2>1
<1>4. todo \in Seq(Ops)
  <2>1. todo = [i \in 1..NumWorkers |-> Op("start", i)]  BY DEF Init, Startup
  <2>2. \A i \in 1..NumWorkers : Op("start", i) \in Ops  BY <1>1, OpsAre DEF OneServer
  <2> QED BY <1>1, <2>1, <2>2
<1>5. pipe \in Seq(Messages)  BY One DEF Init
<1>6. misses \in 0..(Threshold + 1) /\ ~(misses > Threshold)
  <2>1. misses = 0  BY DEF Init, Startup
  <2> QED BY <2>1, ManagerAssumption
<1>7. phase \in Phases /\ shutting_down \in BOOLEAN /\ num_server \in Nat /\ created \in Servers /\ world \in Worlds
  BY <1>1 DEF Init, Startup, Phases
<1>8. /\ state \in [Servers -> States] /\ current \in [Servers -> Pids]
      /\ old \in [Servers -> Pids \cup {0}] /\ waiting \in [Servers -> Nat]
      /\ worker_state \in [Servers -> Record]
  <2>1. \A n \in Servers : n <= NumWorkers => n \in Pids
    BY <1>1 DEF Servers
  <2> QED BY <1>1, <1>2, <2>1 DEF Init, Startup
<1>9. /\ proc \in [Pids -> [server : Servers, phase : Alive \cup Gone \cup {"none", "new"}]]
      /\ record \in [Pids -> Record] /\ signalled \in [Pids -> BOOLEAN]
      /\ doomed \in [Pids -> BOOLEAN] /\ acked \in [Pids -> BOOLEAN]
  <2>1. \A p \in Pids : p <= NumWorkers => p \in Servers
    BY <1>1 DEF Pids
  <2> QED BY <1>1, <1>2, <2>1 DEF Init, Startup
<1> QED BY <1>3, <1>4, <1>5, <1>6, <1>7, <1>8, <1>9 DEF Typed, TypeOK

\* The operations of the main thread.
LEMMA OperationTyped == Typed /\ Operation => Typed'
<1> SUFFICES ASSUME Typed, Operation PROVE Typed'
  OBVIOUS
<1> USE DEF Typed, TypeOK
<1>0. phase \in Phases /\ "crashed" \in Phases /\ phase # "killed" /\ ~(misses > Threshold)
      /\ todo \in Seq(Ops) /\ todo # <<>>
  BY DEF Operation, Set, WriteBack, First, Starts, TerminateIt, TerminateAlive, Kill, KeepOld, Spawn, Fork,
         TerminateSoon, Sync, Create, Drop, Del, Num, Down, Wait, Exit, Doing, Ended, Phases
<1>1. /\ todo[1] \in Ops /\ Rest \in Seq(Ops) /\ <<>> \in Seq(Ops)
      /\ \A ops \in Seq(Ops) : ops \o Rest \in Seq(Ops)
      /\ \A op \in OneServer : Doing(op) => It \in Servers
      /\ Doing("num") => It \in Nat
  BY <1>0, DoingTyped, OpFields, One DEF Doing, It
<1>2. \A n \in Servers : /\ worker_state[n] \in Record
                         /\ \A s \in States : [worker_state[n] EXCEPT !.state = s] \in Record
                         /\ [worker_state[n] EXCEPT !.starts = TRUE] \in Record
  <2>1. \A r \in Record : /\ \A s \in States : [r EXCEPT !.state = s] \in Record
                          /\ [r EXCEPT !.starts = TRUE] \in Record
    BY DEF Record
  <2>2. worker_state \in [Servers -> Record]
    OBVIOUS
  <2> QED BY <2>1, <2>2
<1>3. CASE Set
  <2>1. It \in Servers /\ todo[1].state \in States /\ Put(It, [worker_state[It] EXCEPT !.state = todo[1].state]) \in Ops
    BY <1>1, <1>2, <1>3, OpFields, OpsAre DEF Set, Doing, It
  <2>2. todo' \in Seq(Ops)
    BY <1>1, <1>3, <2>1, One DEF Set, Raise, Then
  <2>3. state' \in [Servers -> States] /\ phase' \in Phases
    BY <1>0, <1>3, <2>1 DEF Set, Raise
  <2> QED BY <1>0, <1>3, <2>2, <2>3 DEF Set, children, bounds
<1>4. CASE WriteBack
  <2>1. It \in Servers /\ todo[1].rec \in Record
    BY <1>1, <1>4, OpFields DEF WriteBack, Doing, It
  <2>2. todo' \in Seq(Ops) /\ worker_state' \in [Servers -> Record]
    BY <1>1, <1>4, <2>1 DEF WriteBack, Proceed
  <2> QED BY <1>0, <1>4, <2>2 DEF WriteBack, children, bounds, objects
<1>5. CASE First \/ Starts \/ TerminateIt \/ TerminateAlive \/ Sync \/ Wait
  <2>1. It \in Servers
    BY <1>1, <1>5 DEF First, Starts, TerminateIt, TerminateAlive, Sync, Wait, OneServer
  <2>2. todo' \in Seq(Ops)
    <3>1. /\ Touch(It) \in Seq(Ops) /\ Terminate(It) \in Seq(Ops)
          /\ <<Put(It, [worker_state[It] EXCEPT !.starts = TRUE])>> \in Seq(Ops)
          /\ <<Op("terminate", It)>> \in Seq(Ops)
      BY <1>2, <2>1, ProgramsTyped, OpsAre, One DEF OneServer
    <3>2. CASE First  BY <1>1, <3>1, <3>2 DEF First, Then
    <3>3. CASE Starts  BY <1>1, <3>1, <3>3 DEF Starts, Then
    <3>4. CASE TerminateIt  BY <1>1, <3>1, <3>4 DEF TerminateIt, Then
    <3>5. CASE TerminateAlive  BY <1>1, <3>1, <3>5 DEF TerminateAlive, Then
    <3>6. CASE Sync
      <4> DEFINE s == IF IsAlive(current[It]) THEN worker_state[It].state
                      ELSE IF proc[current[It]].phase = "failed" THEN "FAILED" ELSE "COMPLETED"
      <4>1. s \in States
        <5>1. worker_state[It].state \in States  BY <1>2, <2>1 DEF Record
        <5>2. "FAILED" \in States /\ "COMPLETED" \in States  BY StatesAre
        <5> QED BY <5>1, <5>2
      <4>2. todo' = (IF HasPid(It) /\ Member(It) /\ state[It] # "RESTARTING" /\ state[It] # s
                     THEN SetState(It, s, TRUE) ELSE <<>>) \o Rest
        BY <3>6 DEF Sync, Then
      <4> HIDE DEF s
      <4>3. SetState(It, s, TRUE) \in Seq(Ops)  BY <4>1, <2>1, ProgramsTyped
      <4> QED BY <1>1, <4>2, <4>3
    <3>7. CASE Wait  BY <1>1, <3>7 DEF Wait, Proceed
    <3> QED BY <1>5, <3>2, <3>3, <3>4, <3>5, <3>6, <3>7
  <2> QED BY <1>0, <1>5, <2>2
          DEF First, Starts, TerminateIt, TerminateAlive, Sync, Wait, children, bounds, objects
<1>6. CASE Kill
  <2>1. todo' \in Seq(Ops)  BY <1>1, <1>6 DEF Kill, Proceed
  <2>2. signalled' \in [Pids -> BOOLEAN] /\ doomed' \in [Pids -> BOOLEAN]
    BY <1>6 DEF Kill, SendSignal
  <2> QED BY <1>0, <1>6, <2>1, <2>2 DEF Kill, bounds, objects
<1>7. CASE KeepOld \/ TerminateSoon
  <2>1. It \in Servers /\ todo' \in Seq(Ops)
    BY <1>1, <1>7 DEF KeepOld, TerminateSoon, OneServer, Proceed
  <2>2. old' \in [Servers -> Pids \cup {0}] /\ waiting' \in [Servers -> Nat]
    <3>1. current[It] \in Pids /\ waiting[It] + 1 \in Nat
      BY <2>1
    <3>2. CASE KeepOld  BY <2>1, <3>1, <3>2 DEF KeepOld
    <3>3. CASE TerminateSoon  BY <2>1, <3>1, <3>3 DEF TerminateSoon
    <3> QED BY <1>7, <3>2, <3>3
  <2> QED BY <1>0, <1>7, <2>1, <2>2 DEF KeepOld, TerminateSoon, children, bounds
<1>8. CASE Spawn
  <2>1. It \in Servers /\ NextPid \in Pids
    BY <1>1, <1>8, NextPidTyped DEF Spawn, OneServer
  <2>2. todo' \in Seq(Ops) /\ phase' \in Phases
    BY <1>0, <1>1, <1>8 DEF Spawn, Proceed, Raise
  <2>3. /\ current' \in [Servers -> Pids]
        /\ proc' \in [Pids -> [server : Servers, phase : Alive \cup Gone \cup {"none", "new"}]]
    <3>1. UNCHANGED <<current, proc>>
          \/ (/\ current' = [current EXCEPT ![It] = NextPid]
              /\ proc' = [proc EXCEPT ![NextPid] = [server |-> It, phase |-> "new"]])
      BY <1>8 DEF Spawn
    <3>2. [server |-> It, phase |-> "new"] \in [server : Servers, phase : Alive \cup Gone \cup {"none", "new"}]
      BY <2>1
    <3>3. CASE UNCHANGED <<current, proc>>  BY <3>3
    <3>4. CASE /\ current' = [current EXCEPT ![It] = NextPid]
               /\ proc' = [proc EXCEPT ![NextPid] = [server |-> It, phase |-> "new"]]
      BY <2>1, <3>2, <3>4
    <3> QED BY <3>1, <3>3, <3>4
  <2> QED BY <1>0, <1>8, <2>2, <2>3 DEF Spawn, bounds
<1>9. CASE Fork
  <2>1. It \in Servers /\ todo' \in Seq(Ops)
    BY <1>1, <1>9 DEF Fork, OneServer, Proceed
  <2>2. proc' \in [Pids -> [server : Servers, phase : Alive \cup Gone \cup {"none", "new"}]]
    <3>1. proc' = [proc EXCEPT ![current[It]].phase = "boot"] /\ current[It] \in Pids  BY <1>9, <2>1 DEF Fork
    <3>2. [proc[current[It]] EXCEPT !.phase = "boot"] \in [server : Servers, phase : Alive \cup Gone \cup {"none", "new"}]
      <4>1. proc[current[It]] \in [server : Servers, phase : Alive \cup Gone \cup {"none", "new"}]  BY <3>1
      <4>2. "boot" \in Alive  BY DEF Alive
      <4> QED BY <4>1, <4>2
    <3> QED BY <3>1, <3>2
  <2> QED BY <1>0, <1>9, <2>1, <2>2 DEF Fork, bounds, objects
<1>10. CASE Create
  <2>1. created + 1 \in Servers  BY <1>10, ManagerAssumption DEF Create, Servers
  <2>2. NextPid \in Pids  BY <1>10, NextPidTyped DEF Create
  <2> DEFINE n == created + 1
  <2>3. /\ created' = n /\ transient' = Append(transient, n) /\ current' = [current EXCEPT ![n] = NextPid]
        /\ proc' = [proc EXCEPT ![NextPid] = [server |-> n, phase |-> "new"]]
        /\ todo' = Start(n) \o Rest
    BY <1>10 DEF Create, Then
  <2> HIDE DEF n
  <2>4. n \in Servers  BY <2>1 DEF n
  <2>5. transient' \in Seq(Servers)  BY <2>3, <2>4, AppendProperties
  <2>6. todo' \in Seq(Ops)  BY <1>1, <2>3, <2>4, ProgramsTyped
  <2>7. /\ current' \in [Servers -> Pids] /\ created' \in Servers
        /\ proc' \in [Pids -> [server : Servers, phase : Alive \cup Gone \cup {"none", "new"}]]
    BY <2>2, <2>3, <2>4
  <2> QED BY <1>0, <1>10, <2>5, <2>6, <2>7 DEF Create, bounds
<1>11. CASE Drop
  <2>1. PICK i \in DOMAIN transient : todo' = <<Op("terminate", transient[i]), Op("del", transient[i])>> \o Rest
    BY <1>11 DEF Drop, Then
  <2>2. transient[i] \in Servers  BY LenProperties, ElementOfSeq
  <2>3. Op("terminate", transient[i]) \in Ops /\ Op("del", transient[i]) \in Ops
    BY <2>2, OpsAre DEF OneServer
  <2>4. <<Op("terminate", transient[i]), Op("del", transient[i])>> \in Seq(Ops)  BY <2>3
  <2>5. todo' \in Seq(Ops)  BY <1>1, <2>1, <2>4
  <2> QED BY <1>0, <1>11, <2>5 DEF Drop, children, bounds, objects
<1>12. CASE Del
  <2>1. todo' \in Seq(Ops)  BY <1>1, <1>12 DEF Del, Proceed
  <2>2. transient' \in Seq(Servers)  BY <1>12, ProcessesTyped DEF Del
  <2> QED BY <1>0, <1>12, <2>1, <2>2 DEF Del, children, bounds, objects
<1>13. CASE Num \/ Down
  <2>1. todo' \in Seq(Ops)  BY <1>1, <1>13 DEF Num, Down, Proceed
  <2>2. num_server' \in Nat /\ shutting_down' \in BOOLEAN  BY <1>1, <1>13 DEF Num, Down
  <2> QED BY <1>0, <1>13, <2>1, <2>2 DEF Num, Down, children, bounds, objects
<1>14. CASE Exit
  <2>1. It \in Servers /\ todo' \in Seq(Ops)  BY <1>1, <1>14 DEF Exit, Proceed, OneServer
  <2>2. worker_state' \in [Servers -> Record]
    BY <1>2, <1>14, <2>1, StatesAre DEF Exit
  <2> QED BY <1>0, <1>14, <2>1, <2>2 DEF Exit, children, bounds, objects
<1> QED BY <1>3, <1>4, <1>5, <1>6, <1>7, <1>8, <1>9, <1>10, <1>11, <1>12, <1>13, <1>14 DEF Operation

\* What the monitor, the join and the end of run() put on their programs.
LEMMA RunTyped == Typed /\ (RunStep \/ StartOne) => Typed'
<1> SUFFICES ASSUME Typed, RunStep \/ StartOne PROVE Typed'
  OBVIOUS
<1> USE DEF Typed, TypeOK
<1>0. phase \in Phases /\ phase # "killed" /\ ~(misses > Threshold) /\ {"ack", "monitor", "join", "terminate",
        "cleanup", "done", "killed"} \subseteq Phases
  BY DEF RunStep, StartOne, Started, AckDone, AckRequeue, AckMiss, AckFailed, PollNothing, PollNone,
         PollTerminate, PollScale, PollRestart, PollEarly, RestartOne, Join, TerminateAll, CleanedUp,
         Receive, Free, Doing, Ended, Phases
<1>1. /\ <<>> \in Seq(Ops) /\ transient \in Seq(Servers) /\ Processes \in Seq(Servers) /\ ToJoin \in Seq(Servers)
      /\ Shutdown \in Seq(Ops) /\ \A keep : Kept(transient, keep) \in Seq(Servers)
  BY ProcessesTyped, One
<1>2. \A ns \in Seq(Servers) : /\ Each("sync", ns) \in Seq(Ops) /\ Each("terminate", ns) \in Seq(Ops)
                               /\ Each("exit", ns) \in Seq(Ops)
                               /\ \A order \in Orders : Each(order, ns) \in Seq(Ops)
  BY EachTyped DEF OneServer
<1>3. pipe # <<>> => /\ pipe[1] \in Messages /\ Tail(pipe) \in Seq(Messages)
                     /\ Append(Tail(pipe), pipe[1]) \in Seq(Messages)
  <2>1. pipe # <<>> => pipe[1] \in Messages  BY EmptySeq, ElementOfSeq
  <2>2. pipe # <<>> => Tail(pipe) \in Seq(Messages)  BY HeadTailProperties
  <2> QED BY <2>1, <2>2, AppendProperties
<1>4. CASE Started \/ AckDone \/ PollNone \/ CleanedUp
  <2>1. phase' \in Phases /\ phase' # "killed" /\ todo' = todo /\ misses' = misses
    BY <1>0, <1>4 DEF Started, AckDone, PollNone, CleanedUp
  <2>2. pipe' \in Seq(Messages)
    BY <1>3, <1>4 DEF Started, AckDone, PollNone, CleanedUp, Receive
  <2> QED BY <1>0, <1>4, <2>1, <2>2
          DEF Started, AckDone, PollNone, CleanedUp, Receive, objects, children, bounds
<1>5. CASE AckRequeue
  BY <1>0, <1>3, <1>5 DEF AckRequeue, manager, objects, children, bounds
<1>6. CASE AckMiss \/ AckFailed
  <2>1. misses' \in 0..(Threshold + 1) /\ (GiveUp \/ (~(misses' > Threshold) /\ UNCHANGED <<phase, todo, proc>>))
    <3>1. misses \in 0..(Threshold + 1) /\ Threshold \in Nat /\ ~(misses > Threshold)
      BY <1>0, ManagerAssumption
    <3>2. CASE AckMiss
      <4>1. misses' = misses + 1  BY <3>2 DEF AckMiss
      <4>2. misses' > Threshold => GiveUp  BY <3>2 DEF AckMiss
      <4>3. ~(misses' > Threshold) => UNCHANGED <<phase, todo, proc>>  BY <3>2 DEF AckMiss, children
      <4> QED BY <3>1, <4>1, <4>2, <4>3
    <3>3. CASE AckFailed  BY <3>1, <3>3 DEF AckFailed
    <3> QED BY <1>6, <3>2, <3>3
  <2>2. /\ UNCHANGED <<shutting_down, num_server, created, transient, objects, worker_state, record, signalled,
                       doomed, acked, bounds>>
        /\ pipe' = pipe \/ (pipe # <<>> /\ pipe' = Tail(pipe))
    BY <1>6 DEF AckMiss, AckFailed, GiveUp, children
  <2>3. /\ phase' \in Phases /\ todo' \in Seq(Ops) /\ (misses' > Threshold => phase' = "killed")
        /\ proc' \in [Pids -> [server : Servers, phase : Alive \cup Gone \cup {"none", "new"}]]
    <3>1. CASE UNCHANGED <<phase, todo, proc>> /\ ~(misses' > Threshold)
      BY <3>1
    <3>2. CASE GiveUp
      <4>1. phase' = "killed" /\ todo' \in Seq(Ops)  BY <1>1, <3>2 DEF GiveUp, KillGroup
      <4>2. proc' = proc \/ proc' = [p \in Pids |-> IF IsAlive(p) THEN [proc[p] EXCEPT !.phase = "failed"]
                                                   ELSE proc[p]]
        BY <3>2 DEF GiveUp, KillGroup
      <4>3. \A p \in Pids : [proc[p] EXCEPT !.phase = "failed"]
                               \in [server : Servers, phase : Alive \cup Gone \cup {"none", "new"}]
        BY DEF Gone
      <4>4. proc' \in [Pids -> [server : Servers, phase : Alive \cup Gone \cup {"none", "new"}]]
        <5>1. CASE proc' = proc  BY <5>1
        <5>2. CASE proc' = [p \in Pids |-> IF IsAlive(p) THEN [proc[p] EXCEPT !.phase = "failed"] ELSE proc[p]]
          <6>1. proc \in [Pids -> [server : Servers, phase : Alive \cup Gone \cup {"none", "new"}]]
            OBVIOUS
          <6> QED BY <4>3, <5>2, <6>1
        <5> QED BY <4>2, <5>1, <5>2
      <4> QED BY <1>0, <4>1, <4>4
    <3> QED BY <2>1, <3>1, <3>2
  <2>4. pipe' \in Seq(Messages)  BY <1>3, <2>2
  <2> QED BY <2>1, <2>2, <2>3, <2>4 DEF objects, bounds
<1>7. CASE PollNothing \/ PollEarly \/ PollTerminate \/ PollScale \/ PollRestart
  <2>1. pipe' \in Seq(Messages)
    BY <1>3, <1>7 DEF PollNothing, PollEarly, PollTerminate, PollScale, PollRestart, Receive
  <2>2. todo' \in Seq(Ops)
    <3>1. CASE PollNothing \/ PollEarly \/ PollTerminate
      BY <1>1, <1>2, <3>1 DEF PollNothing, PollEarly, PollTerminate
    <3>2. CASE PollScale
      <4>1. pipe[1].num \in Nat
        <5>1. pipe[1] \in Messages /\ pipe[1].type = "scale"  BY <1>3, <3>2 DEF PollScale, Receive
        <5> QED BY <5>1 DEF Messages, RequestType
      <4> DEFINE k == pipe[1].num
                 change == k - num_server
                 m == IF change > 0 THEN change ELSE -change
                 op == Op(IF change > 0 THEN "create" ELSE "drop", 0)
      <4>2. todo' = IF change = 0 THEN <<>> ELSE [i \in 1..m |-> op] \o <<Op("num", k)>>
        BY <3>2 DEF PollScale
      <4>3. change \in Int  BY <4>1
      <4> HIDE DEF change
      <4>4. m \in Nat  BY <4>3
      <4>5. op \in Ops /\ Op("num", k) \in Ops  BY <4>1, OpsAre
      <4> HIDE DEF m, op, k
      <4>6. [i \in 1..m |-> op] \in Seq(Ops)  BY <4>4, <4>5
      <4> QED BY <1>1, <4>2, <4>5, <4>6, One
    <3>3. CASE PollRestart
      <4>1. pipe[1].order \in Orders
        <5>1. pipe[1] \in Messages /\ pipe[1].type = "restart"  BY <1>3, <3>3 DEF PollRestart, Receive
        <5> QED BY <5>1 DEF Messages, RequestType
      <4> DEFINE keep == IF pipe[1].names = {} THEN Servers ELSE pipe[1].names
      <4>2. todo' = Each(pipe[1].order, Kept(transient, keep)) \o Each("sync", transient)
        BY <3>3 DEF PollRestart
      <4> HIDE DEF keep
      <4>3. Each(pipe[1].order, Kept(transient, keep)) \in Seq(Ops)  BY <1>1, <1>2, <4>1
      <4> QED BY <1>1, <1>2, <4>2, <4>3, One
    <3> QED BY <1>7, <3>1, <3>2, <3>3
  <2>3. phase' \in Phases /\ phase' # "killed" /\ misses' = misses
    BY <1>0, <1>7 DEF PollNothing, PollEarly, PollTerminate, PollScale, PollRestart
  <2> QED BY <1>0, <1>7, <2>1, <2>2, <2>3
          DEF PollNothing, PollEarly, PollTerminate, PollScale, PollRestart, objects, children, bounds
<1>8. CASE RestartOne \/ StartOne
  <2>1. todo # <<>>  BY <1>8 DEF RestartOne, StartOne, Doing
  <2>2. todo[1] \in Ops /\ (\A ops \in Seq(Ops) : ops \o Rest \in Seq(Ops))
    BY <2>1, DoingTyped
  <2>3. It \in Servers
    BY <1>8, <2>2, OpFields DEF RestartOne, StartOne, Doing, It, OneServer
  <2>4. todo' \in Seq(Ops)
    BY <1>8, <2>2, <2>3, ProgramsTyped DEF RestartOne, StartOne, Then
  <2> QED BY <1>0, <1>8, <2>4 DEF RestartOne, StartOne, children, bounds, objects
<1>9. CASE Join
  <2>1. todo' \in Seq(Ops) /\ phase' \in Phases /\ phase' # "killed"
    <3>1. CASE ToJoin = <<>>  BY <1>0, <1>9, <3>1 DEF Join
    <3>2. CASE ToJoin # <<>>
      <4>1. ToJoin[1] \in Servers  BY <1>1, <3>2, EmptySeq, ElementOfSeq
      <4>2. SetState(ToJoin[1], "JOINED", FALSE) \in Seq(Ops) /\ <<Op("wait", ToJoin[1])>> \in Seq(Ops)
        BY <4>1, ProgramsTyped, StatesAre, OpsAre, One DEF OneServer
      <4>3. todo' = SetState(ToJoin[1], "JOINED", FALSE) \o <<Op("wait", ToJoin[1])>> /\ phase' = phase
        BY <1>9, <3>2 DEF Join
      <4> QED BY <1>0, <4>2, <4>3, One
    <3> QED BY <3>1, <3>2
  <2> QED BY <1>0, <1>9, <2>1 DEF Join, children, bounds, objects
<1>10. CASE TerminateAll
  <2>1. todo' \in Seq(Ops)
    <3>1. (IF shutting_down THEN <<>> ELSE Each("terminate", Processes)) \in Seq(Ops)
      BY <1>1, <1>2
    <3>2. Each("exit", Processes) \in Seq(Ops)  BY <1>1, <1>2
    <3> QED BY <1>10, <3>1, <3>2, One DEF TerminateAll
  <2> QED BY <1>0, <1>10, <2>1 DEF TerminateAll, children, bounds, objects
<1> QED BY <1>4, <1>5, <1>6, <1>7, <1>8, <1>9, <1>10 DEF RunStep

\* Signals, threads, server processes and requests.
LEMMA AroundTyped == Typed /\ (ShutdownSignal \/ Thread \/ Child \/ Request) => Typed'
<1> SUFFICES ASSUME Typed, ShutdownSignal \/ Thread \/ Child \/ Request PROVE Typed'
  OBVIOUS
<1> USE DEF Typed, TypeOK
<1>0. DEFINE Processed == [server : Servers, phase : Alive \cup Gone \cup {"none", "new"}]
<1>1. /\ [type |-> "none"] \in Messages /\ [type |-> "early"] \in Messages
      /\ \A m \in Messages : Append(pipe, m) \in Seq(Messages)
  BY AppendProperties DEF Messages
<1>2. ASSUME NEW p \in Pids, NEW f PROVE [proc[p] EXCEPT !.phase = f] = [server |-> proc[p].server, phase |-> f]
  OBVIOUS
<1>3. CASE ShutdownSignal
  <2>1. /\ UNCHANGED <<misses, shutting_down, num_server, created, transient, objects,
                       worker_state, record, signalled, doomed, acked, world>>
        /\ pipe' \in Seq(Messages)
    BY <1>1, <1>3 DEF ShutdownSignal
  <2>2. /\ phase' \in Phases /\ (phase' = phase \/ phase' = "killed") /\ todo' \in Seq(Ops)
        /\ proc' \in [Pids -> Processed]
    <3>1. CASE KillGroup
      <4>1. \A p \in Pids : proc[p] \in Processed /\ [proc[p] EXCEPT !.phase = "failed"] \in Processed
        BY DEF Gone
      <4>2. proc' = [p \in Pids |-> IF IsAlive(p) THEN [proc[p] EXCEPT !.phase = "failed"] ELSE proc[p]]
            /\ phase' = "killed" /\ todo' = <<>>
        BY <3>1 DEF KillGroup
      <4> HIDE DEF Processed
      <4> QED BY <4>1, <4>2, One DEF Phases
    <3>2. CASE UNCHANGED <<phase, proc>> /\ (todo' = todo \/ todo' = Shutdown \o todo)
      <4>1. Shutdown \in Seq(Ops)  BY ProcessesTyped
      <4>2. Shutdown \o todo \in Seq(Ops)  BY <4>1, One
      <4> QED BY <3>2, <4>2
    <3> QED BY <1>3, <3>1, <3>2 DEF ShutdownSignal
  <2> QED BY <2>1, <2>2 DEF objects
<1>4. CASE Thread
  <2>1. PICK n \in Servers : OldTerminated(n) \/ WaitTimesOut(n)
    BY <1>4 DEF Thread
  <2>2. waiting[n] \in Nat /\ waiting[n] > 0 /\ waiting' = [waiting EXCEPT ![n] = waiting[n] - 1]
    BY <2>1 DEF OldTerminated, WaitTimesOut
  <2>3. waiting[n] - 1 \in Nat  BY <2>2
  <2>4. waiting' \in [Servers -> Nat]  BY <2>2, <2>3
  <2>5. /\ UNCHANGED <<manager, state, current, worker_state, pipe, proc, record, acked, bounds>>
        /\ old' = old \/ old' = [old EXCEPT ![n] = 0]
        /\ UNCHANGED <<signalled, doomed>> \/ SendSignal({old[n]} \ {0})
    BY <2>1 DEF OldTerminated, WaitTimesOut, children
  <2>6. old' \in [Servers -> Pids \cup {0}]  BY <2>5
  <2>7. signalled' \in [Pids -> BOOLEAN] /\ doomed' \in [Pids -> BOOLEAN]
    <3>1. CASE UNCHANGED <<signalled, doomed>>  BY <3>1
    <3>2. CASE SendSignal({old[n]} \ {0})  BY <3>2 DEF SendSignal
    <3> QED BY <2>5, <3>1, <3>2
  <2> QED BY <2>4, <2>5, <2>6, <2>7 DEF manager, bounds
<1>5. CASE Child
  <2>1. PICK p \in Pids : ChildStep(p) \/ Fails(p)
    BY <1>5 DEF Child
  <2>2. UNCHANGED <<manager, objects, world>>
    BY <2>1 DEF ChildStep, Fails, AckRead, AckWrite, Bound, SignalIgnored, SetupDone, ServingRead, ServingWrite,
                StopRead, StopWrite, DieUnready, StopsEarly, ReadRecord, WriteRecord, bounds
  <2>3. \/ proc' = proc
        \/ \E f \in Alive \cup Gone : proc' = [proc EXCEPT ![p].phase = f]
    BY <2>1 DEF ChildStep, Fails, AckRead, AckWrite, Bound, SignalIgnored, SetupDone, ServingRead, ServingWrite,
                StopRead, StopWrite, DieUnready, StopsEarly, ReadRecord, WriteRecord, Moves, Alive, Gone
  <2>4. proc' \in [Pids -> Processed]
    <3>1. CASE proc' = proc  BY <3>1
    <3>2. ASSUME NEW f \in Alive \cup Gone, proc' = [proc EXCEPT ![p].phase = f] PROVE proc' \in [Pids -> Processed]
      <4>1. proc' = [proc EXCEPT ![p] = [server |-> proc[p].server, phase |-> f]]  BY <1>2, <3>2
      <4>2. [server |-> proc[p].server, phase |-> f] \in Processed  OBVIOUS
      <4> QED BY <4>1, <4>2
    <3> QED BY <2>3, <3>1, <3>2
  <2>5. Mine(p) \in Servers  BY DEF Mine
  <2>6. record[p] \in Record /\ [record[p] EXCEPT !.state = "ACKED"] \in Record /\ worker_state[Mine(p)] \in Record
    <3>1. \A r \in Record : [r EXCEPT !.state = "ACKED"] \in Record  BY StatesAre DEF Record
    <3> QED BY <2>5, <3>1
  <2>7. record' = record \/ record' = [record EXCEPT ![p] = worker_state[Mine(p)]]
    BY <2>1 DEF ChildStep, Fails, AckRead, AckWrite, Bound, SignalIgnored, SetupDone, ServingRead, ServingWrite,
                StopRead, StopWrite, DieUnready, StopsEarly, ReadRecord, WriteRecord
  <2>8. \/ worker_state' = worker_state
        \/ worker_state' = [worker_state EXCEPT ![Mine(p)] = record[p]]
        \/ worker_state' = [worker_state EXCEPT ![Mine(p)] = [record[p] EXCEPT !.state = "ACKED"]]
    BY <2>1 DEF ChildStep, Fails, AckRead, AckWrite, Bound, SignalIgnored, SetupDone, ServingRead, ServingWrite,
                StopRead, StopWrite, DieUnready, StopsEarly, ReadRecord, WriteRecord
  <2>9. record' \in [Pids -> Record] /\ worker_state' \in [Servers -> Record]
    <3>1. record' \in [Pids -> Record]  BY <2>6, <2>7
    <3>2. worker_state' \in [Servers -> Record]
      <4>1. \A r \in Record : [worker_state EXCEPT ![Mine(p)] = r] \in [Servers -> Record]  BY <2>5
      <4> QED BY <2>6, <2>8, <4>1
    <3> QED BY <3>1, <3>2
  <2>10. signalled' \in [Pids -> BOOLEAN] /\ doomed' \in [Pids -> BOOLEAN] /\ acked' \in [Pids -> BOOLEAN]
    BY <2>1 DEF ChildStep, Fails, AckRead, AckWrite, Bound, SignalIgnored, SetupDone, ServingRead, ServingWrite,
                StopRead, StopWrite, DieUnready, StopsEarly, ReadRecord, WriteRecord
  <2>11. pipe' = pipe \/ pipe' = Append(pipe, [type |-> "early"])
    BY <2>1 DEF ChildStep, Fails, AckRead, AckWrite, Bound, SignalIgnored, SetupDone, ServingRead, ServingWrite,
                StopRead, StopWrite, DieUnready, StopsEarly, ReadRecord, WriteRecord
  <2>12. pipe' \in Seq(Messages)  BY <1>1, <2>11
  <2> QED BY <2>2, <2>4, <2>9, <2>10, <2>12 DEF manager, objects
<1>6. CASE Request
  <2>1. PICK m \in world.requests : pipe' = Append(pipe, m)  BY <1>6 DEF Request
  <2>2. m \in Messages  BY <2>1, ManagerAssumption DEF IsWorld, Messages
  <2>3. pipe' \in Seq(Messages)  BY <1>1, <2>1, <2>2
  <2> QED BY <1>6, <2>3 DEF Request, manager, objects, children
<1> QED BY <1>3, <1>4, <1>5, <1>6

LEMMA StepTyped == Typed /\ [Next]_vars => Typed'
<1> SUFFICES ASSUME Typed, [Next]_vars PROVE Typed'
  OBVIOUS
<1>1. CASE Next
  BY <1>1, OperationTyped, RunTyped, AroundTyped DEF Next, MainStep
<1>2. CASE UNCHANGED vars
  BY <1>2 DEF vars, manager, objects, children, bounds, Typed, TypeOK
<1> QED BY <1>1, <1>2

\* For any number of servers, processes, requests, signals and failures, the state of the
\* manager, what it shares with its servers and what it knows of them is of its type.
THEOREM ManagerTyped == Spec => []TypeOK
<1>1. Typed => TypeOK  BY DEF Typed
<1> QED BY <1>1, TypedAtStart, StepTyped, PTL DEF Spec

-----------------------------------------------------------------------------
(* The start: until the monitor begins a server has one process, and what  *)
(* is known to be ACKED of it that process has acknowledged.               *)

Beginning == {"start", "ack"}
EarlyOps  == {"start", "set", "put", "fork", "first", "starts", "terminate_alive", "terminate", "kill", "down"}
EarlyOp   == {o \in Ops :
                /\ o.op \in EarlyOps
                /\ o.op = "set" => o.state # "ACKED"
                /\ o.op = "put" /\ o.rec.state = "ACKED" => acked[current[o.n]]
                /\ o.op \in {"start", "fork"} => proc[current[o.n]].server = o.n}

Early ==
    /\ todo \in Seq(EarlyOp)
    /\ \A i \in DOMAIN transient : transient[i] \in 1..created
    /\ \A p \in Pids : IsAlive(p) => current[proc[p].server] = p
    /\ \A n \in Servers : worker_state[n].state = "ACKED" => acked[current[n]]
    /\ \A p \in Pids : record[p].state = "ACKED" => acked[current[proc[p].server]]
EarlyInv == phase \in Beginning => Early

LEMMA EarlyAtStart == Init => EarlyInv
<1> SUFFICES ASSUME Init PROVE Early
  BY DEF EarlyInv
<1> USE DEF Init, Startup
<1>1. NumWorkers \in Nat /\ \A n \in 1..NumWorkers : n \in Servers /\ n \in Pids
  BY ManagerAssumption DEF Servers, Pids
<1>2. todo \in Seq(EarlyOp)
  <2>1. ASSUME NEW n \in 1..NumWorkers PROVE Op("start", n) \in EarlyOp
    <3>1. n <= NumWorkers  BY <1>1
    <3>2. Op("start", n) \in Ops  BY <1>1, OpsAre DEF OneServer
    <3>3. current[n] = n /\ proc[n].server = n  BY <1>1, <3>1
    <3> QED BY <3>2, <3>3 DEF EarlyOp, EarlyOps, Op
  <2>2. todo = [i \in 1..NumWorkers |-> Op("start", i)]  OBVIOUS
  <2> QED BY <1>1, <2>1, <2>2
<1>3. \A i \in DOMAIN transient : transient[i] \in 1..created
  BY <1>1
<1>4. \A p \in Pids : ~IsAlive(p)
  BY DEF IsAlive, Alive
<1>5. /\ \A n \in Servers : worker_state[n].state # "ACKED"
      /\ \A p \in Pids : record[p].state # "ACKED"
  BY DEF None
<1> QED BY <1>2, <1>3, <1>4, <1>5 DEF Early

\* What stays true of an operation while processes keep their servers and nothing is spawned.
LEMMA EarlyStays ==
    ASSUME current' = current, \A p \in Pids : proc'[p].server = proc[p].server, Typed,
           \A p \in Pids : acked[p] => acked'[p]
    PROVE  EarlyOp \subseteq EarlyOp' /\ Seq(EarlyOp) \subseteq Seq(EarlyOp')
<1>1. ASSUME NEW o \in EarlyOp PROVE o \in EarlyOp'
  <2>1. o \in Ops  BY DEF EarlyOp
  <2>2. o.op = "put" \/ o.op \in {"start", "fork"} => current[o.n] \in Pids
    BY <2>1, OpFields DEF OneServer, Typed, TypeOK
  <2> QED BY <2>1, <2>2 DEF EarlyOp
<1>2. EarlyOp \subseteq EarlyOp'  BY <1>1
<1> QED BY <1>2, SeqMonotonic

\* the programs of the start and of a shutdown
LEMMA EarlyPrograms ==
    ASSUME Typed, NEW n \in Servers
    PROVE  /\ proc[current[n]].server = n => Start(n) \in Seq(EarlyOp)
           /\ Touch(n) \in Seq(EarlyOp) /\ Terminate(n) \in Seq(EarlyOp)
           /\ <<Op("terminate", n)>> \in Seq(EarlyOp)
<1>1. /\ SetState(n, "STARTING", FALSE) \in Seq(EarlyOp) /\ SetState(n, "STARTED", FALSE) \in Seq(EarlyOp)
      /\ SetState(n, "TERMINATED", TRUE) \in Seq(EarlyOp)
  <2>1. ASSUME NEW s \in States, NEW f \in BOOLEAN, s # "ACKED" PROVE SetState(n, s, f) \in Seq(EarlyOp)
    <3>1. [op |-> "set", n |-> n, state |-> s, force |-> f] \in Ops  BY DEF Ops
    <3>2. [op |-> "set", n |-> n, state |-> s, force |-> f] \in EarlyOp
      BY <2>1, <3>1 DEF EarlyOp, EarlyOps
    <3> QED BY <3>2, One DEF SetState
  <2> QED BY <2>1, StatesAre
<1>2. \A op \in {"first", "starts", "kill", "terminate"} : Op(op, n) \in EarlyOp
  BY OpsAre DEF EarlyOp, EarlyOps, Op, OneServer
<1>3. proc[current[n]].server = n => Op("fork", n) \in EarlyOp
  BY OpsAre DEF EarlyOp, EarlyOps, Op, OneServer
<1>4. \A op \in {"first", "starts", "kill", "terminate"} : <<Op(op, n)>> \in Seq(EarlyOp)
  BY <1>2, One
<1>5. ASSUME proc[current[n]].server = n PROVE Start(n) \in Seq(EarlyOp)
  <2>1. <<Op("fork", n)>> \in Seq(EarlyOp)  BY <1>3, <1>5, One
  <2>2. SetState(n, "STARTING", FALSE) \o <<Op("fork", n)>> \in Seq(EarlyOp)  BY <1>1, <2>1, One
  <2>3. SetState(n, "STARTING", FALSE) \o <<Op("fork", n)>> \o SetState(n, "STARTED", FALSE) \in Seq(EarlyOp)
    BY <1>1, <2>2, One
  <2> QED BY <1>4, <2>3, One DEF Start
<1> QED BY <1>1, <1>4, <1>5, One DEF Touch, Terminate

LEMMA EarlyShutdown == Typed => Shutdown \in Seq(EarlyOp)
<1> SUFFICES ASSUME Typed PROVE Shutdown \in Seq(EarlyOp)
  OBVIOUS
<1>1. Processes \in Seq(Servers)  BY ProcessesTyped DEF Typed, TypeOK
<1>2. \A n \in Servers : Op("terminate_alive", n) \in EarlyOp
  BY OpsAre DEF EarlyOp, EarlyOps, Op, OneServer
<1>3. Each("terminate_alive", Processes) \in Seq(EarlyOp)
  <2>1. DOMAIN Processes = 1..Len(Processes) /\ Len(Processes) \in Nat  BY <1>1, LenProperties
  <2>2. \A i \in 1..Len(Processes) : Op("terminate_alive", Processes[i]) \in EarlyOp
    BY <1>1, <1>2, ElementOfSeq
  <2>3. Each("terminate_alive", Processes) = [i \in 1..Len(Processes) |-> Op("terminate_alive", Processes[i])]
    BY <2>1 DEF Each
  <2> QED BY <2>1, <2>2, <2>3
<1>4. Op("down", 0) \in EarlyOp  BY OpsAre DEF EarlyOp, EarlyOps, Op
<1> QED BY <1>3, <1>4, One DEF Shutdown

LEMMA EarlyStep == Typed /\ Typed' /\ EarlyInv /\ [Next]_vars => EarlyInv'
<1> SUFFICES ASSUME Typed, Typed', EarlyInv, [Next]_vars, phase' \in Beginning
             PROVE  Early'
  BY DEF EarlyInv
<1> USE DEF Beginning
<1>types. /\ current \in [Servers -> Pids] /\ state \in [Servers -> States]
      /\ worker_state \in [Servers -> Record] /\ record \in [Pids -> Record]
      /\ acked \in [Pids -> BOOLEAN] /\ acked' \in [Pids -> BOOLEAN]
      /\ proc \in [Pids -> [server : Servers, phase : Alive \cup Gone \cup {"none", "new"}]]
  BY DEF Typed, TypeOK
\* what every step but those of Fork and of the server processes keeps
<1>keeps. ASSUME phase \in Beginning, todo' \in Seq(EarlyOp), UNCHANGED <<transient, created, current, proc, worker_state, record, acked>>
      PROVE  Early'
  <2>1. Early  BY <1>keeps DEF EarlyInv
  <2>2. Seq(EarlyOp) \subseteq Seq(EarlyOp')  BY <1>keeps, EarlyStays
  <2>3. \A p : IsAlive(p)' <=> IsAlive(p)  BY <1>keeps DEF IsAlive
  <2> QED BY <1>keeps, <2>1, <2>2, <2>3 DEF Early
<1>1. CASE Operation
  <2>1. phase = phase' /\ Early /\ todo # <<>>
    BY <1>1 DEF EarlyInv, Operation, Set, WriteBack, First, Starts, TerminateIt, TerminateAlive, Kill, KeepOld, Spawn,
         Fork, TerminateSoon, Sync, Create, Drop, Del, Num, Down, Wait, Exit, Raise, Doing
  <2>2. todo \in Seq(EarlyOp)  BY <2>1 DEF Early
  <2>3. /\ todo[1] \in EarlyOp /\ Rest \in Seq(EarlyOp)
        /\ \A ops \in Seq(EarlyOp) : ops \o Rest \in Seq(EarlyOp)
    <3>1. todo[1] \in EarlyOp  BY <2>1, <2>2, EmptySeq, ElementOfSeq
    <3>2. Rest \in Seq(EarlyOp)  BY <2>1, <2>2, HeadTailProperties DEF Rest
    <3> QED BY <3>1, <3>2, One
  <2>4. todo[1] \in Ops /\ todo[1].op \in EarlyOps  BY <2>3 DEF EarlyOp
  <2>5. /\ Set \/ WriteBack \/ First \/ Starts \/ TerminateIt \/ TerminateAlive \/ Kill \/ Fork \/ Down
        /\ ~Doing("terminate_now")
    BY <1>1, <2>4 DEF Operation, KeepOld, Spawn, TerminateSoon, Sync, Create, Drop, Del, Num, Wait, Exit, Doing,
                      EarlyOps
  <2>6. todo[1].op \in OneServer \cup {"set", "put"} => It \in Servers
    BY <2>4, OpFields DEF It
  <2>7. CASE Set
    <3>1. /\ It \in Servers /\ todo[1].state \in States /\ todo[1].state # "ACKED"
      BY <2>3, <2>4, <2>6, <2>7, OpFields DEF Set, Doing, EarlyOp
    <3> DEFINE rec == [worker_state[It] EXCEPT !.state = todo[1].state]
    <3>2. rec.state # "ACKED" /\ rec \in Record
      <4>1. worker_state[It] \in Record  BY <1>types, <3>1
      <4> QED BY <3>1, <4>1 DEF Record
    <3>3. todo' = <<Put(It, rec)>> \o Rest
      BY <2>1, <2>7 DEF Set, Raise, Then, Doing, Ended
    <3> HIDE DEF rec
    <3>4. Put(It, rec) \in EarlyOp  BY <3>1, <3>2, OpsAre DEF EarlyOp, EarlyOps, Put
    <3>5. todo' \in Seq(EarlyOp)  BY <2>3, <3>3, <3>4, One
    <3> QED BY <1>keeps, <2>1, <2>7, <3>5 DEF Set, children
  <2>8. CASE WriteBack
    <3>1. It \in Servers /\ todo[1].rec \in Record /\ (todo[1].rec.state = "ACKED" => acked[current[It]])
      BY <2>3, <2>4, <2>6, <2>8, OpFields DEF WriteBack, Doing, EarlyOp, It
    <3>2. /\ todo' = Rest /\ worker_state' = [worker_state EXCEPT ![It] = todo[1].rec]
          /\ UNCHANGED <<transient, created, current, proc, record, acked>>
      BY <2>8 DEF WriteBack, Proceed, objects, children
    <3>3. todo' \in Seq(EarlyOp')  BY <2>3, <3>2, EarlyStays
    <3>4. \A n \in Servers : worker_state'[n].state = "ACKED" => acked[current[n]]
      BY <1>types, <2>1, <3>1, <3>2 DEF Early
    <3>5. \A p : IsAlive(p)' <=> IsAlive(p)  BY <3>2 DEF IsAlive
    <3> QED BY <2>1, <3>2, <3>3, <3>4, <3>5 DEF Early
  <2>9. CASE First \/ Starts \/ TerminateIt \/ TerminateAlive
    <3>1. It \in Servers
      BY <2>6, <2>9 DEF First, Starts, TerminateIt, TerminateAlive, Doing, OneServer
    <3>2. Put(It, [worker_state[It] EXCEPT !.starts = TRUE]) \in EarlyOp
      <4>1. worker_state[It] \in Record  BY <1>types, <3>1
      <4>2. /\ [worker_state[It] EXCEPT !.starts = TRUE] \in Record
            /\ [worker_state[It] EXCEPT !.starts = TRUE].state = worker_state[It].state
        BY <4>1 DEF Record
      <4>3. worker_state[It].state = "ACKED" => acked[current[It]]  BY <2>1, <3>1 DEF Early
      <4> QED BY <3>1, <4>2, <4>3, OpsAre DEF EarlyOp, EarlyOps, Put
    <3>3. <<Put(It, [worker_state[It] EXCEPT !.starts = TRUE])>> \in Seq(EarlyOp) /\ <<>> \in Seq(EarlyOp)
      BY <3>2, One
    <3>4. \E ops \in Seq(EarlyOp) : todo' = ops \o Rest
      <4>1. CASE First  BY <3>1, <3>3, <4>1, EarlyPrograms DEF First, Then
      <4>2. CASE Starts  BY <3>1, <3>3, <4>2, EarlyPrograms DEF Starts, Then
      <4>3. CASE TerminateIt  BY <3>1, <3>3, <4>3, EarlyPrograms DEF TerminateIt, Then
      <4>4. CASE TerminateAlive  BY <3>1, <3>3, <4>4, EarlyPrograms DEF TerminateAlive, Then
      <4> QED BY <2>9, <4>1, <4>2, <4>3, <4>4
    <3>5. todo' \in Seq(EarlyOp)  BY <2>3, <3>4
    <3> QED BY <1>keeps, <2>1, <2>9, <3>5 DEF First, Starts, TerminateIt, TerminateAlive, children, objects
  <2>10. CASE Kill \/ Down
    <3>1. todo' \in Seq(EarlyOp)  BY <2>3, <2>10 DEF Kill, Down, Proceed
    <3> QED BY <1>keeps, <2>1, <2>10, <3>1 DEF Kill, Down, children, objects
  <2>11. CASE Fork
    <3>1. It \in Servers /\ proc[current[It]].server = It
      BY <2>3, <2>6, <2>11 DEF Fork, Doing, OneServer, EarlyOp, It
    <3>2. /\ todo' = Rest /\ proc' = [proc EXCEPT ![current[It]].phase = "boot"]
          /\ UNCHANGED <<transient, created, current, worker_state, record, acked>>
      BY <2>11 DEF Fork, Proceed, objects
    <3>3. \A p \in Pids : proc'[p].server = proc[p].server
      BY <1>types, <3>1, <3>2
    <3>4. todo' \in Seq(EarlyOp')  BY <2>3, <3>2, <3>3, EarlyStays
    <3>5. \A p \in Pids : IsAlive(p)' => IsAlive(p) \/ p = current[It]
      BY <1>types, <3>1, <3>2 DEF IsAlive
    <3>6. \A p \in Pids : IsAlive(p)' => current'[proc'[p].server] = p
      BY <2>1, <3>1, <3>2, <3>3, <3>5 DEF Early
    <3>7. \A p \in Pids : record'[p].state = "ACKED" => acked'[current'[proc'[p].server]]
      BY <2>1, <3>2, <3>3 DEF Early
    <3> QED BY <2>1, <3>2, <3>4, <3>6, <3>7 DEF Early
  <2> QED BY <2>5, <2>7, <2>8, <2>9, <2>10, <2>11
<1>2. CASE StartOne
  <2>1. phase = phase' /\ Early /\ todo # <<>> /\ Doing("start") /\ todo' = Start(It) \o Rest
    BY <1>2 DEF EarlyInv, StartOne, Doing, Then
  <2>2. todo \in Seq(EarlyOp)  BY <2>1 DEF Early
  <2>3. todo[1] \in EarlyOp  BY <2>1, <2>2, EmptySeq, ElementOfSeq
  <2>4. Rest \in Seq(EarlyOp)  BY <2>1, <2>2, HeadTailProperties DEF Rest
  <2>5. It \in Servers /\ proc[current[It]].server = It
    BY <2>1, <2>3, OpFields DEF Doing, OneServer, EarlyOp, It
  <2>6. todo' \in Seq(EarlyOp)  BY <2>1, <2>4, <2>5, EarlyPrograms, One
  <2> QED BY <1>2, <1>keeps, <2>1, <2>6 DEF StartOne, children, objects
<1>3. CASE RunStep
  <2>1. Started \/ AckRequeue \/ AckMiss \/ AckFailed \/ RestartOne
    BY <1>3 DEF RunStep, AckDone, PollNothing, PollNone, PollTerminate, PollScale, PollRestart, PollEarly, Receive, Free, 
                Join, TerminateAll, CleanedUp
  <2>2. ~RestartOne
    <3>1. SUFFICES ASSUME RestartOne PROVE FALSE
      OBVIOUS
    <3>2. phase = phase' /\ todo # <<>> /\ todo[1].op \in Orders  BY <3>1 DEF RestartOne, Doing
    <3>3. todo \in Seq(EarlyOp)  BY <3>2 DEF EarlyInv, Early
    <3>4. todo[1] \in EarlyOp  BY <3>2, <3>3, EmptySeq, ElementOfSeq
    <3> QED BY <3>2, <3>4 DEF EarlyOp, EarlyOps, Orders
  <2>3. phase \in Beginning /\ todo' = todo /\ UNCHANGED <<transient, created, current, proc, worker_state, record, acked>>
    BY <2>1, <2>2 DEF Started, AckRequeue, AckMiss, AckFailed, GiveUp, KillGroup, Free, manager, objects, children
  <2>4. todo \in Seq(EarlyOp)  BY <2>3 DEF EarlyInv, Early
  <2> QED BY <1>keeps, <2>3, <2>4
<1>4. CASE ShutdownSignal
  <2>1. ~KillGroup  BY DEF KillGroup
  <2>2. phase = phase' /\ UNCHANGED <<transient, created, current, proc, worker_state, record, acked>>
        /\ (todo' = todo \/ todo' = Shutdown \o todo)
    BY <1>4, <2>1 DEF ShutdownSignal, objects
  <2>3. todo \in Seq(EarlyOp)  BY <2>2 DEF EarlyInv, Early
  <2>4. todo' \in Seq(EarlyOp)  BY <2>2, <2>3, EarlyShutdown, One
  <2> QED BY <1>keeps, <2>2, <2>4
<1>5. CASE Thread \/ Request
  <2>1. UNCHANGED <<phase, todo, transient, created, current, proc, worker_state, record, acked>>
    BY <1>5 DEF Thread, OldTerminated, WaitTimesOut, Request, manager, objects, children
  <2>2. todo \in Seq(EarlyOp)  BY <2>1 DEF EarlyInv, Early
  <2> QED BY <1>keeps, <2>1, <2>2
<1>6. CASE Child
  <2>1. PICK p \in Pids : ChildStep(p) \/ Fails(p)
    BY <1>6 DEF Child
  <2>2. UNCHANGED <<phase, todo, transient, created, current>>
    BY <2>1 DEF ChildStep, Fails, AckRead, AckWrite, Bound, SignalIgnored, SetupDone, ServingRead, ServingWrite,
                StopRead, StopWrite, DieUnready, StopsEarly, ReadRecord, WriteRecord, manager, objects
  <2>3. Early  BY <2>2 DEF EarlyInv
  <2>4. IsAlive(p) /\ (proc' = proc \/ \E f : proc' = [proc EXCEPT ![p].phase = f])
    BY <2>1 DEF ChildStep, Fails, AckRead, AckWrite, Bound, SignalIgnored, SetupDone, ServingRead, ServingWrite,
                StopRead, StopWrite, DieUnready, StopsEarly, ReadRecord, WriteRecord, Moves, IsAlive, Alive, Unready
  <2>5. \A q \in Pids : proc'[q].server = proc[q].server /\ (IsAlive(q)' => IsAlive(q))
    <3>1. CASE proc' = proc  BY <3>1 DEF IsAlive
    <3>2. ASSUME NEW f, proc' = [proc EXCEPT ![p].phase = f]
          PROVE  \A q \in Pids : proc'[q].server = proc[q].server /\ (IsAlive(q)' => IsAlive(q))
      <4>1. proc \in [Pids -> [server : Servers, phase : Alive \cup Gone \cup {"none", "new"}]]  BY <1>types
      <4>2. \A q \in Pids : q # p => proc'[q] = proc[q]  BY <3>2, <4>1
      <4>3. proc'[p] = [proc[p] EXCEPT !.phase = f]  BY <3>2, <4>1
      <4>4. proc'[p].server = proc[p].server  BY <4>1, <4>3
      <4> QED BY <2>4, <4>2, <4>4 DEF IsAlive
    <3> QED BY <2>4, <3>1, <3>2
  <2>6. \A q \in Pids : acked[q] => acked'[q]
    BY <1>types, <2>1 DEF ChildStep, Fails, AckRead, AckWrite, Bound, SignalIgnored, SetupDone, ServingRead, ServingWrite,
                StopRead, StopWrite, DieUnready, StopsEarly, ReadRecord, WriteRecord
  <2>7. todo' \in Seq(EarlyOp')
    <3>1. todo' \in Seq(EarlyOp)  BY <2>2, <2>3 DEF Early
    <3> QED BY <2>2, <2>5, <2>6, <3>1, EarlyStays
  <2>8. Mine(p) \in Servers /\ Mine(p) = proc[p].server /\ current[Mine(p)] = p
    BY <1>types, <2>3, <2>4 DEF Mine, Early
  <2>9. record' = record \/ record' = [record EXCEPT ![p] = worker_state[Mine(p)]]
    BY <2>1 DEF ChildStep, Fails, AckRead, AckWrite, Bound, SignalIgnored, SetupDone, ServingRead, ServingWrite,
                StopRead, StopWrite, DieUnready, StopsEarly, ReadRecord, WriteRecord
  <2>10. \/ worker_state' = worker_state
         \/ worker_state' = [worker_state EXCEPT ![Mine(p)] = record[p]]
         \/ acked'[p] /\ worker_state' = [worker_state EXCEPT ![Mine(p)] = [record[p] EXCEPT !.state = "ACKED"]]
    BY <1>types, <2>1 DEF ChildStep, Fails, AckRead, AckWrite, Bound, SignalIgnored, SetupDone, ServingRead, ServingWrite,
                StopRead, StopWrite, DieUnready, StopsEarly, ReadRecord, WriteRecord
  <2>11. \A n \in Servers : current[n] \in Pids  BY <1>types
  <2>12. \A n \in Servers : worker_state'[n].state = "ACKED" => acked'[current'[n]]
    <3>1. CASE worker_state' = worker_state
      BY <2>2, <2>3, <2>6, <2>11, <3>1 DEF Early
    <3>2. CASE worker_state' = [worker_state EXCEPT ![Mine(p)] = record[p]]
      BY <1>types, <2>2, <2>3, <2>6, <2>8, <2>11, <3>2 DEF Early
    <3>3. CASE acked'[p] /\ worker_state' = [worker_state EXCEPT ![Mine(p)] = [record[p] EXCEPT !.state = "ACKED"]]
      BY <1>types, <2>2, <2>3, <2>6, <2>8, <2>11, <3>3 DEF Early
    <3> QED BY <2>10, <3>1, <3>2, <3>3
  <2>13. \A q \in Pids : record'[q].state = "ACKED" => acked'[current'[proc'[q].server]]
    <3>1. \A q \in Pids : proc[q].server \in Servers  BY <1>types
    <3>2. \A q \in Pids : record[q].state = "ACKED" => acked'[current'[proc'[q].server]]
      BY <2>2, <2>3, <2>5, <2>6, <2>11, <3>1 DEF Early
    <3>3. worker_state[Mine(p)].state = "ACKED" => acked'[current'[proc'[p].server]]
      BY <2>2, <2>3, <2>5, <2>6, <2>8, <2>11 DEF Early
    <3> QED BY <1>types, <2>9, <3>2, <3>3
  <2>14. \A q \in Pids : IsAlive(q)' => current'[proc'[q].server] = q
    BY <2>2, <2>3, <2>5 DEF Early
  <2> QED BY <2>2, <2>3, <2>7, <2>12, <2>13, <2>14 DEF Early
<1>7. CASE UNCHANGED vars
  <2>1. phase' = phase /\ todo' = todo /\ UNCHANGED <<transient, created, current, proc, worker_state, record, acked>>
    BY <1>7 DEF vars, manager, objects, children
  <2>2. todo' \in Seq(EarlyOp)  BY <2>1 DEF EarlyInv, Early
  <2> QED BY <1>keeps, <2>1, <2>2
<1> QED BY <1>1, <1>2, <1>3, <1>4, <1>5, <1>6, <1>7 DEF Next, MainStep

\* For any number of servers, whatever processes fail, are late or are sent signals, the
\* monitor begins only when the process of every registered server has acknowledged.
THEOREM AllAcknowledged == Spec => OnlineFirst
<1>1. ASSUME Typed, EarlyInv, AckDone PROVE \A i \in DOMAIN transient : acked[current[transient[i]]]
  <2>1. Early  BY <1>1 DEF EarlyInv, AckDone, Free, Beginning
  <2>2. \A n \in 1..created : n \in Servers
    BY <1>1, ManagerAssumption DEF Typed, TypeOK, Servers
  <2> QED BY <1>1, <2>1, <2>2 DEF AckDone, AllWorkersAck, Early
<1>2. Typed /\ EarlyInv /\ [Next]_vars =>
        [AckDone => \A i \in DOMAIN transient : acked[current[transient[i]]]]_vars
  BY <1>1
<1> QED BY <1>2, TypedAtStart, StepTyped, EarlyAtStart, EarlyStep, PTL DEF Spec, OnlineFirst

-----------------------------------------------------------------------------
(* No server is lost: see Accounted.  The programs of the main thread are  *)
(* followed as the set of what is due, and by what comes right before what.*)

\* what is pending that begins a process of a server, that ends it, or that ends anything
Growth  == {"start", "SHUTDOWN_FIRST", "terminate_now", "spawn", "fork"}
Ending  == {"terminate_alive", "terminate", "kill"}
Shrink  == Ending \cup {"drop", "del", "down"}
\* what only requests ask for
Delicate == {"SHUTDOWN_FIRST", "terminate_now", "spawn", "create", "drop", "del"}

Elems(s)     == {s[i] : i \in DOMAIN s}
Todo         == Elems(todo)
Due(ops)     == \E o \in Todo : o.op \in ops
DueFor(ops, n) == \E o \in Todo : o.op \in ops /\ o.n = n

Safe(n) == doomed[current[n]] \/ ~IsAlive(current[n])

\* TERMINATED is, will be or was known of server n
Writes(o, n)  == /\ o.n = n
                 /\ \/ o.op = "set" /\ o.state = "TERMINATED"
                    \/ o.op = "put" /\ o.rec.state = "TERMINATED"
Tainted(n) == \/ state[n] = "TERMINATED" \/ worker_state[n].state = "TERMINATED"
              \/ \E p \in Pids : proc[p].server = n /\ record[p].state = "TERMINATED"
              \/ \E o \in Todo : Writes(o, n)

Follows(o, q) == /\ o.op = "spawn" => q.op = "terminate_now" /\ q.n = o.n
                 /\ o.op = "del" => q.op \in {"terminate", "kill"} /\ q.n = o.n
Linked(s)     == \A i \in 1..Len(s) : i > 1 => Follows(s[i], s[i - 1])
KillsFirst(s) == \A i \in 1..Len(s) : s[i].op = "kill" => i = 1 \/ (i = 2 /\ s[1].op \in {"set", "put"})

InOrder ==
    /\ Linked(todo)
    /\ todo # <<>> /\ todo[1].op \in {"spawn", "del"} => Safe(todo[1].n)
    /\ MaxSignals = 0 => KillsFirst(todo)

Sent ==
    /\ \A m \in Elems(pipe) : m.type = "restart" => m.order = "SHUTDOWN_FIRST"
    /\ \A m \in Elems(pipe) : m.type = "none" =>
          MaxSignals # 0 /\ (shutting_down \/ Due({"down"}) \/ phase \in {"crashed", "killed"})
    /\ MaxSignals # 0 => \A m \in Elems(pipe) : m.type \in {"none", "early"}

Growing ==
    /\ ~Due({"STARTUP_FIRST"})
    /\ Due(Growth \cup {"create"}) => phase \in {"start", "monitor"} /\ ~shutting_down /\ ~Due(Shrink)
    /\ MaxSignals # 0 /\ Due(Growth \cup {"create"}) => phase = "start"
    /\ MaxSignals # 0 => ~Due(Delicate)
    /\ phase = "start" => ~shutting_down /\ ~Due(Shrink)
    /\ \A n \in Servers : DueFor(Growth, n) => Member(n) /\ ~Tainted(n)

Numbered ==
    \A n \in Servers : (Member(n) \/ Tainted(n) \/ DueFor(Growth \cup Ending, n)) => n <= created

Known ==
    /\ \A n \in Servers : n <= created => proc[current[n]].server = n /\ proc[current[n]].phase # "none"
    /\ \A p \in Pids : proc[p].phase = "none" => record[p].state # "TERMINATED"
    /\ \A p \in Pids : IsAlive(p) /\ ~doomed[p] => p = current[proc[p].server] /\ Member(proc[p].server)

Stopped ==
    /\ \A n \in Servers : Tainted(n) => Safe(n) \/ DueFor({"kill"}, n) \/ phase = "crashed"
    /\ MaxSignals = 0 /\ phase \in {"start", "ack", "monitor"} =>
          /\ ~shutting_down /\ ~Due({"down", "terminate_alive"})
          /\ \A n \in Servers : Member(n) /\ (Tainted(n) \/ DueFor({"terminate"}, n)) => DueFor({"del"}, n)
    /\ phase \in {"join", "terminate", "cleanup", "done"} => shutting_down \/ Due({"down"})
    /\ (shutting_down \/ Due({"down"})) /\ phase \notin {"crashed", "killed"} =>
          \A n \in Servers : Member(n) => Safe(n) \/ DueFor(Ending, n)
    /\ phase = "done" => todo = <<>>

Steady    == InOrder /\ Sent /\ Growing /\ Numbered /\ Known /\ Stopped
SteadyInv == requested \in Nat /\ signals \in Nat /\ (~world.slow => Steady)

\* No signal comes, or no request and no signal before the servers are started; and
\* without slow servers a restart ends a process before it begins the next one.
Untroubled ==
    /\ MaxSignals = 0 \/ (MaxRequests = 0 /\ "start" \notin SignalWhen)
    /\ \A w \in Worlds : ~w.slow =>
          \A m \in w.requests : m.type = "restart" => m.order = "SHUTDOWN_FIRST"

LEMMA ElemsOf ==
    /\ Elems(<<>>) = {}
    /\ \A x : Elems(<<x>>) = {x}
    /\ \A x, y : Elems(<<x, y>>) = {x, y}
    /\ \A S : \A s, t \in Seq(S) : Elems(s \o t) = Elems(s) \cup Elems(t)
    /\ \A S : \A s \in Seq(S) : s # <<>> => Elems(s) = {s[1]} \cup Elems(Tail(s))
    /\ \A S : \A s \in Seq(S) : Elems(s) \subseteq S
<1>1. Elems(<<>>) = {}  BY DEF Elems
<1>2. ASSUME NEW x PROVE Elems(<<x>>) = {x}  BY DEF Elems
<1>3. ASSUME NEW x, NEW y PROVE Elems(<<x, y>>) = {x, y}
  <2>1. DOMAIN <<x, y>> = {1, 2} /\ <<x, y>>[1] = x /\ <<x, y>>[2] = y  OBVIOUS
  <2> QED BY <2>1 DEF Elems
<1>4. ASSUME NEW S, NEW s \in Seq(S), NEW t \in Seq(S) PROVE Elems(s \o t) = Elems(s) \cup Elems(t)
  <2>1. /\ DOMAIN s = 1..Len(s) /\ DOMAIN t = 1..Len(t) /\ DOMAIN (s \o t) = 1..(Len(s) + Len(t))
        /\ Len(s) \in Nat /\ Len(t) \in Nat
        /\ \A i \in 1..(Len(s) + Len(t)) : (s \o t)[i] = IF i <= Len(s) THEN s[i] ELSE t[i - Len(s)]
    BY ConcatProperties, LenProperties
  <2>2. ASSUME NEW i \in DOMAIN (s \o t) PROVE (s \o t)[i] \in Elems(s) \cup Elems(t)
    <3>1. CASE i <= Len(s)  BY <2>1, <3>1 DEF Elems
    <3>2. CASE ~(i <= Len(s))
      <4>1. i - Len(s) \in DOMAIN t  BY <2>1, <3>2
      <4> QED BY <2>1, <3>2, <4>1 DEF Elems
    <3> QED BY <3>1, <3>2
  <2>3. ASSUME NEW i \in DOMAIN s PROVE s[i] \in Elems(s \o t)
    <3>1. i \in DOMAIN (s \o t) /\ (s \o t)[i] = s[i]  BY <2>1
    <3> QED BY <3>1 DEF Elems
  <2>4. ASSUME NEW i \in DOMAIN t PROVE t[i] \in Elems(s \o t)
    <3>1. i + Len(s) \in DOMAIN (s \o t) /\ (s \o t)[i + Len(s)] = t[i]  BY <2>1
    <3> QED BY <3>1 DEF Elems
  <2> QED BY <2>2, <2>3, <2>4 DEF Elems
<1>5. ASSUME NEW S, NEW s \in Seq(S), s # <<>> PROVE Elems(s) = {s[1]} \cup Elems(Tail(s))
  <2>1. /\ DOMAIN s = 1..Len(s) /\ Len(s) \in Nat /\ Len(s) >= 1 /\ Tail(s) \in Seq(S)
        /\ DOMAIN Tail(s) = 1..(Len(s) - 1) /\ \A i \in 1..(Len(s) - 1) : Tail(s)[i] = s[i + 1]
    <3>1. Tail(s) \in Seq(S) /\ Len(Tail(s)) = Len(s) - 1 /\ \A i \in 1..Len(Tail(s)) : Tail(s)[i] = s[i + 1]
      BY <1>5, HeadTailProperties
    <3>2. DOMAIN s = 1..Len(s) /\ Len(s) \in Nat /\ DOMAIN Tail(s) = 1..Len(Tail(s))
      BY <3>1, LenProperties
    <3>3. Len(s) # 0  BY <1>5, EmptySeq
    <3> QED BY <3>1, <3>2, <3>3
  <2>2. ASSUME NEW i \in DOMAIN s PROVE s[i] \in {s[1]} \cup Elems(Tail(s))
    <3>1. CASE i = 1  BY <3>1
    <3>2. CASE i # 1
      <4>1. i - 1 \in DOMAIN Tail(s) /\ Tail(s)[i - 1] = s[i]  BY <2>1, <3>2
      <4> QED BY <4>1 DEF Elems
    <3> QED BY <3>1, <3>2
  <2>3. ASSUME NEW i \in DOMAIN Tail(s) PROVE Tail(s)[i] \in Elems(s)
    <3>1. i + 1 \in DOMAIN s /\ Tail(s)[i] = s[i + 1]  BY <2>1
    <3> QED BY <3>1 DEF Elems
  <2>4. s[1] \in Elems(s)  BY <2>1 DEF Elems
  <2> QED BY <2>2, <2>3, <2>4 DEF Elems
<1>6. ASSUME NEW S, NEW s \in Seq(S) PROVE Elems(s) \subseteq S
  BY LenProperties, ElementOfSeq DEF Elems
<1> QED BY <1>1, <1>2, <1>3, <1>4, <1>5, <1>6

LEMMA OpsElems ==
    /\ \A s, t \in Seq(Ops) : s \o t \in Seq(Ops) /\ Elems(s \o t) = Elems(s) \cup Elems(t)
    /\ \A s \in Seq(Ops) : s # <<>> => Elems(s) = {s[1]} \cup Elems(Tail(s))
    /\ \A s \in Seq(Ops) : Elems(s) \subseteq Ops
<1>1. ASSUME NEW s \in Seq(Ops), NEW t \in Seq(Ops) PROVE s \o t \in Seq(Ops) /\ Elems(s \o t) = Elems(s) \cup Elems(t)
  BY ElemsOf, One
<1>2. ASSUME NEW s \in Seq(Ops) PROVE (s # <<>> => Elems(s) = {s[1]} \cup Elems(Tail(s))) /\ Elems(s) \subseteq Ops
  BY ElemsOf
<1> QED BY <1>1, <1>2

\* the elements of the programs
LEMMA ElemsOfPrograms ==
    /\ \A n \in Servers, s \in States, f \in BOOLEAN :
          Elems(SetState(n, s, f)) = {[op |-> "set", n |-> n, state |-> s, force |-> f]}
    /\ \A n \in Servers : Elems(Touch(n)) = {Op("starts", n)}
    /\ \A n \in Servers : Elems(Terminate(n)) =
          {[op |-> "set", n |-> n, state |-> "TERMINATED", force |-> TRUE], Op("kill", n)}
    /\ \A n \in Servers : Elems(Start(n)) =
          {[op |-> "set", n |-> n, state |-> "STARTING", force |-> FALSE], Op("fork", n),
           [op |-> "set", n |-> n, state |-> "STARTED", force |-> FALSE], Op("first", n)}
    /\ \A n \in Servers : Elems(Restart(n, "SHUTDOWN_FIRST")) =
          {[op |-> "set", n |-> n, state |-> "RESTARTING", force |-> TRUE], Op("terminate_now", n),
           Op("spawn", n), Op("starts", n)} \cup Elems(Start(n))
    /\ \A ns \in Seq(Servers), op \in OneServer : Elems(Each(op, ns)) = {Op(op, n) : n \in Elems(ns)}
<1> SUFFICES ASSUME NEW n \in Servers
             PROVE  /\ \A s \in States, f \in BOOLEAN :
                          Elems(SetState(n, s, f)) = {[op |-> "set", n |-> n, state |-> s, force |-> f]}
                    /\ Elems(Touch(n)) = {Op("starts", n)}
                    /\ Elems(Terminate(n)) =
                          {[op |-> "set", n |-> n, state |-> "TERMINATED", force |-> TRUE], Op("kill", n)}
                    /\ Elems(Start(n)) =
                          {[op |-> "set", n |-> n, state |-> "STARTING", force |-> FALSE], Op("fork", n),
                           [op |-> "set", n |-> n, state |-> "STARTED", force |-> FALSE], Op("first", n)}
                    /\ Elems(Restart(n, "SHUTDOWN_FIRST")) =
                          {[op |-> "set", n |-> n, state |-> "RESTARTING", force |-> TRUE], Op("terminate_now", n),
                           Op("spawn", n), Op("starts", n)} \cup Elems(Start(n))
                    /\ \A ns \in Seq(Servers), op \in OneServer : Elems(Each(op, ns)) = {Op(op, m) : m \in Elems(ns)}
  <2>1. \A ns \in Seq(Servers), op \in OneServer : Elems(Each(op, ns)) = {Op(op, m) : m \in Elems(ns)}
    BY DEF Each, Elems
  <2> QED BY <2>1
<1>1. ASSUME NEW s \in States, NEW f \in BOOLEAN
      PROVE  Elems(SetState(n, s, f)) = {[op |-> "set", n |-> n, state |-> s, force |-> f]}
  BY ElemsOf DEF SetState
<1>2. Elems(Touch(n)) = {Op("starts", n)}  BY ElemsOf DEF Touch
<1>3. /\ SetState(n, "STARTING", FALSE) \in Seq(Ops) /\ SetState(n, "STARTED", FALSE) \in Seq(Ops)
      /\ SetState(n, "TERMINATED", TRUE) \in Seq(Ops) /\ SetState(n, "RESTARTING", TRUE) \in Seq(Ops)
      /\ Elems(SetState(n, "STARTING", FALSE)) = {[op |-> "set", n |-> n, state |-> "STARTING", force |-> FALSE]}
      /\ Elems(SetState(n, "STARTED", FALSE)) = {[op |-> "set", n |-> n, state |-> "STARTED", force |-> FALSE]}
      /\ Elems(SetState(n, "TERMINATED", TRUE)) = {[op |-> "set", n |-> n, state |-> "TERMINATED", force |-> TRUE]}
      /\ Elems(SetState(n, "RESTARTING", TRUE)) = {[op |-> "set", n |-> n, state |-> "RESTARTING", force |-> TRUE]}
  BY <1>1, StatesAre, ProgramsTyped
<1>4. /\ <<Op("kill", n)>> \in Seq(Ops) /\ <<Op("fork", n)>> \in Seq(Ops) /\ <<Op("first", n)>> \in Seq(Ops)
      /\ Op("terminate_now", n) \in Ops /\ Op("spawn", n) \in Ops
  BY OpsAre, One DEF OneServer
<1>5. /\ Elems(<<Op("kill", n)>>) = {Op("kill", n)} /\ Elems(<<Op("fork", n)>>) = {Op("fork", n)}
      /\ Elems(<<Op("first", n)>>) = {Op("first", n)}
      /\ Elems(<<Op("terminate_now", n), Op("spawn", n)>>) = {Op("terminate_now", n), Op("spawn", n)}
  BY ElemsOf
<1>6. Elems(Terminate(n)) = {[op |-> "set", n |-> n, state |-> "TERMINATED", force |-> TRUE], Op("kill", n)}
  <2>1. Elems(Terminate(n)) = Elems(SetState(n, "TERMINATED", TRUE)) \cup Elems(<<Op("kill", n)>>)
    BY <1>3, <1>4, OpsElems DEF Terminate
  <2> QED BY <1>3, <1>5, <2>1
<1>7. Elems(Start(n)) = {[op |-> "set", n |-> n, state |-> "STARTING", force |-> FALSE], Op("fork", n),
                         [op |-> "set", n |-> n, state |-> "STARTED", force |-> FALSE], Op("first", n)}
  <2>1. SetState(n, "STARTING", FALSE) \o <<Op("fork", n)>> \in Seq(Ops)
        /\ Elems(SetState(n, "STARTING", FALSE) \o <<Op("fork", n)>>)
             = Elems(SetState(n, "STARTING", FALSE)) \cup Elems(<<Op("fork", n)>>)
    BY <1>3, <1>4, OpsElems
  <2>2. SetState(n, "STARTING", FALSE) \o <<Op("fork", n)>> \o SetState(n, "STARTED", FALSE) \in Seq(Ops)
        /\ Elems(SetState(n, "STARTING", FALSE) \o <<Op("fork", n)>> \o SetState(n, "STARTED", FALSE))
             = Elems(SetState(n, "STARTING", FALSE) \o <<Op("fork", n)>>) \cup Elems(SetState(n, "STARTED", FALSE))
    BY <1>3, <2>1, OpsElems
  <2>3. Elems(Start(n))
          = Elems(SetState(n, "STARTING", FALSE) \o <<Op("fork", n)>> \o SetState(n, "STARTED", FALSE))
              \cup Elems(<<Op("first", n)>>)
    BY <1>4, <2>2, OpsElems DEF Start
  <2> QED BY <1>3, <1>5, <2>1, <2>2, <2>3
<1>8. Elems(Restart(n, "SHUTDOWN_FIRST")) =
        {[op |-> "set", n |-> n, state |-> "RESTARTING", force |-> TRUE], Op("terminate_now", n),
         Op("spawn", n), Op("starts", n)} \cup Elems(Start(n))
  <2> DEFINE a == SetState(n, "RESTARTING", TRUE)
             b == <<Op("terminate_now", n), Op("spawn", n)>>
  <2>1. b \in Seq(Ops)  BY <1>4
  <2>2. Restart(n, "SHUTDOWN_FIRST") = a \o b \o Start(n) \o <<>> \o Touch(n)
    BY DEF Restart
  <2>3. /\ a \in Seq(Ops) /\ Start(n) \in Seq(Ops) /\ Touch(n) \in Seq(Ops) /\ <<>> \in Seq(Ops)
        /\ Elems(<<>>) = {}
    BY <1>3, ProgramsTyped, One, ElemsOf
  <2> HIDE DEF a, b
  <2>4. a \o b \in Seq(Ops) /\ Elems(a \o b) = Elems(a) \cup Elems(b)  BY <2>1, <2>3, OpsElems
  <2>5. a \o b \o Start(n) \in Seq(Ops) /\ Elems(a \o b \o Start(n)) = Elems(a \o b) \cup Elems(Start(n))
    BY <2>3, <2>4, OpsElems
  <2>6. a \o b \o Start(n) \o <<>> \in Seq(Ops) /\ Elems(a \o b \o Start(n) \o <<>>) = Elems(a \o b \o Start(n))
    <3>1. \A s \in Seq(Ops) : s \o <<>> \in Seq(Ops) /\ Elems(s \o <<>>) = Elems(s) \cup Elems(<<>>)
      BY <2>3, OpsElems
    <3> QED BY <2>3, <2>5, <3>1
  <2>7. Elems(a \o b \o Start(n) \o <<>> \o Touch(n)) = Elems(a \o b \o Start(n) \o <<>>) \cup Elems(Touch(n))
    BY <2>3, <2>6, OpsElems
  <2> QED BY <1>2, <1>3, <1>5, <2>2, <2>4, <2>5, <2>6, <2>7 DEF a, b
<1>9. \A ns \in Seq(Servers), op \in OneServer : Elems(Each(op, ns)) = {Op(op, m) : m \in Elems(ns)}
  BY DEF Each, Elems
<1> QED BY <1>1, <1>2, <1>6, <1>7, <1>8, <1>9

\* what follows what, in a sequence put before another
LEMMA LinkedOn ==
    ASSUME NEW s \in Seq(Ops), NEW t \in Seq(Ops), Linked(s), Linked(t),
           s = <<>> \/ t = <<>> \/ Follows(t[1], s[Len(s)])
    PROVE  Linked(s \o t)
<1>1. /\ Len(s) \in Nat /\ Len(t) \in Nat /\ Len(s \o t) = Len(s) + Len(t)
      /\ \A i \in 1..(Len(s) + Len(t)) : (s \o t)[i] = IF i <= Len(s) THEN s[i] ELSE t[i - Len(s)]
  BY ConcatProperties, LenProperties
<1>2. ASSUME NEW i \in 1..Len(s \o t), i > 1 PROVE Follows((s \o t)[i], (s \o t)[i - 1])
  <2>1. i - 1 \in 1..(Len(s) + Len(t)) /\ i \in 1..(Len(s) + Len(t))  BY <1>1, <1>2
  <2>2. CASE i <= Len(s)
    <3>1. (s \o t)[i] = s[i] /\ (s \o t)[i - 1] = s[i - 1] /\ i \in 1..Len(s)  BY <1>1, <2>1, <2>2
    <3> QED BY <1>2, <3>1 DEF Linked
  <2>3. CASE i = Len(s) + 1
    <3>1. (s \o t)[i] = t[1] /\ (s \o t)[i - 1] = s[Len(s)] /\ s # <<>> /\ t # <<>>
      <4>1. i - Len(s) = 1 /\ i - 1 = Len(s) /\ Len(s) # 0 /\ Len(t) # 0  BY <1>1, <1>2, <2>1, <2>3
      <4>2. (s \o t)[i] = t[i - Len(s)] /\ (s \o t)[i - 1] = s[i - 1]  BY <1>1, <2>1, <4>1
      <4> QED BY <4>1, <4>2, EmptySeq
    <3> QED BY <3>1
  <2>4. CASE i > Len(s) + 1
    <3>1. /\ i - Len(s) \in 1..Len(t) /\ i - Len(s) > 1 /\ (s \o t)[i] = t[i - Len(s)]
          /\ (s \o t)[i - 1] = t[(i - Len(s)) - 1]
      <4>1. (i - 1) - Len(s) = (i - Len(s)) - 1  BY <1>1, <2>1
      <4> QED BY <1>1, <2>1, <2>4, <4>1
    <3> QED BY <3>1 DEF Linked
  <2> QED BY <1>1, <2>1, <2>2, <2>3, <2>4
<1> QED BY <1>2 DEF Linked

LEMMA LinkedNone ==
    ASSUME NEW s \in Seq(Ops), \A o \in Elems(s) : o.op \notin {"spawn", "del"}
    PROVE  Linked(s)
<1>1. \A i \in 1..Len(s) : s[i] \in Elems(s)  BY LenProperties DEF Elems
<1> QED BY <1>1 DEF Linked, Follows

LEMMA LinkedTail ==
    ASSUME NEW s \in Seq(Ops), s # <<>>, Linked(s)
    PROVE  Linked(Tail(s)) /\ (Tail(s) # <<>> => Follows(Tail(s)[1], s[1]))
<1>1. Tail(s) \in Seq(Ops) /\ Len(Tail(s)) = Len(s) - 1 /\ \A i \in 1..Len(Tail(s)) : Tail(s)[i] = s[i + 1]
  BY HeadTailProperties
<1>2. Len(s) \in Nat /\ Len(Tail(s)) \in Nat  BY <1>1, LenProperties
<1>3. ASSUME NEW i \in 1..Len(Tail(s)) PROVE Follows(Tail(s)[i], s[i])
  <2>1. i + 1 \in 1..Len(s) /\ i + 1 > 1 /\ (i + 1) - 1 = i  BY <1>1, <1>2
  <2>2. Follows(s[i + 1], s[(i + 1) - 1])  BY <2>1 DEF Linked
  <2> QED BY <1>1, <2>1, <2>2
<1>4. ASSUME NEW i \in 1..Len(Tail(s)), i > 1 PROVE Follows(Tail(s)[i], Tail(s)[i - 1])
  <2>1. i - 1 \in 1..Len(Tail(s)) /\ (i - 1) + 1 = i  BY <1>2, <1>4
  <2>2. Tail(s)[i - 1] = s[i]  BY <1>1, <2>1
  <2> QED BY <1>3, <2>2
<1>5. Tail(s) # <<>> => 1 \in 1..Len(Tail(s))  BY <1>1, <1>2, EmptySeq
<1> QED BY <1>3, <1>4, <1>5 DEF Linked

\* What is due after a step of the main thread.
LEMMA DueAfter ==
    ASSUME todo \in Seq(Ops), todo # <<>>, NEW ops \in Seq(Ops), todo' = ops \o Rest
    PROVE  /\ Todo = {todo[1]} \cup Elems(Rest) /\ Todo' = Elems(ops) \cup Elems(Rest)
           /\ todo[1] \in Todo /\ Elems(Rest) \subseteq Ops /\ Elems(ops) \subseteq Ops
<1>1. Rest \in Seq(Ops)  BY DoingTyped
<1>2. Elems(todo) = {todo[1]} \cup Elems(Rest)  BY OpsElems DEF Rest
<1>3. Elems(todo') = Elems(ops) \cup Elems(Rest)  BY <1>1, OpsElems
<1> QED BY <1>1, <1>2, <1>3, OpsElems DEF Todo

\* The order of what is due: a step that puts a program before the rest.
LEMMA OrderStays ==
    ASSUME Typed, InOrder, todo # <<>>, NEW ops \in Seq(Ops), todo' = ops \o Rest,
           todo[1].op \notin {"terminate_now", "terminate", "kill"},
           Linked(ops), \A o \in Elems(ops) : o.op # "kill",
           ops # <<>> => ops[1].op \notin {"spawn", "del"},
           todo[1].op = "put" => ops = <<>>,
           todo[1].op = "set" => Len(ops) = 1 /\ ops[1].op = "put"
    PROVE  InOrder'
<1>1. Rest \in Seq(Ops) /\ todo \in Seq(Ops)  BY DoingTyped DEF Typed
<1>2. Linked(Rest) /\ (Rest # <<>> => Follows(Rest[1], todo[1]))
  BY <1>1, LinkedTail DEF InOrder, Rest
<1>3. Rest # <<>> => Rest[1].op \notin {"spawn", "del"}
  BY <1>2 DEF Follows
<1>4. Rest # <<>> => \A q : Follows(Rest[1], q)
  BY <1>3 DEF Follows
<1>5. Linked(todo')
  BY <1>1, <1>2, <1>4, LinkedOn
<1>6. /\ Len(ops) \in Nat /\ Len(Rest) \in Nat /\ Len(ops \o Rest) = Len(ops) + Len(Rest)
      /\ \A i \in 1..(Len(ops) + Len(Rest)) : (ops \o Rest)[i] = IF i <= Len(ops) THEN ops[i] ELSE Rest[i - Len(ops)]
      /\ Len(Rest) = Len(todo) - 1 /\ Len(todo) \in Nat /\ \A i \in 1..Len(Rest) : Rest[i] = todo[i + 1]
      /\ \A i \in 1..Len(ops) : ops[i] \in Elems(ops)
      /\ (ops = <<>> <=> Len(ops) = 0)
  BY <1>1, ConcatProperties, LenProperties, HeadTailProperties, EmptySeq DEF Rest, Elems
<1>7. todo' # <<>> => todo'[1].op \notin {"spawn", "del"}
  <2>1. SUFFICES ASSUME todo' # <<>> PROVE todo'[1].op \notin {"spawn", "del"}
    OBVIOUS
  <2>2. todo' \in Seq(Ops)  BY <1>1, One
  <2>3. Len(ops) + Len(Rest) # 0  BY <1>6, <2>1, <2>2, EmptySeq
  <2>4. CASE ops # <<>>
    <3>0. Len(ops) \in Nat /\ Len(Rest) \in Nat /\ Len(ops) # 0
      <4>1. Len(ops) # 0  BY <2>4, EmptySeq
      <4> QED BY <1>6, <4>1
    <3>1. 1 \in 1..(Len(ops) + Len(Rest)) /\ 1 <= Len(ops)  BY <3>0
    <3>2. todo'[1] = ops[1]  BY <1>6, <3>1
    <3> QED BY <2>4, <3>2
  <2>5. CASE ops = <<>>
    <3>1. Len(ops) = 0 /\ 1 \in 1..(Len(ops) + Len(Rest)) /\ Len(Rest) # 0  BY <1>6, <2>3, <2>5
    <3>2. todo'[1] = Rest[1]  BY <1>6, <3>1
    <3>3. Rest # <<>>  BY <3>1, EmptySeq
    <3> QED BY <1>3, <3>2, <3>3
  <2> QED BY <2>4, <2>5
<1>8. MaxSignals = 0 => KillsFirst(todo')
  <2>1. SUFFICES ASSUME MaxSignals = 0, NEW i \in 1..Len(todo'), todo'[i].op = "kill"
                 PROVE  i = 1 \/ (i = 2 /\ todo'[1].op \in {"set", "put"})
    BY DEF KillsFirst
  <2>2. i \in 1..(Len(ops) + Len(Rest))  BY <1>6
  <2>3. ~(i <= Len(ops))
    <3>1. SUFFICES ASSUME i <= Len(ops) PROVE FALSE
      OBVIOUS
    <3>2. todo'[i] = ops[i] /\ i \in 1..Len(ops)  BY <1>6, <2>2, <3>1
    <3> QED BY <1>6, <2>1, <3>2
  <2>4. i - Len(ops) \in 1..Len(Rest) /\ todo'[i] = Rest[i - Len(ops)]  BY <1>6, <2>2, <2>3
  <2>5. (i - Len(ops)) + 1 \in 1..Len(todo) /\ todo'[i] = todo[(i - Len(ops)) + 1] /\ (i - Len(ops)) + 1 # 1
    <3> DEFINE j == i - Len(ops)
    <3>1. j \in 1..Len(Rest) /\ todo'[i] = Rest[j]  BY <2>4
    <3> HIDE DEF j
    <3>2. Rest[j] = todo[j + 1] /\ Len(Rest) = Len(todo) - 1 /\ Len(todo) \in Nat /\ Len(Rest) \in Nat
      BY <1>6, <3>1
    <3>3. j + 1 \in 1..Len(todo) /\ j + 1 # 1  BY <3>1, <3>2
    <3>4. j + 1 \in 1..Len(todo) /\ todo'[i] = todo[j + 1] /\ j + 1 # 1  BY <3>1, <3>2, <3>3
    <3> QED BY <3>4 DEF j
  <2>6. (i - Len(ops)) + 1 = 2 /\ todo[1].op \in {"set", "put"}
    BY <2>1, <2>5 DEF InOrder, KillsFirst
  <2>7. CASE todo[1].op = "put"
    <3>1. Len(ops) = 0  BY <1>6, <2>7
    <3> QED BY <2>2, <2>6, <3>1
  <2>8. CASE todo[1].op = "set"
    <3>1. Len(ops) = 1 /\ ops[1].op = "put"  BY <2>8
    <3>2. i = 2 /\ 1 \in 1..(Len(ops) + Len(Rest))  BY <2>2, <2>6, <3>1, <1>6
    <3>3. todo'[1] = ops[1]  BY <1>6, <3>1, <3>2
    <3> QED BY <3>1, <3>2, <3>3
  <2> QED BY <2>6, <2>7, <2>8
<1> QED BY <1>5, <1>7, <1>8 DEF InOrder

\* and one that leaves it alone
LEMMA OrderKept ==
    ASSUME Typed, InOrder, todo' = todo, \A n \in Servers : Safe(n) => Safe(n)'
    PROVE  InOrder'
<1>1. todo # <<>> /\ todo[1].op \in {"spawn", "del"} => todo[1].n \in Servers
  BY EmptySeq, ElementOfSeq, OpFields DEF Typed, OneServer
<1> QED BY <1>1 DEF InOrder

\* a sequence of programs in which nothing is delicate
LEMMA OrderOf ==
    ASSUME todo' \in Seq(Ops), \A o \in Todo' : o.op \notin {"spawn", "del", "kill"}
    PROVE  InOrder'
<1>1. Linked(todo')  BY LinkedNone DEF Todo
<1>2. \A i \in 1..Len(todo') : todo'[i] \in Todo'
  BY LenProperties DEF Todo, Elems
<1>3. todo' # <<>> => 1 \in 1..Len(todo')
  BY EmptySeq, LenProperties
<1> QED BY <1>1, <1>2, <1>3 DEF InOrder, KillsFirst

\* What is known of the processes: a step that begins none.
LEMMA KnownStays ==
    ASSUME Typed, Known, UNCHANGED <<current, transient, created>>,
           \A p \in Pids : /\ proc'[p].server = proc[p].server
                           /\ proc'[p].phase = "none" <=> proc[p].phase = "none"
                           /\ IsAlive(p)' => IsAlive(p)
                           /\ doomed[p] => doomed'[p]
                           /\ record'[p] = record[p] \/ proc[p].phase # "none"
    PROVE  Known'
<1>1. \A n \in Servers : current[n] \in Pids  BY DEF Typed, TypeOK
<1>2. \A n : Member(n)' <=> Member(n)  BY DEF Member
<1> QED BY <1>1, <1>2 DEF Known

LEMMA SafeStays ==
    ASSUME Typed, current' = current,
           \A p \in Pids : (IsAlive(p)' => IsAlive(p)) /\ (doomed[p] => doomed'[p])
    PROVE  \A n \in Servers : Safe(n) => Safe(n)'
<1>1. \A n \in Servers : current[n] \in Pids  BY DEF Typed, TypeOK
<1> QED BY <1>1 DEF Safe

\* What a step leaves due, and what it does not undo.
Carried ==
    /\ phase' = phase /\ created' = created /\ (phase = "done" => todo' = todo)
    /\ Due({"STARTUP_FIRST"})' => Due({"STARTUP_FIRST"})
    /\ Due(Growth \cup {"create"})' => Due(Growth \cup {"create"})
    /\ Due(Delicate)' => Due(Delicate)
    /\ Due(Shrink)' => Due(Shrink)
    /\ Due({"down", "terminate_alive"})' => Due({"down", "terminate_alive"})
    /\ (shutting_down' \/ Due({"down"})') <=> (shutting_down \/ Due({"down"}))
    /\ \A n \in Servers :
          /\ DueFor(Growth, n)' => DueFor(Growth, n)
          /\ DueFor(Ending, n)' => DueFor(Ending, n) \/ (Member(n) /\ DueFor({"del"}, n)')
          /\ DueFor({"terminate"}, n)' =>
                DueFor({"terminate"}, n) \/ DueFor({"terminate_alive"}, n) \/ DueFor({"del"}, n)'
          /\ DueFor({"kill"}, n) => DueFor({"kill"}, n)' \/ Safe(n)'
          /\ DueFor(Ending, n) => DueFor(Ending, n)' \/ Safe(n)'
          /\ DueFor({"del"}, n) => DueFor({"del"}, n)' \/ ~Member(n)'
          /\ Member(n)' => Member(n)
          /\ Member(n) => Member(n)' \/ Due(Shrink)
          /\ n <= created /\ Safe(n) => Safe(n)' \/ DueFor(Growth, n)
          /\ Tainted(n)' => Tainted(n) \/ (DueFor({"terminate"}, n) /\ DueFor({"kill"}, n)')

LEMMA DueIn ==
    /\ \A n : /\ DueFor(Growth, n) => Due(Growth \cup {"create"})
              /\ DueFor({"terminate"}, n) => Due(Shrink) /\ DueFor(Ending, n)
              /\ DueFor({"terminate_alive"}, n) => Due(Shrink) /\ DueFor(Ending, n) /\ Due({"down", "terminate_alive"})
              /\ DueFor({"kill"}, n) => DueFor(Ending, n)
              /\ DueFor(Ending, n) => Due(Shrink)
              /\ DueFor({"del"}, n) => Due(Shrink)
              /\ DueFor(Growth \cup Ending, n) <=> DueFor(Growth, n) \/ DueFor(Ending, n)
    /\ Due({"down"}) => Due(Shrink) /\ Due({"down", "terminate_alive"})
BY DEF Due, DueFor, Shrink, Ending

LEMMA Carry ==
    ASSUME Growing, Numbered, Stopped, Carried
    PROVE  Growing' /\ Numbered' /\ Stopped'
<1>0. \A n : /\ DueFor(Growth, n) => Due(Growth \cup {"create"})
             /\ DueFor({"terminate"}, n) => Due(Shrink) /\ DueFor(Ending, n)
             /\ DueFor({"terminate_alive"}, n) => Due(Shrink) /\ DueFor(Ending, n) /\ Due({"down", "terminate_alive"})
             /\ DueFor({"kill"}, n) => DueFor(Ending, n)
             /\ DueFor(Growth \cup Ending, n)' <=> DueFor(Growth, n)' \/ DueFor(Ending, n)'
             /\ DueFor(Growth \cup Ending, n) <=> DueFor(Growth, n) \/ DueFor(Ending, n)
  BY DueIn DEF DueFor
<1>1. Due({"down"}) => Due(Shrink)  BY DueIn
<1>2. Growing'
  <2>1. ~Due({"STARTUP_FIRST"})'  BY DEF Carried, Growing
  <2>2. Due(Growth \cup {"create"})' => phase' \in {"start", "monitor"} /\ ~shutting_down' /\ ~Due(Shrink)'
    BY <1>1 DEF Carried, Growing
  <2>3. MaxSignals # 0 /\ Due(Growth \cup {"create"})' => phase' = "start"  BY DEF Carried, Growing
  <2>4. MaxSignals # 0 => ~Due(Delicate)'  BY DEF Carried, Growing
  <2>5. phase' = "start" => ~shutting_down' /\ ~Due(Shrink)'  BY <1>1 DEF Carried, Growing
  <2>6. ASSUME NEW n \in Servers, DueFor(Growth, n)' PROVE Member(n)' /\ ~Tainted(n)'
    <3>1. DueFor(Growth, n) /\ Member(n) /\ ~Tainted(n) /\ ~Due(Shrink)
      BY <1>0, <2>6 DEF Carried, Growing
    <3>2. ~DueFor({"terminate"}, n)  BY <1>0, <3>1
    <3> QED BY <3>1, <3>2 DEF Carried
  <2> QED BY <2>1, <2>2, <2>3, <2>4, <2>5, <2>6 DEF Growing
<1>3. Numbered'
  <2>1. SUFFICES ASSUME NEW n \in Servers, Member(n)' \/ Tainted(n)' \/ DueFor(Growth \cup Ending, n)'
                 PROVE  n <= created'
    BY DEF Numbered
  <2>2. Member(n) \/ Tainted(n) \/ DueFor(Growth \cup Ending, n)
    BY <1>0, <2>1 DEF Carried
  <2> QED BY <2>2 DEF Numbered, Carried
<1>4. Stopped'
  <2>1. ASSUME NEW n \in Servers, Tainted(n)', phase' # "crashed" PROVE Safe(n)' \/ DueFor({"kill"}, n)'
    <3>1. CASE DueFor({"terminate"}, n) /\ DueFor({"kill"}, n)'  BY <3>1
    <3>2. CASE Tainted(n)
      <4>1. ~DueFor(Growth, n) /\ n <= created  BY <3>2 DEF Growing, Numbered
      <4>2. Safe(n) \/ DueFor({"kill"}, n)  BY <2>1, <3>2 DEF Stopped, Carried
      <4> QED BY <4>1, <4>2 DEF Carried
    <3> QED BY <2>1, <3>1, <3>2 DEF Carried
  <2>2. ASSUME MaxSignals = 0, phase' \in {"start", "ack", "monitor"}
        PROVE  /\ ~shutting_down' /\ ~Due({"down", "terminate_alive"})'
               /\ \A n \in Servers : Member(n)' /\ (Tainted(n)' \/ DueFor({"terminate"}, n)') => DueFor({"del"}, n)'
    <3>1. ~shutting_down /\ ~Due({"down", "terminate_alive"}) /\ ~Due({"down"})
      BY <2>2, DueIn DEF Stopped, Carried
    <3>2. ASSUME NEW n \in Servers, Member(n)', Tainted(n)' \/ DueFor({"terminate"}, n)' PROVE DueFor({"del"}, n)'
      <4>1. ~DueFor({"terminate_alive"}, n)  BY <1>0, <3>1
      <4>2. Member(n) /\ (Tainted(n) \/ DueFor({"terminate"}, n) \/ DueFor({"del"}, n)')
        BY <3>2, <4>1 DEF Carried
      <4>3. DueFor({"del"}, n) \/ DueFor({"del"}, n)'  BY <2>2, <4>2 DEF Stopped, Carried
      <4> QED BY <3>2, <4>3 DEF Carried
    <3> QED BY <3>1, <3>2 DEF Carried
  <2>3. phase' \in {"join", "terminate", "cleanup", "done"} => shutting_down' \/ Due({"down"})'
    BY DEF Stopped, Carried
  <2>4. ASSUME shutting_down' \/ Due({"down"})', phase' \notin {"crashed", "killed"}, NEW n \in Servers, Member(n)'
        PROVE  Safe(n)' \/ DueFor(Ending, n)'
    <3>1. shutting_down \/ Due({"down"})  BY <2>4 DEF Carried
    <3>2. ~DueFor(Growth, n)  BY <1>0, <1>1, <3>1 DEF Growing
    <3>3. n <= created /\ (Safe(n) \/ DueFor(Ending, n))  BY <2>4, <3>1 DEF Stopped, Carried, Numbered
    <3> QED BY <3>2, <3>3 DEF Carried
  <2>5. phase' = "done" => todo' = <<>>  BY DEF Stopped, Carried
  <2> QED BY <2>1, <2>2, <2>3, <2>4, <2>5 DEF Stopped
<1> QED BY <1>2, <1>3, <1>4

\* A step of the main thread that puts ops in the place of its operation.
LEMMA Expanded ==
    ASSUME Typed, todo # <<>>, NEW f, f = todo[1], NEW ops \in Seq(Ops), todo' = ops \o Rest,
           phase' = phase, phase # "done", created' = created,
           \A o \in Elems(ops) :
              /\ o.op \notin {"STARTUP_FIRST", "create", "drop", "down", "terminate_alive"}
              /\ o.op = "del" => f.op = "drop"
              /\ o.op \in Growth => f.op \in Growth /\ f.n = o.n
              /\ o.op \in Delicate => f.op \in Delicate
              /\ o.op \in Ending => \/ (f.op \in {"terminate", "terminate_alive"} /\ f.n = o.n)
                                   \/ (f.op = "drop" /\ Member(o.n) /\ Op("del", o.n) \in Elems(ops))
              /\ \A n \in Servers : Writes(o, n) =>
                    Tainted(n) \/ (f.op = "terminate" /\ f.n = n /\ Op("kill", n) \in Elems(ops)),
           f.op \in Ending => Safe(f.n)' \/ DueFor(Ending, f.n)',
           f.op = "kill" => Safe(f.n)',
           f.op = "del" => ~Member(f.n)',
           shutting_down' <=> (shutting_down \/ f.op = "down"),
           \A n \in Servers :
              /\ Member(n)' => Member(n)
              /\ Member(n) => Member(n)' \/ f.op = "del"
              /\ n <= created /\ Safe(n) => Safe(n)' \/ (f.op \in Growth /\ f.n = n)
              /\ state'[n] = "TERMINATED" \/ worker_state'[n].state = "TERMINATED"
                    \/ (\E p \in Pids : proc'[p].server = n /\ record'[p].state = "TERMINATED")
                 => Tainted(n)
    PROVE  Carried
<1> DEFINE R == Elems(Rest)
           E == Elems(ops)
<1>1. Todo = {f} \cup R /\ Todo' = E \cup R /\ f \in Todo
  BY DueAfter DEF Typed
<1>2. \A o \in R : o \in Todo /\ o \in Todo'  BY <1>1
<1>3. \A o \in Todo' : o \in E \/ o \in R  BY <1>1
<1>4. \A o \in Todo : o = f \/ o \in R  BY <1>1
<1>5. Shrink = {"terminate_alive", "terminate", "kill", "drop", "del", "down"}
      /\ Ending = {"terminate_alive", "terminate", "kill"}
  BY DEF Shrink, Ending
<1> HIDE DEF R, E
<1>6. \A o \in E :
          /\ o.op \notin {"STARTUP_FIRST", "create", "drop", "down", "terminate_alive"}
          /\ o.op = "del" => f.op = "drop"
          /\ o.op \in Growth => f.op \in Growth /\ f.n = o.n
          /\ o.op \in Delicate => f.op \in Delicate
          /\ o.op \in Ending => \/ (f.op \in {"terminate", "terminate_alive"} /\ f.n = o.n)
                               \/ (f.op = "drop" /\ Member(o.n) /\ Op("del", o.n) \in E)
          /\ \A n \in Servers : Writes(o, n) =>
                    Tainted(n) \/ (f.op = "terminate" /\ f.n = n /\ Op("kill", n) \in E)
  BY DEF E
<1>7. /\ f.op \in Ending => Safe(f.n)' \/ DueFor(Ending, f.n)'
      /\ f.op = "kill" => Safe(f.n)'
      /\ f.op = "del" => ~Member(f.n)'
      /\ shutting_down' <=> (shutting_down \/ f.op = "down")
      /\ \A n \in Servers :
              /\ Member(n)' => Member(n)
              /\ Member(n) => Member(n)' \/ f.op = "del"
              /\ n <= created /\ Safe(n) => Safe(n)' \/ (f.op \in Growth /\ f.n = n)
  BY DEF E
<1>8. /\ Due({"STARTUP_FIRST"})' => Due({"STARTUP_FIRST"})
      /\ Due({"down"})' => Due({"down"})
      /\ Due({"down", "terminate_alive"})' => Due({"down", "terminate_alive"})
  BY <1>2, <1>3, <1>6 DEF Due
<1>9. Due(Growth \cup {"create"})' => Due(Growth \cup {"create"})
  BY <1>1, <1>2, <1>3, <1>6 DEF Due
<1>10. Due(Delicate)' => Due(Delicate)
  BY <1>1, <1>2, <1>3, <1>6 DEF Due
<1>11. Due(Shrink)' => Due(Shrink)
  BY <1>1, <1>2, <1>3, <1>5, <1>6 DEF Due
<1>12. (shutting_down' \/ Due({"down"})') <=> (shutting_down \/ Due({"down"}))
  <2>1. Due({"down"}) => Due({"down"})' \/ f.op = "down"
    BY <1>2, <1>4 DEF Due
  <2>2. f.op = "down" => Due({"down"})  BY <1>1 DEF Due
  <2> QED BY <1>7, <1>8, <2>1, <2>2
<1>13. ASSUME NEW n \in Servers
       PROVE  /\ DueFor(Growth, n)' => DueFor(Growth, n)
              /\ DueFor(Ending, n)' => DueFor(Ending, n) \/ (Member(n) /\ DueFor({"del"}, n)')
              /\ DueFor({"terminate"}, n)' =>
                DueFor({"terminate"}, n) \/ DueFor({"terminate_alive"}, n) \/ DueFor({"del"}, n)'
              /\ DueFor({"kill"}, n) => DueFor({"kill"}, n)' \/ Safe(n)'
              /\ DueFor(Ending, n) => DueFor(Ending, n)' \/ Safe(n)'
              /\ DueFor({"del"}, n) => DueFor({"del"}, n)' \/ ~Member(n)'
              /\ Member(n)' => Member(n)
              /\ Member(n) => Member(n)' \/ Due(Shrink)
              /\ n <= created /\ Safe(n) => Safe(n)' \/ DueFor(Growth, n)
              /\ Tainted(n)' => Tainted(n) \/ (DueFor({"terminate"}, n) /\ DueFor({"kill"}, n)')
  <2>1. DueFor(Growth, n)' => DueFor(Growth, n)
    BY <1>1, <1>2, <1>3, <1>6 DEF DueFor
  <2>a. Op("del", n) \in E => DueFor({"del"}, n)'
    <3>1. Op("del", n).op = "del" /\ Op("del", n).n = n  BY DEF Op
    <3> QED BY <1>1, <3>1 DEF DueFor
  <2>2. DueFor(Ending, n)' => DueFor(Ending, n) \/ (Member(n) /\ DueFor({"del"}, n)')
    BY <1>1, <1>2, <1>3, <1>5, <1>6, <2>a DEF DueFor
  <2>3. DueFor({"terminate"}, n)' =>
          DueFor({"terminate"}, n) \/ DueFor({"terminate_alive"}, n) \/ DueFor({"del"}, n)'
    BY <1>1, <1>2, <1>3, <1>5, <1>6, <2>a DEF DueFor
  <2>4. DueFor({"kill"}, n) => DueFor({"kill"}, n)' \/ Safe(n)'
    BY <1>2, <1>4, <1>7 DEF DueFor
  <2>5. DueFor(Ending, n) => DueFor(Ending, n)' \/ Safe(n)'
    <3>1. SUFFICES ASSUME NEW o \in Todo, o.op \in Ending, o.n = n PROVE DueFor(Ending, n)' \/ Safe(n)'
      BY DEF DueFor
    <3>2. CASE o \in R  BY <1>2, <3>1, <3>2 DEF DueFor
    <3>3. CASE o = f  BY <1>7, <3>1, <3>3
    <3> QED BY <1>4, <3>2, <3>3
  <2>6. DueFor({"del"}, n) => DueFor({"del"}, n)' \/ ~Member(n)'
    BY <1>2, <1>4, <1>7 DEF DueFor
  <2>7. Member(n) => Member(n)' \/ Due(Shrink)
    BY <1>1, <1>5, <1>7 DEF Due
  <2>8. n <= created /\ Safe(n) => Safe(n)' \/ DueFor(Growth, n)
    BY <1>1, <1>7 DEF DueFor
  <2>9. Tainted(n)' => Tainted(n) \/ (DueFor({"terminate"}, n) /\ DueFor({"kill"}, n)')
    <3>1. SUFFICES ASSUME NEW o \in Todo', Writes(o, n)
                   PROVE  Tainted(n) \/ (DueFor({"terminate"}, n) /\ DueFor({"kill"}, n)')
      <4>1. ~(\E o \in Todo' : Writes(o, n)) => (Tainted(n)' => Tainted(n))
        BY DEF Tainted, Writes
      <4> QED BY <3>1, <4>1
    <3>2. CASE o \in R  BY <1>2, <3>1, <3>2 DEF Tainted
    <3>3. CASE o \in E /\ ~Tainted(n)
      <4>1. f.op = "terminate" /\ f.n = n /\ Op("kill", n) \in E  BY <1>6, <3>1, <3>3
      <4>2. f \in Todo /\ Op("kill", n) \in Todo'  BY <1>1, <4>1
      <4>3. Op("kill", n).op = "kill" /\ Op("kill", n).n = n  BY DEF Op
      <4> QED BY <4>1, <4>2, <4>3 DEF DueFor
    <3> QED BY <1>3, <3>2, <3>3
  <2> QED BY <1>7, <2>1, <2>2, <2>3, <2>4, <2>5, <2>6, <2>7, <2>8, <2>9
<1> QED BY <1>8, <1>9, <1>10, <1>11, <1>12, <1>13 DEF Carried

\* The order of what is due, when a process is told to end.
LEMMA NoKillInRest ==
    ASSUME Typed, InOrder, todo # <<>>, MaxSignals = 0, todo[1].op \notin {"set", "put"}
    PROVE  \A o \in Elems(Rest) : o.op # "kill"
<1>1. /\ Len(Rest) = Len(todo) - 1 /\ Len(todo) \in Nat /\ \A i \in 1..Len(Rest) : Rest[i] = todo[i + 1]
      /\ DOMAIN Rest = 1..Len(Rest) /\ Len(Rest) \in Nat
  BY HeadTailProperties, LenProperties DEF Rest, Typed
<1>2. ASSUME NEW i \in 1..Len(Rest) PROVE Rest[i].op # "kill"
  <2>1. i + 1 \in 1..Len(todo) /\ i + 1 # 1 /\ Rest[i] = todo[i + 1]  BY <1>1
  <2> QED BY <2>1 DEF InOrder, KillsFirst
<1> QED BY <1>1, <1>2 DEF Elems

LEMMA OrderEnds ==
    ASSUME Typed, InOrder, todo # <<>>, NEW f, f = todo[1], f.op \in {"terminate_now", "terminate", "kill"},
           \/ todo' = Rest /\ (Rest # <<>> /\ Rest[1].op \in {"spawn", "del"} => Safe(f.n)')
           \/ f.op = "terminate" /\ f.n \in Servers /\ todo' = Terminate(f.n) \o Rest
    PROVE  InOrder'
<1>1. Rest \in Seq(Ops) /\ todo \in Seq(Ops)  BY DoingTyped DEF Typed
<1>2. Linked(Rest) /\ (Rest # <<>> => Follows(Rest[1], f))
  BY <1>1, LinkedTail DEF InOrder, Rest
<1>3. MaxSignals = 0 => \A o \in Elems(Rest) : o.op # "kill"  BY NoKillInRest
<1>4. Len(Rest) \in Nat /\ \A i \in 1..Len(Rest) : Rest[i] \in Elems(Rest)
  BY <1>1, LenProperties DEF Elems
<1>5. CASE todo' = Rest /\ (Rest # <<>> /\ Rest[1].op \in {"spawn", "del"} => Safe(f.n)')
  <2>1. Rest # <<>> /\ Rest[1].op \in {"spawn", "del"} => Rest[1].n = f.n  BY <1>2 DEF Follows
  <2>2. (todo # <<>> /\ todo[1].op \in {"spawn", "del"} => Safe(todo[1].n))'
    <3>1. SUFFICES ASSUME todo' # <<>>, todo'[1].op \in {"spawn", "del"} PROVE Safe(todo[1].n)'
      OBVIOUS
    <3>2. todo'[1].n = f.n /\ Safe(f.n)'  BY <1>5, <2>1, <3>1
    <3> QED BY <3>2 DEF Safe, IsAlive
  <2>3. MaxSignals = 0 => KillsFirst(todo')  BY <1>3, <1>4, <1>5 DEF KillsFirst
  <2> QED BY <1>2, <1>5, <2>2, <2>3 DEF InOrder
<1>6. CASE f.op = "terminate" /\ f.n \in Servers /\ todo' = Terminate(f.n) \o Rest
  <2> DEFINE n == f.n
             s == [op |-> "set", n |-> n, state |-> "TERMINATED", force |-> TRUE]
  <2>1. Terminate(n) = <<s>> \o <<Op("kill", n)>>  BY DEF Terminate, SetState
  <2>2. /\ Len(Terminate(n)) = 2 /\ Terminate(n)[1] = s /\ Terminate(n)[2] = Op("kill", n)
    BY <2>1
  <2>3. Terminate(n) \in Seq(Ops) /\ Elems(Terminate(n)) = {s, Op("kill", n)}
    BY <1>6, ProgramsTyped, ElemsOfPrograms
  <2>4. Op("kill", n).op = "kill" /\ Op("kill", n).n = n /\ s.op = "set"  BY DEF Op
  <2> HIDE DEF s
  <2>5. Linked(Terminate(n))  BY <2>3, <2>4, LinkedNone
  <2>6. Rest # <<>> => Follows(Rest[1], Op("kill", n))
    BY <1>2, <1>6, <2>4 DEF Follows
  <2>7. Linked(todo')  BY <1>1, <1>2, <1>6, <2>2, <2>3, <2>5, <2>6, LinkedOn
  <2>8. /\ Len(todo') = 2 + Len(Rest)
        /\ \A i \in 1..(2 + Len(Rest)) : todo'[i] = IF i <= 2 THEN Terminate(n)[i] ELSE Rest[i - 2]
    <3>1. \A i \in 1..(Len(Terminate(n)) + Len(Rest)) :
             (Terminate(n) \o Rest)[i] = IF i <= Len(Terminate(n)) THEN Terminate(n)[i] ELSE Rest[i - Len(Terminate(n))]
      BY <1>1, <2>3, ConcatProperties
    <3>2. Len(Terminate(n) \o Rest) = Len(Terminate(n)) + Len(Rest)  BY <1>1, <2>3, ConcatProperties
    <3> QED BY <1>6, <2>2, <3>1, <3>2
  <2>9. todo'[1] = s
    <3>1. 1 \in 1..(2 + Len(Rest))  BY <1>4
    <3> QED BY <2>2, <2>8, <3>1
  <2>10. MaxSignals = 0 => KillsFirst(todo')
    <3>1. SUFFICES ASSUME MaxSignals = 0, NEW i \in 1..(2 + Len(Rest)), todo'[i].op = "kill" PROVE i \in {1, 2}
      BY <2>4, <2>8, <2>9 DEF KillsFirst
    <3>2. SUFFICES ASSUME ~(i <= 2) PROVE FALSE
      BY <1>4
    <3>3. i - 2 \in 1..Len(Rest) /\ todo'[i] = Rest[i - 2]  BY <1>4, <2>8, <3>2
    <3>4. Rest[i - 2] \in Elems(Rest)  BY <1>4, <3>3
    <3> QED BY <1>3, <3>1, <3>3, <3>4
  <2> QED BY <2>4, <2>7, <2>9, <2>10 DEF InOrder
<1> QED BY <1>5, <1>6

LEMMA SentKept ==
    ASSUME Sent, Elems(pipe') \subseteq Elems(pipe),
           (shutting_down \/ Due({"down"})) => (shutting_down' \/ Due({"down"})'),
           phase \in {"crashed", "killed"} => phase' \in {"crashed", "killed"}
    PROVE  Sent'
BY DEF Sent

\* A step of the main thread that has nothing to do with which processes there are.
LEMMA Plain ==
    ASSUME Typed, Steady, todo # <<>>, NEW f, f = todo[1], NEW ops \in Seq(Ops), todo' = ops \o Rest,
           UNCHANGED <<phase, created, transient, current, proc, doomed, record, pipe>>, phase # "done",
           f.op \notin Growth \cup Ending \cup {"del"},
           shutting_down' <=> (shutting_down \/ f.op = "down"),
           \A o \in Elems(ops) : /\ o.op \in {"set", "put", "starts"}
                                 /\ \A n \in Servers : Writes(o, n) => Tainted(n),
           \A n \in Servers : state'[n] = "TERMINATED" \/ worker_state'[n].state = "TERMINATED" => Tainted(n),
           f.op = "put" => ops = <<>>,
           f.op = "set" => Len(ops) = 1 /\ ops[1].op = "put"
    PROVE  Steady'
<1>1. /\ Growth = {"start", "SHUTDOWN_FIRST", "terminate_now", "spawn", "fork"}
      /\ Ending = {"terminate_alive", "terminate", "kill"}
      /\ Delicate = {"SHUTDOWN_FIRST", "terminate_now", "spawn", "create", "drop", "del"}
  BY DEF Growth, Ending, Delicate
<1>2. \A n : (Member(n)' <=> Member(n)) /\ (Safe(n)' <=> Safe(n))
  BY DEF Member, Safe, IsAlive
<1>3. \A n \in Servers : (\E p \in Pids : proc'[p].server = n /\ record'[p].state = "TERMINATED") => Tainted(n)
  BY DEF Tainted
<1>4. Carried
  <2>1. \A o \in Elems(ops) :
           /\ o.op \notin {"STARTUP_FIRST", "create", "drop", "del", "down", "terminate_alive"}
           /\ o.op \notin Growth /\ o.op \notin Delicate /\ o.op \notin Ending
    BY <1>1
  <2>2. f.op \notin Ending /\ f.op # "kill" /\ f.op # "del"  BY <1>1
  <2> QED BY <1>2, <1>3, <2>1, <2>2, Expanded
<1>5. Growing' /\ Numbered' /\ Stopped'  BY <1>4, Carry DEF Steady
<1>6. Linked(ops)  BY LinkedNone
<1>7. ops # <<>> => ops[1].op \notin {"spawn", "del"}
  <2>1. ops # <<>> => ops[1] \in Elems(ops)  BY ElemsOf
  <2> QED BY <2>1
<1>8. InOrder'
  <2>1. f.op \notin {"terminate_now", "terminate", "kill"}  BY <1>1
  <2>2. \A o \in Elems(ops) : o.op # "kill"  OBVIOUS
  <2> QED BY <1>6, <1>7, <2>1, <2>2, OrderStays DEF Steady
<1>9. Known'
  <2>1. \A p \in Pids : IsAlive(p)' => IsAlive(p)  BY DEF IsAlive
  <2> QED BY <2>1, KnownStays DEF Steady
<1>10. Sent'
  <2>1. Elems(pipe') \subseteq Elems(pipe)  OBVIOUS
  <2>2. (shutting_down \/ Due({"down"})) => (shutting_down' \/ Due({"down"})')  BY <1>4 DEF Carried
  <2> QED BY <2>1, <2>2, SentKept DEF Steady
<1> QED BY <1>5, <1>8, <1>9, <1>10 DEF Steady

\* An error or a SIGKILL to everything ends the manager with nothing due.
LEMMA Emptied ==
    ASSUME Typed, Steady, todo' = <<>>, phase' \in {"crashed", "killed"},
           phase # "crashed", phase' = "killed" => todo = <<>> \/ \A p \in Pids : ~IsAlive(p)',
           UNCHANGED <<created, transient, current, record>>,
           \A n \in Servers : Tainted(n)' => Tainted(n),
           \A p \in Pids : /\ proc'[p].server = proc[p].server
                           /\ proc'[p].phase = "none" <=> proc[p].phase = "none"
                           /\ IsAlive(p)' => IsAlive(p)
                           /\ doomed[p] => doomed'[p],
           Sent'
    PROVE  Steady'
<1>1. Todo' = {} /\ \A ops : ~Due(ops)'
  BY ElemsOf DEF Todo, Due
<1>2. \A n : ~DueFor(Growth, n)' /\ ~DueFor(Growth \cup Ending, n)' /\ (Member(n)' <=> Member(n))
  BY <1>1 DEF DueFor, Member
<1>3. \A n \in Servers : current'[n] \in Pids  BY DEF Typed, TypeOK
<1>4. Growing'  BY <1>1, <1>2 DEF Growing
<1>5. Numbered'  BY <1>2 DEF Numbered, Steady
<1>6. Stopped'
  <2>1. (\A p \in Pids : ~IsAlive(p)') => \A n \in Servers : Safe(n)'  BY <1>3 DEF Safe
  <2>2. todo = <<>> => \A n \in Servers : Tainted(n) => Safe(n)
    <3>1. todo = <<>> => Todo = {}  BY ElemsOf DEF Todo
    <3> QED BY <3>1 DEF Steady, Stopped, DueFor
  <2>3. \A n \in Servers : Safe(n) => Safe(n)'  BY SafeStays
  <2> QED BY <2>1, <2>2, <2>3 DEF Stopped
<1>7. Known'  BY KnownStays DEF Steady
<1>8. InOrder'
  <2>1. todo' \in Seq(Ops)  BY One
  <2> QED BY <1>1, <2>1, OrderOf
<1> QED BY <1>4, <1>5, <1>6, <1>7, <1>8 DEF Steady

Plainly == First \/ Starts \/ Sync \/ Wait \/ Num \/ Down \/ KeepOld \/ TerminateSoon \/ WriteBack \/ Exit
             \/ (Set /\ phase' = phase)

LEMMA PlainlySteady == Typed /\ Steady /\ Plainly => Steady'
<1> SUFFICES ASSUME Typed, Steady, Plainly PROVE Steady'
  OBVIOUS
<1> PICK f : f = todo[1]
  OBVIOUS
<1>0. /\ Growth = {"start", "SHUTDOWN_FIRST", "terminate_now", "spawn", "fork"}
      /\ Ending = {"terminate_alive", "terminate", "kill"}
  BY DEF Growth, Ending
<1>1. /\ todo # <<>> /\ phase \notin Ended
      /\ UNCHANGED <<phase, created, transient, current, proc, doomed, record, pipe>>
      /\ f.op \in {"first", "starts", "sync", "wait", "num", "down", "keep_old", "terminate_soon", "put", "exit", "set"}
      /\ shutting_down' <=> (shutting_down \/ f.op = "down")
  <2>1. CASE First \/ Starts \/ Sync \/ Wait
    <3>1. shutting_down \in BOOLEAN  BY DEF Typed, TypeOK
    <3>2. CASE First  BY <3>1, <3>2 DEF First, Doing, objects, children
    <3>3. CASE Starts  BY <3>1, <3>3 DEF Starts, Doing, objects, children
    <3>4. CASE Sync  BY <3>1, <3>4 DEF Sync, Doing, objects, children
    <3>5. CASE Wait  BY <3>1, <3>5 DEF Wait, Doing, objects, children
    <3> QED BY <2>1, <3>2, <3>3, <3>4, <3>5
  <2>2. CASE Num \/ Down \/ KeepOld \/ TerminateSoon
    BY <2>2 DEF Num, Down, KeepOld, TerminateSoon, Doing, objects, children, Typed, TypeOK
  <2>3. CASE WriteBack \/ Exit
    BY <2>3 DEF WriteBack, Exit, Doing, objects, children, Typed, TypeOK
  <2>4. CASE Set /\ phase' = phase
    BY <2>4 DEF Set, Doing, objects, children, Typed, TypeOK
  <2> QED BY <2>1, <2>2, <2>3, <2>4 DEF Plainly
<1>2. phase # "done" /\ f.op \notin Growth \cup Ending \cup {"del"}
  BY <1>0, <1>1 DEF Ended
<1>3. f \in Ops /\ Rest \in Seq(Ops) /\ f \in Todo
  BY <1>1, DoingTyped, ElemsOf DEF Typed, Todo
<1>4. \A n \in Servers : \A rec : Writes(Put(n, rec), n) => rec.state = "TERMINATED"
  BY DEF Writes, Put
<1>5. \A n \in Servers : \A m, rec : Writes(Put(n, rec), m) => m = n /\ rec.state = "TERMINATED"
  BY DEF Writes, Put
<1>6. \A n \in Servers : worker_state[n] \in Record /\ (worker_state[n].state = "TERMINATED" => Tainted(n))
  BY DEF Tainted, Typed, TypeOK
\* which servers a new operation writes for, and what
<1>7. ASSUME NEW ops \in Seq(Ops), todo' = ops \o Rest,
             \A o \in Elems(ops) : /\ o.op \in {"set", "put", "starts"}
                                   /\ \A n \in Servers : Writes(o, n) => Tainted(n),
             \A n \in Servers : state'[n] = "TERMINATED" \/ worker_state'[n].state = "TERMINATED" => Tainted(n),
             f.op = "put" => ops = <<>>,
             f.op = "set" => Len(ops) = 1 /\ ops[1].op = "put"
      PROVE  Steady'
  BY <1>1, <1>2, <1>7, Plain
<1>8. \A n \in Servers : state[n] = "TERMINATED" \/ worker_state[n].state = "TERMINATED" => Tainted(n)
  BY DEF Tainted
<1>9. <<>> \in Seq(Ops) /\ Elems(<<>>) = {} /\ <<>> \o Rest = Rest
  BY <1>3, One, ElemsOf, ConcatProperties, EmptySeq
<1>10. CASE Wait \/ Num \/ Down \/ KeepOld \/ TerminateSoon
  <2>1. todo' = Rest /\ UNCHANGED <<state, worker_state>> /\ f.op # "set"
    BY <1>10 DEF Wait, Num, Down, KeepOld, TerminateSoon, Proceed, Doing, objects
  <2> QED BY <1>7, <1>8, <1>9, <2>1
<1>11. CASE WriteBack
  <2>1. f.op = "put" /\ f.n = It /\ It \in Servers
    BY <1>3, <1>11, OpFields DEF WriteBack, Doing, It
  <2>2. todo' = Rest /\ state' = state /\ worker_state' = [worker_state EXCEPT ![It] = f.rec]
    BY <1>11 DEF WriteBack, Proceed, objects
  <2>3. f.rec.state = "TERMINATED" => Tainted(It)
    BY <1>3, <2>1 DEF Tainted, Writes
  <2>4. \A n \in Servers : worker_state'[n].state = "TERMINATED" => Tainted(n)
    BY <1>8, <2>1, <2>2, <2>3 DEF Typed, TypeOK
  <2> QED BY <1>7, <1>8, <1>9, <2>1, <2>2, <2>4
<1>12. CASE Exit
  <2>1. f.op = "exit" /\ f.n = It /\ It \in Servers
    BY <1>3, <1>12, OpFields DEF Exit, Doing, It, OneServer
  <2>2. todo' = Rest /\ state' = state
        /\ (worker_state' = worker_state \/ worker_state' = [worker_state EXCEPT ![It].state = "NONE"])
    BY <1>12 DEF Exit, Proceed, objects
  <2>3. \A n \in Servers : worker_state'[n].state = "TERMINATED" => Tainted(n)
    <3>1. \A rec \in Record : [rec EXCEPT !.state = "NONE"].state = "NONE"  BY DEF Record
    <3>2. worker_state' = worker_state \/ worker_state' = [worker_state EXCEPT ![It] = [worker_state[It] EXCEPT !.state = "NONE"]]
      BY <2>2
    <3>3. [worker_state[It] EXCEPT !.state = "NONE"].state = "NONE"  BY <1>6, <2>1, <3>1
    <3> QED BY <1>8, <2>1, <3>2, <3>3 DEF Typed, TypeOK
  <2> QED BY <1>7, <1>8, <1>9, <2>1, <2>2, <2>3
<1>13. CASE First
  <2>1. f.op = "first" /\ f.n = It /\ It \in Servers
    BY <1>3, <1>13, OpFields DEF First, Doing, It, OneServer
  <2>2. UNCHANGED <<state, worker_state>> /\ (todo' = <<>> \o Rest \/ todo' = Touch(It) \o Rest)
    BY <1>13 DEF First, Then, objects
  <2>3. Touch(It) \in Seq(Ops) /\ Elems(Touch(It)) = {Op("starts", It)}
    BY <2>1, ProgramsTyped, ElemsOfPrograms
  <2>4. Op("starts", It).op = "starts" /\ \A n : ~Writes(Op("starts", It), n)
    BY DEF Op, Writes
  <2> QED BY <1>7, <1>8, <1>9, <2>1, <2>2, <2>3, <2>4
<1>14. CASE Starts
  <2>1. f.op = "starts" /\ f.n = It /\ It \in Servers
    BY <1>3, <1>14, OpFields DEF Starts, Doing, It, OneServer
  <2> DEFINE rec == [worker_state[It] EXCEPT !.starts = TRUE]
  <2>2. UNCHANGED <<state, worker_state>> /\ todo' = <<Put(It, rec)>> \o Rest
    BY <1>14 DEF Starts, Then, objects
  <2>3. rec \in Record /\ (rec.state = "TERMINATED" => Tainted(It))
    BY <1>6, <2>1 DEF Record
  <2> HIDE DEF rec
  <2>4. <<Put(It, rec)>> \in Seq(Ops) /\ Elems(<<Put(It, rec)>>) = {Put(It, rec)}
    BY <2>1, <2>3, OpsAre, One, ElemsOf
  <2>5. Put(It, rec).op = "put" /\ \A n \in Servers : Writes(Put(It, rec), n) => Tainted(n)
    BY <1>5, <2>1, <2>3 DEF Put
  <2> QED BY <1>7, <1>8, <2>1, <2>2, <2>4, <2>5
<1>15. CASE Sync
  <2>1. f.op = "sync" /\ f.n = It /\ It \in Servers
    BY <1>3, <1>15, OpFields DEF Sync, Doing, It, OneServer
  <2> DEFINE s == IF IsAlive(current[It]) THEN worker_state[It].state
                  ELSE IF proc[current[It]].phase = "failed" THEN "FAILED" ELSE "COMPLETED"
  <2>2. UNCHANGED <<state, worker_state>> /\ (todo' = <<>> \o Rest \/ todo' = SetState(It, s, TRUE) \o Rest)
    BY <1>15 DEF Sync, Then, objects
  <2>3. s \in States /\ (s = "TERMINATED" => Tainted(It))
    BY <1>6, <2>1, StatesAre DEF Record
  <2> HIDE DEF s
  <2> DEFINE o == [op |-> "set", n |-> It, state |-> s, force |-> TRUE]
  <2>4. SetState(It, s, TRUE) \in Seq(Ops) /\ Elems(SetState(It, s, TRUE)) = {o}
    BY <2>1, <2>3, ProgramsTyped, ElemsOfPrograms
  <2>5. o.op = "set" /\ \A n \in Servers : Writes(o, n) => Tainted(n)
    BY <2>3 DEF Writes
  <2> HIDE DEF o
  <2>6. CASE todo' = SetState(It, s, TRUE) \o Rest
    BY <1>7, <1>8, <2>1, <2>2, <2>4, <2>5, <2>6
  <2>7. CASE todo' = <<>> \o Rest
    BY <1>7, <1>8, <1>9, <2>1, <2>2, <2>7
  <2> QED BY <2>2, <2>6, <2>7
<1>16. CASE Set /\ phase' = phase
  <2>1. f.op = "set" /\ f.n = It /\ It \in Servers /\ f.state \in States
    BY <1>3, <1>16, OpFields DEF Set, Doing, It
  <2> DEFINE rec == [worker_state[It] EXCEPT !.state = f.state]
  <2>2. /\ worker_state' = worker_state /\ state' = [state EXCEPT ![It] = f.state]
        /\ todo' = <<Put(It, rec)>> \o Rest
    BY <1>1, <1>16 DEF Set, Then, Raise, Ended
  <2>3. f.state = "TERMINATED" => Tainted(It)
    BY <1>3, <2>1 DEF Tainted, Writes
  <2>4. rec \in Record /\ (rec.state = "TERMINATED" => Tainted(It))
    BY <1>6, <2>1, <2>3 DEF Record
  <2> HIDE DEF rec
  <2>5. <<Put(It, rec)>> \in Seq(Ops) /\ Elems(<<Put(It, rec)>>) = {Put(It, rec)}
    BY <2>1, <2>4, OpsAre, One, ElemsOf
  <2>6. Put(It, rec).op = "put" /\ \A n \in Servers : Writes(Put(It, rec), n) => Tainted(n)
    BY <1>5, <2>1, <2>4 DEF Put
  <2>7. \A n \in Servers : state'[n] = "TERMINATED" => Tainted(n)
    BY <1>8, <2>1, <2>2, <2>3 DEF Typed, TypeOK
  <2>8. Len(<<Put(It, rec)>>) = 1 /\ <<Put(It, rec)>>[1] = Put(It, rec)  OBVIOUS
  <2> QED BY <1>7, <1>8, <2>1, <2>2, <2>5, <2>6, <2>7, <2>8
<1> QED BY <1>10, <1>11, <1>12, <1>13, <1>14, <1>15, <1>16 DEF Plainly

\* An operation that raises.
LEMMA RaiseSteady == Typed /\ Steady /\ (Set \/ Spawn) /\ phase' # phase => Steady'
<1> SUFFICES ASSUME Typed, Steady, Set \/ Spawn, phase' # phase PROVE Steady'
  OBVIOUS
<1>1. /\ todo' = <<>> /\ phase' = "crashed"
      /\ UNCHANGED <<created, transient, current, record, proc, doomed, state, worker_state, pipe, shutting_down>>
  BY DEF Set, Spawn, Raise, children
<1>2. Todo' = {}  BY <1>1, ElemsOf DEF Todo
<1>3. \A n \in Servers : Tainted(n)' => Tainted(n)
  BY <1>1, <1>2 DEF Tainted
<1>4. \A p \in Pids : IsAlive(p)' => IsAlive(p)  BY <1>1 DEF IsAlive
<1>5. Sent'
  BY <1>1 DEF Sent, Steady
<1>6. phase # "crashed"  BY DEF Set, Spawn, Doing, Ended
<1> QED BY <1>1, <1>3, <1>4, <1>5, <1>6, Emptied

-----------------------------------------------------------------------------
\* What a step changes of the processes is nothing.
LEMMA Unmoved ==
    ASSUME UNCHANGED <<state, worker_state, proc, record, current, doomed, transient>>
    PROVE  \A n \in Servers :
              /\ (Member(n)' <=> Member(n)) /\ (Safe(n)' <=> Safe(n))
              /\ state'[n] = "TERMINATED" \/ worker_state'[n].state = "TERMINATED"
                    \/ (\E p \in Pids : proc'[p].server = n /\ record'[p].state = "TERMINATED")
                 => Tainted(n)
<1> SUFFICES ASSUME NEW n \in Servers
             PROVE  /\ (Member(n)' <=> Member(n)) /\ (Safe(n)' <=> Safe(n))
                    /\ state'[n] = "TERMINATED" \/ worker_state'[n].state = "TERMINATED"
                          \/ (\E p \in Pids : proc'[p].server = n /\ record'[p].state = "TERMINATED")
                       => Tainted(n)
  OBVIOUS
<1>1. Member(n)' <=> Member(n)  BY DEF Member
<1>2. Safe(n)' <=> Safe(n)  BY DEF Safe, IsAlive
<1> QED BY <1>1, <1>2 DEF Tainted

\* The parts of an operation's step.
LEMMA Whole ==
    ASSUME Typed, Steady, Carried, InOrder', Known', Elems(pipe') \subseteq Elems(pipe)
    PROVE  Steady'
<1>1. Growing' /\ Numbered' /\ Stopped'  BY Carry DEF Steady
<1>2. Sent'
  <2>1. /\ (shutting_down \/ Due({"down"})) => (shutting_down' \/ Due({"down"})')
        /\ phase' = phase
    BY DEF Carried
  <2> QED BY <2>1, SentKept DEF Steady
<1> QED BY <1>1, <1>2 DEF Steady

\* The operation in front.
LEMMA Front ==
    ASSUME Typed, todo # <<>>, NEW f, f = todo[1]
    PROVE  f \in Ops /\ f \in Todo /\ Rest \in Seq(Ops) /\ It = f.n
           /\ (f.op \in OneServer => f.n \in Servers)
           /\ <<>> \in Seq(Ops) /\ Elems(<<>>) = {} /\ <<>> \o Rest = Rest
           /\ Elems(Rest) \subseteq Todo
<1>1. f \in Ops /\ Rest \in Seq(Ops) /\ f \in Todo /\ Elems(Rest) \subseteq Todo
  BY DoingTyped, OpsElems DEF Typed, Todo, Rest
<1>2. f.op \in OneServer => f.n \in Servers  BY <1>1, OpFields
<1>3. <<>> \in Seq(Ops) /\ Elems(<<>>) = {} /\ <<>> \o Rest = Rest
  BY <1>1, One, ElemsOf, ConcatProperties, EmptySeq
<1> QED BY <1>1, <1>2, <1>3 DEF It

LEMMA TerminateItSteady == Typed /\ Steady /\ TerminateIt => Steady'
<1> SUFFICES ASSUME Typed, Steady, TerminateIt PROVE Steady'
  OBVIOUS
<1> PICK f : f = todo[1]
  OBVIOUS
<1>1. /\ todo # <<>> /\ phase \notin Ended /\ f.op = "terminate"
      /\ UNCHANGED <<phase, created, shutting_down, pipe>>
      /\ UNCHANGED <<state, worker_state, proc, record, current, doomed, transient>>
      /\ todo' = (IF state[It] = "TERMINATED" THEN <<>> ELSE Terminate(It)) \o Rest
  BY DEF TerminateIt, Doing, Then, objects, children
<1>2. /\ f \in Todo /\ Rest \in Seq(Ops) /\ It = f.n /\ f.n \in Servers
      /\ <<>> \in Seq(Ops) /\ Elems(<<>>) = {} /\ <<>> \o Rest = Rest /\ Elems(Rest) \subseteq Todo
  <2>1. "terminate" \in OneServer  BY DEF OneServer
  <2> QED BY <1>1, <2>1, Front
<1>3. \A n \in Servers :
         /\ (Member(n)' <=> Member(n)) /\ (Safe(n)' <=> Safe(n))
         /\ state'[n] = "TERMINATED" \/ worker_state'[n].state = "TERMINATED"
               \/ (\E p \in Pids : proc'[p].server = n /\ record'[p].state = "TERMINATED")
            => Tainted(n)
  BY <1>1, Unmoved
<1>4. phase # "done" /\ phase # "crashed"  BY <1>1 DEF Ended
<1>5. /\ "terminate" \in Ending /\ "kill" \in Ending /\ "terminate" \notin Growth
  BY DEF Ending, Growth
<1>6. Known'
  <2>1. \A p \in Pids : IsAlive(p)' => IsAlive(p)  BY <1>1 DEF IsAlive
  <2> QED BY <1>1, <2>1, KnownStays DEF Steady
<1>7. CASE state[f.n] = "TERMINATED"
  <2>1. todo' = Rest  BY <1>1, <1>2, <1>7
  <2>2. Safe(f.n) \/ (MaxSignals # 0 /\ DueFor(Ending, f.n)')
    <3>1. Tainted(f.n)  BY <1>7 DEF Tainted
    <3>2. Safe(f.n) \/ DueFor({"kill"}, f.n)  BY <1>2, <1>4, <3>1 DEF Steady, Stopped
    <3>3. ASSUME NEW o \in Todo, o.op = "kill", o.n = f.n PROVE MaxSignals # 0 /\ DueFor(Ending, f.n)'
      <4>1. Todo = {f} \cup Elems(Rest) /\ Todo' = Elems(Rest)
        <5>1. todo \in Seq(Ops)  BY DEF Typed
        <5>2. todo' = <<>> \o Rest /\ <<>> \in Seq(Ops) /\ Elems(<<>>) = {} /\ todo # <<>>  BY <1>1, <1>2, <2>1
        <5> QED BY <5>1, <5>2, DueAfter
      <4>2. o \in Elems(Rest)  BY <1>1, <3>3, <4>1
      <4>3. MaxSignals # 0
        BY <1>1, <3>3, <4>2, NoKillInRest DEF Steady
      <4>4. DueFor(Ending, f.n)'  BY <1>5, <3>3, <4>1, <4>2 DEF DueFor
      <4> QED BY <4>3, <4>4
    <3> QED BY <3>2, <3>3 DEF DueFor
  <2>3. Carried
    <3>1. f.op \in Ending => Safe(f.n)' \/ DueFor(Ending, f.n)'
      BY <1>2, <1>3, <2>2
    <3>2. todo' = <<>> \o Rest  BY <1>2, <2>1
    <3>3. f.op # "kill" /\ f.op # "del" /\ f.op # "down"  BY <1>1
    <3> QED BY <1>1, <1>2, <1>3, <1>4, <3>1, <3>2, <3>3, Expanded
  <2>4. InOrder'
    <3>1. ASSUME Rest # <<>>, Rest[1].op \in {"spawn", "del"} PROVE Safe(f.n)'
      <4>1. Rest[1] \in Elems(Rest)  BY <1>2, <3>1, ElemsOf
      <4>2. Linked(todo) /\ Follows(Rest[1], f)
        BY <1>1, <3>1, LinkedTail DEF Typed, Rest, Steady, InOrder
      <4>3. Rest[1].op = "del"  BY <1>1, <3>1, <4>2 DEF Follows
      <4>4. Due(Delicate)  BY <1>2, <4>1, <4>3 DEF Due, Delicate
      <4>5. MaxSignals = 0  BY <4>4 DEF Steady, Growing
      <4> QED BY <1>2, <1>3, <2>2, <4>5
    <3> QED BY <1>1, <2>1, <3>1, OrderEnds DEF Steady
  <2> QED BY <1>1, <1>6, <2>3, <2>4, Whole
<1>8. CASE state[f.n] # "TERMINATED"
  <2> DEFINE s == [op |-> "set", n |-> f.n, state |-> "TERMINATED", force |-> TRUE]
  <2>1. todo' = Terminate(f.n) \o Rest  BY <1>1, <1>2, <1>8
  <2>2. Terminate(f.n) \in Seq(Ops) /\ Elems(Terminate(f.n)) = {s, Op("kill", f.n)}
    BY <1>2, ProgramsTyped, ElemsOfPrograms
  <2>3. /\ Op("kill", f.n).op = "kill" /\ Op("kill", f.n).n = f.n /\ s.op = "set" /\ s.n = f.n
        /\ \A n : ~Writes(Op("kill", f.n), n)
    BY DEF Op, Writes
  <2>4. \A n \in Servers : Writes(s, n) => n = f.n  BY DEF Writes
  <2> HIDE DEF s
  <2>5. Todo' = Elems(Terminate(f.n)) \cup Elems(Rest)
    BY <1>1, <2>1, <2>2, DueAfter DEF Typed
  <2>6. DueFor(Ending, f.n)'
    BY <1>5, <2>2, <2>3, <2>5 DEF DueFor
  <2>7. /\ f.op \in Ending => Safe(f.n)' \/ DueFor(Ending, f.n)'
        /\ f.op # "kill" /\ f.op # "del" /\ f.op # "down"
        /\ phase' = phase /\ created' = created /\ todo # <<>> /\ phase # "done"
        /\ (shutting_down' <=> (shutting_down \/ f.op = "down"))
    BY <1>1, <1>4, <2>6
  <2>8. ASSUME NEW ops \in Seq(Ops), todo' = ops \o Rest,
               \A o \in Elems(ops) :
                 /\ o.op \notin {"STARTUP_FIRST", "create", "drop", "down", "terminate_alive"}
                 /\ o.op = "del" => f.op = "drop"
                 /\ o.op \in Growth => f.op \in Growth /\ f.n = o.n
                 /\ o.op \in Delicate => f.op \in Delicate
                 /\ o.op \in Ending => \/ (f.op \in {"terminate", "terminate_alive"} /\ f.n = o.n)
                                       \/ (f.op = "drop" /\ Member(o.n) /\ Op("del", o.n) \in Elems(ops))
                 /\ \A n \in Servers : Writes(o, n) =>
                       Tainted(n) \/ (f.op = "terminate" /\ f.n = n /\ Op("kill", n) \in Elems(ops))
        PROVE  Carried
    BY <1>3, <2>7, <2>8, Expanded, SMTT(20)
  <2>9. Carried
    <3>2. \A o \in Elems(Terminate(f.n)) :
            /\ o.op \notin {"STARTUP_FIRST", "create", "drop", "down", "terminate_alive"}
            /\ o.op = "del" => f.op = "drop"
            /\ o.op \in Growth => f.op \in Growth /\ f.n = o.n
            /\ o.op \in Delicate => f.op \in Delicate
            /\ o.op \in Ending => \/ (f.op \in {"terminate", "terminate_alive"} /\ f.n = o.n)
                                  \/ (f.op = "drop" /\ Member(o.n) /\ Op("del", o.n) \in Elems(Terminate(f.n)))
            /\ \A n \in Servers : Writes(o, n) =>
                  Tainted(n) \/ (f.op = "terminate" /\ f.n = n /\ Op("kill", n) \in Elems(Terminate(f.n)))
      BY <1>1, <2>2, <2>3, <2>4 DEF Growth, Delicate
    <3> QED BY <2>1, <2>2, <2>8, <3>2
  <2>10. InOrder'  BY <1>1, <1>2, <2>1, OrderEnds DEF Steady
  <2> QED BY <1>1, <1>6, <2>9, <2>10, Whole
<1> QED BY <1>7, <1>8

LEMMA TerminateAliveSteady == Typed /\ Steady /\ TerminateAlive => Steady'
<1> SUFFICES ASSUME Typed, Steady, TerminateAlive PROVE Steady'
  OBVIOUS
<1> PICK f : f = todo[1]
  OBVIOUS
<1>1. /\ todo # <<>> /\ phase \notin Ended /\ f.op = "terminate_alive"
      /\ UNCHANGED <<phase, created, shutting_down, pipe>>
      /\ UNCHANGED <<state, worker_state, proc, record, current, doomed, transient>>
      /\ todo' = (IF IsAlive(current[It]) THEN <<Op("terminate", It)>> ELSE <<>>) \o Rest
  BY DEF TerminateAlive, Doing, Then, objects, children
<1>2. /\ f \in Todo /\ Rest \in Seq(Ops) /\ It = f.n /\ f.n \in Servers
      /\ <<>> \in Seq(Ops) /\ Elems(<<>>) = {} /\ <<>> \o Rest = Rest /\ Elems(Rest) \subseteq Todo
  <2>1. "terminate_alive" \in OneServer  BY DEF OneServer
  <2> QED BY <1>1, <2>1, Front
<1>3. \A n \in Servers :
         /\ (Member(n)' <=> Member(n)) /\ (Safe(n)' <=> Safe(n))
         /\ state'[n] = "TERMINATED" \/ worker_state'[n].state = "TERMINATED"
               \/ (\E p \in Pids : proc'[p].server = n /\ record'[p].state = "TERMINATED")
            => Tainted(n)
  BY <1>1, Unmoved
<1>4. phase # "done"  BY <1>1 DEF Ended
<1>5. f.op # "kill" /\ f.op # "del" /\ f.op # "down" /\ f.op \notin {"terminate_now", "terminate", "kill"}
  BY <1>1
<1>6. Known'
  <2>1. \A p \in Pids : IsAlive(p)' => IsAlive(p)  BY <1>1 DEF IsAlive
  <2> QED BY <1>1, <2>1, KnownStays DEF Steady
<1>7. PICK ops : ops = IF IsAlive(current[It]) THEN <<Op("terminate", It)>> ELSE <<>>
  OBVIOUS
<1>8. /\ ops \in Seq(Ops) /\ todo' = ops \o Rest
      /\ ops = <<>> \/ (Elems(ops) = {Op("terminate", f.n)} /\ ops[1] = Op("terminate", f.n))
      /\ ops = <<>> => Safe(f.n)
  <2>1. <<Op("terminate", f.n)>> \in Seq(Ops) /\ Elems(<<Op("terminate", f.n)>>) = {Op("terminate", f.n)}
        /\ <<Op("terminate", f.n)>>[1] = Op("terminate", f.n) /\ <<Op("terminate", f.n)>> # <<>>
    BY <1>2, OpsAre, One, ElemsOf DEF OneServer
  <2> QED BY <1>1, <1>2, <1>7, <2>1 DEF Safe
<1>9. Op("terminate", f.n).op = "terminate" /\ Op("terminate", f.n).n = f.n /\ \A n : ~Writes(Op("terminate", f.n), n)
  BY DEF Op, Writes
<1>10. \A o \in Elems(ops) : o.op = "terminate" /\ o.n = f.n /\ \A n : ~Writes(o, n)
  BY <1>2, <1>8, <1>9
<1>11. DueFor(Ending, f.n)' \/ Safe(f.n)'
  <2>1. Todo' = Elems(ops) \cup Elems(Rest)
    BY <1>1, <1>8, DueAfter DEF Typed
  <2>2. "terminate" \in Ending  BY DEF Ending
  <2> QED BY <1>2, <1>3, <1>8, <1>9, <2>1, <2>2 DEF DueFor
<1>12. Carried
  <2>1. \A o \in Elems(ops) :
            /\ o.op \notin {"STARTUP_FIRST", "create", "drop", "down", "terminate_alive"}
            /\ o.op = "del" => f.op = "drop"
            /\ o.op \in Growth => f.op \in Growth /\ f.n = o.n
            /\ o.op \in Delicate => f.op \in Delicate
            /\ o.op \in Ending => \/ (f.op \in {"terminate", "terminate_alive"} /\ f.n = o.n)
                                  \/ (f.op = "drop" /\ Member(o.n) /\ Op("del", o.n) \in Elems(ops))
            /\ \A n \in Servers : Writes(o, n) =>
                  Tainted(n) \/ (f.op = "terminate" /\ f.n = n /\ Op("kill", n) \in Elems(ops))
    BY <1>1, <1>10 DEF Growth, Delicate
  <2>2. /\ todo # <<>> /\ phase' = phase /\ created' = created
        /\ f.op \notin {"kill", "del", "down"} /\ shutting_down' = shutting_down
    BY <1>1, <1>5
  <2>3. ops \in Seq(Ops) /\ todo' = ops \o Rest /\ (DueFor(Ending, f.n)' \/ Safe(f.n)')  BY <1>8, <1>11
  <2> QED BY <1>3, <1>4, <2>1, <2>2, <2>3, Expanded
<1>13. InOrder'
  <2>1. Linked(ops)  BY <1>8, <1>10, LinkedNone
  <2>2. \A o \in Elems(ops) : o.op # "kill"  BY <1>10
  <2>3. ops # <<>> => ops[1].op \notin {"spawn", "del"}  BY <1>8, <1>9
  <2>4. f.op # "put" /\ f.op # "set"  BY <1>1
  <2> QED BY <1>1, <1>5, <1>8, <2>1, <2>2, <2>3, <2>4, OrderStays DEF Steady
<1> QED BY <1>1, <1>6, <1>12, <1>13, Whole

LEMMA KillSteady == Typed /\ Steady /\ Kill => Steady'
<1> SUFFICES ASSUME Typed, Steady, Kill PROVE Steady'
  OBVIOUS
<1> PICK f : f = todo[1]
  OBVIOUS
<1>1. /\ todo # <<>> /\ phase \notin Ended /\ f.op \in {"kill", "terminate_now"}
      /\ UNCHANGED <<phase, created, shutting_down, pipe>>
      /\ UNCHANGED <<state, worker_state, proc, record, current, transient>>
      /\ todo' = Rest
      /\ doomed' = [p \in Pids |-> doomed[p] \/ p \in {current[It]}]
  BY DEF Kill, Doing, Proceed, SendSignal, objects
<1>2. /\ f \in Todo /\ Rest \in Seq(Ops) /\ It = f.n /\ f.n \in Servers
      /\ <<>> \in Seq(Ops) /\ Elems(<<>>) = {} /\ <<>> \o Rest = Rest /\ Elems(Rest) \subseteq Todo
  <2>1. {"kill", "terminate_now"} \subseteq OneServer  BY DEF OneServer
  <2> QED BY <1>1, <2>1, Front
<1>3. /\ \A p \in Pids : (IsAlive(p)' <=> IsAlive(p)) /\ (doomed[p] => doomed'[p])
      /\ current[f.n] \in Pids /\ doomed'[current[f.n]]
  BY <1>1, <1>2 DEF IsAlive, Typed, TypeOK
<1>4. Safe(f.n)' /\ \A n \in Servers : Safe(n) => Safe(n)'
  <2>1. \A n \in Servers : Safe(n) => Safe(n)'  BY <1>1, <1>3, SafeStays
  <2>2. Safe(f.n)'  BY <1>1, <1>3 DEF Safe
  <2> QED BY <2>1, <2>2
<1>5. \A n : Member(n)' <=> Member(n)  BY <1>1 DEF Member
<1>6. \A n \in Servers :
         state'[n] = "TERMINATED" \/ worker_state'[n].state = "TERMINATED"
               \/ (\E p \in Pids : proc'[p].server = n /\ record'[p].state = "TERMINATED")
            => Tainted(n)
  BY <1>1 DEF Tainted
<1>7. Known'  BY <1>1, <1>3, KnownStays DEF Steady
<1>8. phase # "done" /\ f.op # "del" /\ f.op # "down"  BY <1>1 DEF Ended
<1>9. Carried
  <2>1. todo' = <<>> \o Rest  BY <1>1, <1>2
  <2> QED BY <1>1, <1>2, <1>4, <1>5, <1>6, <1>8, <2>1, Expanded
<1>10. InOrder'  BY <1>1, <1>4, OrderEnds DEF Steady
<1> QED BY <1>1, <1>7, <1>9, <1>10, Whole

-----------------------------------------------------------------------------
\* A program put in place of an operation that is not one of ending.
LEMMA Programmed ==
    ASSUME Typed, Steady, todo # <<>>, NEW f, f = todo[1], NEW ops \in Seq(Ops), todo' = ops \o Rest,
           UNCHANGED <<phase, created, shutting_down, pipe>>, phase # "done",
           UNCHANGED <<state, worker_state, proc, record, current, doomed, transient>>,
           f.op \notin Ending, f.op \notin {"del", "down", "terminate_now", "put", "set"},
           Linked(ops), ops # <<>> => ops[1].op \notin {"spawn", "del"},
           \A o \in Elems(ops) :
              /\ o.op \notin {"STARTUP_FIRST", "create", "drop", "down", "terminate_alive", "kill"}
              /\ o.op = "del" => f.op = "drop"
              /\ o.op \in Growth => f.op \in Growth /\ f.n = o.n
              /\ o.op \in Delicate => f.op \in Delicate
              /\ o.op \in Ending => f.op = "drop" /\ Member(o.n) /\ Op("del", o.n) \in Elems(ops)
              /\ \A n \in Servers : ~Writes(o, n)
    PROVE  Steady'
<1>1. \A n \in Servers :
         /\ (Member(n)' <=> Member(n)) /\ (Safe(n)' <=> Safe(n))
         /\ state'[n] = "TERMINATED" \/ worker_state'[n].state = "TERMINATED"
               \/ (\E p \in Pids : proc'[p].server = n /\ record'[p].state = "TERMINATED")
            => Tainted(n)
  BY Unmoved
<1>2. Known'
  <2>1. \A p \in Pids : IsAlive(p)' => IsAlive(p)  BY DEF IsAlive
  <2> QED BY <2>1, KnownStays DEF Steady
<1>3. {"terminate", "kill"} \subseteq Ending  BY DEF Ending
<1>4. Carried
  <2>1. /\ f.op \in Ending => Safe(f.n)' \/ DueFor(Ending, f.n)'
        /\ f.op # "kill" /\ f.op # "del" /\ f.op # "down"
        /\ (shutting_down' <=> (shutting_down \/ f.op = "down"))
    BY <1>3
  <2>2. \A o \in Elems(ops) :
           /\ o.op \notin {"STARTUP_FIRST", "create", "drop", "down", "terminate_alive"}
           /\ o.op = "del" => f.op = "drop"
           /\ o.op \in Growth => f.op \in Growth /\ f.n = o.n
           /\ o.op \in Delicate => f.op \in Delicate
           /\ o.op \in Ending => \/ (f.op \in {"terminate", "terminate_alive"} /\ f.n = o.n)
                                 \/ (f.op = "drop" /\ Member(o.n) /\ Op("del", o.n) \in Elems(ops))
           /\ \A n \in Servers : Writes(o, n) =>
                 Tainted(n) \/ (f.op = "terminate" /\ f.n = n /\ Op("kill", n) \in Elems(ops))
    OBVIOUS
  <2> QED BY <1>1, <2>1, <2>2, Expanded
<1>5. InOrder'
  <2>1. f.op \notin {"terminate_now", "terminate", "kill"} /\ f.op # "put" /\ f.op # "set"  BY <1>3
  <2>2. \A o \in Elems(ops) : o.op # "kill"  OBVIOUS
  <2> QED BY <2>1, <2>2, OrderStays DEF Steady
<1> QED BY <1>2, <1>4, <1>5, Whole

LEMMA StartOneSteady == Typed /\ Steady /\ StartOne => Steady'
<1> SUFFICES ASSUME Typed, Steady, StartOne PROVE Steady'
  OBVIOUS
<1> PICK f : f = todo[1]
  OBVIOUS
<1>1. /\ todo # <<>> /\ phase \notin Ended /\ f.op = "start"
      /\ UNCHANGED <<phase, created, shutting_down, pipe>>
      /\ UNCHANGED <<state, worker_state, proc, record, current, doomed, transient>>
      /\ todo' = Start(It) \o Rest
  BY DEF StartOne, Doing, Then, objects, children
<1>2. It = f.n /\ f.n \in Servers
  <2>1. "start" \in OneServer  BY DEF OneServer
  <2> QED BY <1>1, <2>1, Front
<1>3. /\ Start(f.n) \in Seq(Ops)
      /\ \A o \in Elems(Start(f.n)) :
            o.op \in {"set", "fork", "first"} /\ o.n = f.n /\ \A n \in Servers : ~Writes(o, n)
  BY <1>2, ProgramsTyped, ElemsOfPrograms DEF Op, Writes
<1>4. phase # "done" /\ f.op \notin Ending /\ f.op \notin {"del", "down", "terminate_now", "put", "set"} /\ f.op \in Growth
  BY <1>1 DEF Ended, Ending, Growth
<1>5. ASSUME NEW ops \in Seq(Ops), todo' = ops \o Rest,
             \A o \in Elems(ops) : o.op \in {"set", "fork", "first"} /\ o.n = f.n /\ \A n \in Servers : ~Writes(o, n)
      PROVE  Steady'
  <2>1. Linked(ops)  BY <1>5, LinkedNone
  <2>2. ops # <<>> => ops[1] \in Elems(ops)  BY ElemsOf
  <2>3. \A o \in Elems(ops) :
           /\ o.op \notin {"STARTUP_FIRST", "create", "drop", "down", "terminate_alive", "kill"}
           /\ o.op \notin {"spawn", "del"} /\ o.op \notin Delicate /\ o.op \notin Ending
    BY <1>5 DEF Delicate, Ending
  <2>4. ops # <<>> => ops[1].op \notin {"spawn", "del"}  BY <2>2, <2>3
  <2>5. \A o \in Elems(ops) :
              /\ o.op \notin {"STARTUP_FIRST", "create", "drop", "down", "terminate_alive", "kill"}
              /\ o.op = "del" => f.op = "drop"
              /\ o.op \in Growth => f.op \in Growth /\ f.n = o.n
              /\ o.op \in Delicate => f.op \in Delicate
              /\ o.op \in Ending => f.op = "drop" /\ Member(o.n) /\ Op("del", o.n) \in Elems(ops)
              /\ \A n \in Servers : ~Writes(o, n)
    BY <1>4, <1>5, <2>3
  <2> QED BY <1>1, <1>4, <1>5, <2>1, <2>4, <2>5, Programmed
<1> QED BY <1>1, <1>2, <1>3, <1>5

\* the program of a restart that ends the process first
LEMMA RestartLinked ==
    ASSUME NEW n \in Servers
    PROVE  /\ Restart(n, "SHUTDOWN_FIRST") \in Seq(Ops) /\ Linked(Restart(n, "SHUTDOWN_FIRST"))
           /\ Restart(n, "SHUTDOWN_FIRST")[1].op = "set"
           /\ \A o \in Elems(Restart(n, "SHUTDOWN_FIRST")) :
                 /\ o.op \in {"set", "terminate_now", "spawn", "starts", "fork", "first"} /\ o.n = n
                 /\ \A m \in Servers : ~Writes(o, m)
<1> DEFINE a == SetState(n, "RESTARTING", TRUE)
           b == <<Op("terminate_now", n), Op("spawn", n)>>
           c == Start(n)
           d == Touch(n)
           Calm(s) == \A o \in Elems(s) : o.op \notin {"spawn", "del"}
<1>0. \A op : Op(op, n).op = op /\ Op(op, n).n = n  BY DEF Op
<1>1. Restart(n, "SHUTDOWN_FIRST") = a \o b \o c \o <<>> \o d
  BY DEF Restart
<1>2. a \in Seq(Ops) /\ b \in Seq(Ops) /\ c \in Seq(Ops) /\ d \in Seq(Ops) /\ <<>> \in Seq(Ops)
  <2>1. Op("terminate_now", n) \in Ops /\ Op("spawn", n) \in Ops  BY OpsAre DEF OneServer
  <2>2. b \in Seq(Ops)  BY <2>1
  <2> QED BY <2>2, StatesAre, ProgramsTyped, One
<1>3. Calm(a) /\ Calm(c) /\ Calm(d) /\ Calm(<<>>)
  <2>1. Calm(a)
    <3> DEFINE o == [op |-> "set", n |-> n, state |-> "RESTARTING", force |-> TRUE]
    <3>1. a = <<o>> /\ o.op = "set"  BY DEF SetState
    <3> HIDE DEF o
    <3>2. Elems(a) = {o}  BY <3>1, ElemsOf
    <3> QED BY <3>1, <3>2
  <2>2. Calm(c)  BY <1>0, ElemsOfPrograms
  <2>3. Calm(d)  BY <1>0, ElemsOfPrograms
  <2>4. Calm(<<>>)  BY ElemsOf
  <2> QED BY <2>1, <2>2, <2>3, <2>4
<1>4. Linked(b) /\ Len(b) = 2 /\ b[1] = Op("terminate_now", n) /\ b[2] = Op("spawn", n) /\ b # <<>>
  <2>1. Len(b) = 2 /\ b[1] = Op("terminate_now", n) /\ b[2] = Op("spawn", n)  OBVIOUS
  <2>2. Follows(b[2], b[1])  BY <1>0, <2>1 DEF Follows
  <2>3. ASSUME NEW i \in 1..2, i > 1 PROVE i = 2 /\ i - 1 = 1  BY <2>3
  <2> QED BY <2>1, <2>2, <2>3 DEF Linked
<1>5. a # <<>> /\ Len(a) = 1 /\ a[1].op = "set"  BY DEF SetState
<1> HIDE DEF a, b, c, d
<1>6. Linked(a) /\ Linked(c) /\ Linked(d) /\ Linked(<<>>)
  BY <1>2, <1>3, LinkedNone
<1>7. \A s, t \in Seq(Ops) : Linked(s) /\ Linked(t) /\ Calm(t) => s \o t \in Seq(Ops) /\ Linked(s \o t)
  <2> SUFFICES ASSUME NEW s \in Seq(Ops), NEW t \in Seq(Ops), Linked(s), Linked(t), Calm(t)
               PROVE  s \o t \in Seq(Ops) /\ Linked(s \o t)
    OBVIOUS
  <2>1. t # <<>> => t[1].op \notin {"spawn", "del"}
    <3>1. t # <<>> => t[1] \in Elems(t)  BY ElemsOf
    <3> QED BY <3>1
  <2>2. s = <<>> \/ t = <<>> \/ Follows(t[1], s[Len(s)])  BY <2>1 DEF Follows
  <2> QED BY <2>2, LinkedOn, One
<1>8. Linked(a \o b) /\ a \o b \in Seq(Ops)
  <2>1. Follows(b[1], a[Len(a)])  BY <1>0, <1>4 DEF Follows
  <2> QED BY <1>2, <1>4, <1>6, <2>1, LinkedOn, One
<1>9. a \o b \o c \in Seq(Ops) /\ Linked(a \o b \o c)  BY <1>2, <1>3, <1>6, <1>7, <1>8
<1>10. a \o b \o c \o <<>> \in Seq(Ops) /\ Linked(a \o b \o c \o <<>>)
  <2> DEFINE s == a \o b \o c
  <2>1. s \in Seq(Ops) /\ Linked(s)  BY <1>9
  <2> HIDE DEF s
  <2>2. s \o <<>> \in Seq(Ops) /\ Linked(s \o <<>>)  BY <1>2, <1>3, <1>6, <1>7, <2>1
  <2> QED BY <2>2 DEF s
<1>11. a \o b \o c \o <<>> \o d \in Seq(Ops) /\ Linked(a \o b \o c \o <<>> \o d)
  BY <1>2, <1>3, <1>6, <1>7, <1>10
<1>12. (a \o b \o c \o <<>> \o d)[1] = a[1]
  <2>1. \A s, t \in Seq(Ops) : s # <<>> => s \o t # <<>> /\ (s \o t)[1] = s[1]
    <3> SUFFICES ASSUME NEW s \in Seq(Ops), NEW t \in Seq(Ops), s # <<>>
                 PROVE  s \o t # <<>> /\ (s \o t)[1] = s[1]
      OBVIOUS
    <3>1. /\ Len(s) \in Nat /\ Len(t) \in Nat /\ Len(s) # 0 /\ Len(s \o t) = Len(s) + Len(t)
          /\ \A i \in 1..(Len(s) + Len(t)) : (s \o t)[i] = IF i <= Len(s) THEN s[i] ELSE t[i - Len(s)]
      BY EmptySeq, LenProperties, ConcatProperties
    <3>2. 1 \in 1..(Len(s) + Len(t)) /\ 1 <= Len(s) /\ Len(s \o t) # 0  BY <3>1
    <3> QED BY <3>1, <3>2, EmptySeq, One
  <2>2. a \o b # <<>> /\ (a \o b)[1] = a[1]  BY <1>2, <1>5, <2>1
  <2>3. a \o b \o c # <<>> /\ (a \o b \o c)[1] = a[1]  BY <1>2, <1>8, <2>1, <2>2
  <2>4. a \o b \o c \o <<>> # <<>> /\ (a \o b \o c \o <<>>)[1] = a[1]
    <3> DEFINE s == a \o b \o c
    <3>1. s \in Seq(Ops) /\ s # <<>> /\ s[1] = a[1]  BY <1>9, <2>3
    <3> HIDE DEF s
    <3>2. s \o <<>> # <<>> /\ (s \o <<>>)[1] = a[1]  BY <1>2, <2>1, <3>1
    <3> QED BY <3>2 DEF s
  <2> QED BY <1>2, <1>10, <2>1, <2>4
<1>13. \A o \in Elems(Restart(n, "SHUTDOWN_FIRST")) :
          /\ o.op \in {"set", "terminate_now", "spawn", "starts", "fork", "first"} /\ o.n = n
          /\ \A m \in Servers : ~Writes(o, m)
  BY <1>0, ElemsOfPrograms DEF Writes
<1> QED BY <1>1, <1>5, <1>11, <1>12, <1>13

LEMMA RestartOneSteady == Typed /\ Steady /\ RestartOne => Steady'
<1> SUFFICES ASSUME Typed, Steady, RestartOne PROVE Steady'
  OBVIOUS
<1> PICK f : f = todo[1]
  OBVIOUS
<1>1. /\ todo # <<>> /\ phase \notin Ended
      /\ UNCHANGED <<phase, created, shutting_down, pipe>>
      /\ UNCHANGED <<state, worker_state, proc, record, current, doomed, transient>>
      /\ \E order \in Orders : f.op = order /\ todo' = Restart(It, order) \o Rest
  BY DEF RestartOne, Doing, Then, objects, children
<1>2. It = f.n /\ f.n \in Servers /\ f.op = "SHUTDOWN_FIRST" /\ todo' = Restart(f.n, "SHUTDOWN_FIRST") \o Rest
  <2>1. f.op \in OneServer /\ f \in Todo  BY <1>1, Front DEF OneServer
  <2>2. f.op # "STARTUP_FIRST"  BY <2>1 DEF Steady, Growing, Due
  <2>3. It = f.n /\ f.n \in Servers  BY <1>1, <2>1, Front
  <2> QED BY <1>1, <2>2, <2>3 DEF Orders
<1>4. phase # "done" /\ f.op \notin Ending /\ f.op \notin {"del", "down", "terminate_now", "put", "set"}
      /\ f.op \in Growth /\ f.op \in Delicate
  BY <1>1, <1>2 DEF Ended, Ending, Growth, Delicate
<1>5. ASSUME NEW ops \in Seq(Ops), todo' = ops \o Rest, Linked(ops), ops[1].op = "set",
             \A o \in Elems(ops) : /\ o.op \in {"set", "terminate_now", "spawn", "starts", "fork", "first"} /\ o.n = f.n
                                   /\ \A n \in Servers : ~Writes(o, n)
      PROVE  Steady'
  <2>1. \A o \in Elems(ops) :
           /\ o.op \notin {"STARTUP_FIRST", "create", "drop", "down", "terminate_alive", "kill", "del"}
           /\ o.op \notin Ending
    BY <1>5 DEF Ending
  <2>2. ops[1].op \notin {"spawn", "del"}  BY <1>5
  <2>3. \A o \in Elems(ops) :
              /\ o.op \notin {"STARTUP_FIRST", "create", "drop", "down", "terminate_alive", "kill"}
              /\ o.op = "del" => f.op = "drop"
              /\ o.op \in Growth => f.op \in Growth /\ f.n = o.n
              /\ o.op \in Delicate => f.op \in Delicate
              /\ o.op \in Ending => f.op = "drop" /\ Member(o.n) /\ Op("del", o.n) \in Elems(ops)
              /\ \A n \in Servers : ~Writes(o, n)
    BY <1>4, <1>5, <2>1
  <2> QED BY <1>1, <1>4, <1>5, <2>2, <2>3, Programmed
<1> QED BY <1>2, <1>5, RestartLinked

LEMMA DropSteady == Typed /\ Steady /\ Drop => Steady'
<1> SUFFICES ASSUME Typed, Steady, Drop PROVE Steady'
  OBVIOUS
<1> PICK f : f = todo[1]
  OBVIOUS
<1>1. /\ todo # <<>> /\ phase \notin Ended /\ f.op = "drop"
      /\ UNCHANGED <<phase, created, shutting_down, pipe>>
      /\ UNCHANGED <<state, worker_state, proc, record, current, doomed, transient>>
      /\ \E i \in DOMAIN transient : todo' = <<Op("terminate", transient[i]), Op("del", transient[i])>> \o Rest
  BY DEF Drop, Doing, Then, objects, children
<1>2. PICK n \in Servers : Member(n) /\ todo' = <<Op("terminate", n), Op("del", n)>> \o Rest
  <2>1. \A i \in DOMAIN transient : transient[i] \in Servers /\ Member(transient[i])
    BY LenProperties, ElementOfSeq DEF Member, Typed, TypeOK
  <2> QED BY <1>1, <2>1
<1>3. PICK ops : ops = <<Op("terminate", n), Op("del", n)>>
  OBVIOUS
<1>4. /\ ops \in Seq(Ops) /\ Elems(ops) = {Op("terminate", n), Op("del", n)}
      /\ Len(ops) = 2 /\ ops[1] = Op("terminate", n) /\ ops[2] = Op("del", n)
  <2>1. Op("terminate", n) \in Ops /\ Op("del", n) \in Ops  BY OpsAre DEF OneServer
  <2>2. <<Op("terminate", n), Op("del", n)>> \in Seq(Ops)  BY <2>1
  <2>3. Elems(<<Op("terminate", n), Op("del", n)>>) = {Op("terminate", n), Op("del", n)}  BY ElemsOf
  <2> QED BY <1>3, <2>2, <2>3
<1>5. \A op : Op(op, n).op = op /\ Op(op, n).n = n  BY DEF Op
<1>6. Linked(ops)
  <2>1. Follows(ops[2], ops[1])  BY <1>4, <1>5 DEF Follows
  <2>2. ASSUME NEW i \in 1..2, i > 1 PROVE i = 2 /\ i - 1 = 1  BY <2>2
  <2> QED BY <1>4, <2>1, <2>2 DEF Linked
<1>7. phase # "done" /\ f.op \notin Ending /\ f.op \notin {"del", "down", "terminate_now", "put", "set"} /\ f.op \in Delicate
  BY <1>1 DEF Ended, Ending, Delicate
<1>8. \A o \in Elems(ops) :
              /\ o.op \notin {"STARTUP_FIRST", "create", "drop", "down", "terminate_alive", "kill"}
              /\ o.op = "del" => f.op = "drop"
              /\ o.op \in Growth => f.op \in Growth /\ f.n = o.n
              /\ o.op \in Delicate => f.op \in Delicate
              /\ o.op \in Ending => f.op = "drop" /\ Member(o.n) /\ Op("del", o.n) \in Elems(ops)
              /\ \A m \in Servers : ~Writes(o, m)
  BY <1>1, <1>2, <1>4, <1>5, <1>7 DEF Growth, Ending, Writes
<1>9. ops[1].op \notin {"spawn", "del"}  BY <1>4, <1>5
<1>10. todo' = ops \o Rest  BY <1>2, <1>3
<1> HIDE <1>3
<1> QED BY <1>1, <1>4, <1>6, <1>7, <1>8, <1>9, <1>10, Programmed

-----------------------------------------------------------------------------
\* what is kept of the registered servers
LEMMA KeptMembers ==
    ASSUME transient \in Seq(Servers), NEW keep
    PROVE  \A m : (\E k \in DOMAIN Kept(transient, keep) : Kept(transient, keep)[k] = m) <=> Member(m) /\ m \in keep
<1> DEFINE S == {transient[i] : i \in DOMAIN transient}
           kept == Kept(transient, keep)
<1>1. transient \in Seq(S)
  <2>1. DOMAIN transient = 1..Len(transient) /\ Len(transient) \in Nat
        /\ transient = [i \in 1..Len(transient) |-> transient[i]]
    BY LenProperties, SeqDef
  <2>2. transient \in [1..Len(transient) -> S]  BY <2>1
  <2> QED BY <2>1, <2>2, SeqDef
<1>2. /\ kept \in Seq(S \cap keep)
      /\ \A i \in DOMAIN transient : transient[i] \in keep => \E k \in DOMAIN kept : kept[k] = transient[i]
  BY <1>1, KeptOf
<1>3. \A k \in DOMAIN kept : kept[k] \in S \cap keep
  <2>1. \A T : \A s \in Seq(T) : \A k \in DOMAIN s : s[k] \in T  BY LenProperties, ElementOfSeq
  <2> HIDE DEF kept, S
  <2> QED BY <1>2, <2>1
<1> QED BY <1>2, <1>3 DEF Member

\* the next process
LEMMA NextIsNew ==
    ASSUME Typed, Steady, Unspawned # {}
    PROVE  /\ NextPid \in Pids /\ proc[NextPid].phase = "none" /\ record[NextPid].state # "TERMINATED"
           /\ \A n \in Servers : n <= created => current[n] # NextPid
<1>1. NextPid \in Pids /\ proc[NextPid].phase = "none"
  BY NextPidTyped DEF Unspawned
<1> QED BY <1>1 DEF Steady, Known

LEMMA SpawnSteady == Typed /\ Steady /\ Spawn /\ phase' = phase => Steady'
<1> SUFFICES ASSUME Typed, Steady, Spawn, phase' = phase PROVE Steady'
  OBVIOUS
<1> PICK f : f = todo[1]
  OBVIOUS
<1> PICK p : p = NextPid
  OBVIOUS
<1>1. /\ todo # <<>> /\ phase \notin Ended /\ f.op = "spawn" /\ Unspawned # {}
      /\ UNCHANGED <<phase, created, shutting_down, pipe, state, worker_state, record, doomed, transient>>
  BY DEF Spawn, Doing
<1>2. /\ current' = [current EXCEPT ![It] = p]
      /\ proc' = [proc EXCEPT ![p] = [server |-> It, phase |-> "new"]]
      /\ todo' = Rest
  BY <1>1 DEF Spawn, Raise, Proceed, Ended
<1>3. f \in Todo /\ It = f.n /\ f.n \in Servers /\ <<>> \in Seq(Ops) /\ Elems(<<>>) = {} /\ <<>> \o Rest = Rest
  <2>1. "spawn" \in OneServer  BY DEF OneServer
  <2> QED BY <1>1, <2>1, Front
<1>4. p \in Pids /\ proc[p].phase = "none" /\ record[p].state # "TERMINATED" /\ \A n \in Servers : n <= created => current[n] # p
  BY <1>1, NextIsNew
<1>5. /\ \A q \in Pids : q # p => proc'[q] = proc[q]
      /\ proc'[p].server = f.n /\ proc'[p].phase = "new"
      /\ \A n \in Servers : n # f.n => current'[n] = current[n]
      /\ current'[f.n] = p
      /\ \A n \in Servers : current[n] \in Pids
  BY <1>2, <1>3, <1>4 DEF Typed, TypeOK
<1>6. f.op \in Growth /\ DueFor(Growth, f.n) /\ f.n <= created
  <2>1. f.op \in Growth  BY <1>1 DEF Growth
  <2>2. DueFor(Growth, f.n)  BY <1>3, <2>1 DEF DueFor
  <2>3. DueFor(Growth \cup Ending, f.n)  BY <2>2, DueIn
  <2> QED BY <1>3, <2>1, <2>2, <2>3 DEF Steady, Numbered
<1>7. Safe(f.n)
  <2>1. Safe(todo[1].n)  BY <1>1 DEF Steady, InOrder
  <2> QED BY <2>1
<1>8. \A q \in Pids : IsAlive(q)' <=> (q # p /\ IsAlive(q))
  BY <1>5 DEF IsAlive, Alive
<1>9. \A n \in Servers : n <= created /\ n # f.n => (Safe(n)' <=> Safe(n))
  BY <1>1, <1>4, <1>5, <1>8 DEF Safe
<1>10. \A n : Member(n)' <=> Member(n)  BY <1>1 DEF Member
<1>11. \A n \in Servers :
         state'[n] = "TERMINATED" \/ worker_state'[n].state = "TERMINATED"
               \/ (\E q \in Pids : proc'[q].server = n /\ record'[q].state = "TERMINATED")
            => Tainted(n)
  BY <1>1, <1>4, <1>5 DEF Tainted
<1>12. Carried
  <2>1. /\ phase # "done" /\ f.op \notin Ending /\ f.op # "kill" /\ f.op # "del" /\ f.op # "down"
        /\ (shutting_down' <=> (shutting_down \/ f.op = "down"))
    BY <1>1 DEF Ended, Ending
  <2>2. \A n \in Servers :
           /\ Member(n)' => Member(n)
           /\ Member(n) => Member(n)' \/ f.op = "del"
           /\ n <= created /\ Safe(n) => Safe(n)' \/ (f.op \in Growth /\ f.n = n)
           /\ state'[n] = "TERMINATED" \/ worker_state'[n].state = "TERMINATED"
                 \/ (\E q \in Pids : proc'[q].server = n /\ record'[q].state = "TERMINATED")
              => Tainted(n)
    BY <1>6, <1>9, <1>10, <1>11
  <2>3. todo' = <<>> \o Rest  BY <1>2, <1>3
  <2> QED BY <1>1, <1>3, <2>1, <2>2, <2>3, Expanded
<1>13. Known'
  <2>1. \A n \in Servers : n <= created' => proc'[current'[n]].server = n /\ proc'[current'[n]].phase # "none"
    BY <1>1, <1>3, <1>4, <1>5 DEF Steady, Known
  <2>2. \A q \in Pids : proc'[q].phase = "none" => record'[q].state # "TERMINATED"
    BY <1>1, <1>5 DEF Steady, Known
  <2>3. ASSUME NEW q \in Pids, IsAlive(q)', ~doomed'[q]
        PROVE  q = current'[proc'[q].server] /\ Member(proc[q].server)'
    <3>1. q # p /\ IsAlive(q) /\ ~doomed[q] /\ proc'[q] = proc[q]  BY <1>1, <1>5, <1>8, <2>3
    <3>2. q = current[proc[q].server] /\ Member(proc[q].server)  BY <3>1 DEF Steady, Known
    <3>3. proc[q].server # f.n  BY <1>7, <3>1, <3>2 DEF Safe
    <3>4. proc[q].server \in Servers  BY DEF Typed, TypeOK
    <3>5. current'[proc[q].server] = q  BY <1>5, <3>2, <3>3, <3>4
    <3>6. Member(proc[q].server)'
      <4>1. \E i \in DOMAIN transient : transient[i] = proc[q].server  BY <3>2 DEF Member
      <4>2. \E i \in DOMAIN transient' : transient'[i] = proc'[q].server  BY <1>1, <3>1, <4>1
      <4> QED BY <4>2 DEF Member
    <3> QED BY <3>1, <3>5, <3>6
  <2> QED BY <2>1, <2>2, <2>3 DEF Known
<1>14. InOrder'
  <2>1. f.op \notin {"terminate_now", "terminate", "kill"} /\ f.op # "put" /\ f.op # "set"  BY <1>1
  <2>2. Linked(<<>>)  BY <1>3, LinkedNone
  <2>3. todo' = <<>> \o Rest  BY <1>2, <1>3
  <2> QED BY <1>1, <1>3, <2>1, <2>2, <2>3, OrderStays DEF Steady
<1> QED BY <1>1, <1>12, <1>13, <1>14, Whole

LEMMA ForkSteady == Typed /\ Steady /\ Fork => Steady'
<1> SUFFICES ASSUME Typed, Steady, Fork PROVE Steady'
  OBVIOUS
<1> PICK f : f = todo[1]
  OBVIOUS
<1> PICK p : p = current[f.n]
  OBVIOUS
<1>1. /\ todo # <<>> /\ phase \notin Ended /\ f.op = "fork"
      /\ UNCHANGED <<phase, created, shutting_down, pipe, state, worker_state, record, doomed, transient, current>>
      /\ todo' = Rest /\ proc' = [proc EXCEPT ![current[It]].phase = "boot"]
  BY DEF Fork, Doing, Proceed, objects
<1>2. f \in Todo /\ It = f.n /\ f.n \in Servers /\ <<>> \in Seq(Ops) /\ Elems(<<>>) = {} /\ <<>> \o Rest = Rest
  <2>1. "fork" \in OneServer  BY DEF OneServer
  <2> QED BY <1>1, <2>1, Front
<1>3. f.op \in Growth /\ f.n <= created /\ Member(f.n)
  <2>1. f.op \in Growth  BY <1>1 DEF Growth
  <2>2. DueFor(Growth, f.n)  BY <1>2, <2>1 DEF DueFor
  <2>3. DueFor(Growth \cup Ending, f.n)  BY <2>2, DueIn
  <2> QED BY <1>2, <2>1, <2>2, <2>3 DEF Steady, Numbered, Growing
<1>4. p \in Pids /\ proc[p].server = f.n /\ proc[p].phase # "none"
  BY <1>2, <1>3 DEF Typed, TypeOK, Steady, Known
<1>5. /\ \A q \in Pids : q # p => proc'[q] = proc[q]
      /\ \A q \in Pids : proc'[q].server = proc[q].server /\ (proc'[q].phase = "none" <=> proc[q].phase = "none")
      /\ \A n \in Servers : current[n] \in Pids
  <2>1. \A r \in [server : Servers, phase : Alive \cup Gone \cup {"none", "new"}] :
           [r EXCEPT !.phase = "boot"].server = r.server /\ [r EXCEPT !.phase = "boot"].phase = "boot"
    OBVIOUS
  <2>2. proc[p] \in [server : Servers, phase : Alive \cup Gone \cup {"none", "new"}]
    BY <1>4 DEF Typed, TypeOK
  <2>3. proc' = [proc EXCEPT ![p] = [proc[p] EXCEPT !.phase = "boot"]]
    BY <1>1, <1>2
  <2>4. proc'[p] = [proc[p] EXCEPT !.phase = "boot"] /\ \A q \in Pids : q # p => proc'[q] = proc[q]
    BY <1>4, <2>3 DEF Typed, TypeOK
  <2>5. proc'[p].server = proc[p].server /\ proc'[p].phase = "boot"  BY <2>1, <2>2, <2>4
  <2> QED BY <1>4, <2>4, <2>5 DEF Typed, TypeOK
<1>6. \A n \in Servers : n <= created /\ n # f.n => (Safe(n)' <=> Safe(n))
  <2>1. \A n \in Servers : n <= created /\ n # f.n => current[n] # p
    BY <1>4 DEF Steady, Known
  <2>2. \A q \in Pids : q # p => (IsAlive(q)' <=> IsAlive(q))  BY <1>5 DEF IsAlive
  <2>3. \A n \in Servers : current'[n] = current[n] /\ current[n] \in Pids /\ doomed'[current[n]] = doomed[current[n]]
    BY <1>1, <1>5
  <2> QED BY <2>1, <2>2, <2>3 DEF Safe
<1>7. \A n : Member(n)' <=> Member(n)  BY <1>1 DEF Member
<1>8. \A n \in Servers :
         state'[n] = "TERMINATED" \/ worker_state'[n].state = "TERMINATED"
               \/ (\E q \in Pids : proc'[q].server = n /\ record'[q].state = "TERMINATED")
            => Tainted(n)
  BY <1>1, <1>5 DEF Tainted
<1>9. Carried
  <2>1. /\ phase # "done" /\ f.op \notin Ending /\ f.op # "kill" /\ f.op # "del" /\ f.op # "down"
        /\ (shutting_down' <=> (shutting_down \/ f.op = "down"))
    BY <1>1 DEF Ended, Ending
  <2>2. \A n \in Servers :
           /\ Member(n)' => Member(n)
           /\ Member(n) => Member(n)' \/ f.op = "del"
           /\ n <= created /\ Safe(n) => Safe(n)' \/ (f.op \in Growth /\ f.n = n)
           /\ state'[n] = "TERMINATED" \/ worker_state'[n].state = "TERMINATED"
                 \/ (\E q \in Pids : proc'[q].server = n /\ record'[q].state = "TERMINATED")
              => Tainted(n)
    BY <1>3, <1>6, <1>7, <1>8
  <2>3. todo' = <<>> \o Rest  BY <1>1, <1>2
  <2> QED BY <1>1, <1>2, <2>1, <2>2, <2>3, Expanded
<1>10. Known'
  <2>1. \A n \in Servers : n <= created' => proc'[current'[n]].server = n /\ proc'[current'[n]].phase # "none"
    BY <1>1, <1>5 DEF Steady, Known
  <2>2. \A q \in Pids : proc'[q].phase = "none" => record'[q].state # "TERMINATED"
    BY <1>1, <1>5 DEF Steady, Known
  <2>3. ASSUME NEW q \in Pids, IsAlive(q)', ~doomed'[q]
        PROVE  q = current'[proc'[q].server] /\ Member(proc[q].server)'
    <3>1. q = current[proc[q].server] /\ Member(proc[q].server)
      <4>1. CASE q = p  BY <1>3, <1>4, <4>1
      <4>2. CASE q # p
        <5>1. IsAlive(q) /\ ~doomed[q]  BY <1>1, <1>5, <2>3, <4>2 DEF IsAlive
        <5> QED BY <5>1 DEF Steady, Known
      <4> QED BY <4>1, <4>2
    <3>2. proc'[q].server = proc[q].server  BY <1>5
    <3>3. Member(proc[q].server)'
      <4>1. \E i \in DOMAIN transient : transient[i] = proc[q].server  BY <3>1 DEF Member
      <4>2. \E i \in DOMAIN transient' : transient'[i] = proc'[q].server  BY <1>1, <3>2, <4>1
      <4> QED BY <4>2 DEF Member
    <3> QED BY <1>1, <3>1, <3>2, <3>3
  <2> QED BY <2>1, <2>2, <2>3 DEF Known
<1>11. InOrder'
  <2>1. f.op \notin {"terminate_now", "terminate", "kill"} /\ f.op # "put" /\ f.op # "set"  BY <1>1
  <2>2. Linked(<<>>)  BY <1>2, LinkedNone
  <2>3. todo' = <<>> \o Rest  BY <1>1, <1>2
  <2> QED BY <1>1, <1>2, <2>1, <2>2, <2>3, OrderStays DEF Steady
<1> QED BY <1>1, <1>9, <1>10, <1>11, Whole

LEMMA DelSteady == Typed /\ Steady /\ Del => Steady'
<1> SUFFICES ASSUME Typed, Steady, Del PROVE Steady'
  OBVIOUS
<1> PICK f : f = todo[1]
  OBVIOUS
<1>1. /\ todo # <<>> /\ phase \notin Ended /\ f.op = "del"
      /\ UNCHANGED <<phase, created, shutting_down, pipe, state, worker_state, record, doomed, proc, current>>
      /\ todo' = Rest /\ transient' = Kept(transient, Servers \ {It})
  BY DEF Del, Doing, Proceed, objects, children
<1>2. f \in Todo /\ It = f.n /\ f.n \in Servers /\ <<>> \in Seq(Ops) /\ Elems(<<>>) = {} /\ <<>> \o Rest = Rest
  <2>1. "del" \in OneServer  BY DEF OneServer
  <2> QED BY <1>1, <2>1, Front
<1>3. \A m : Member(m)' <=> Member(m) /\ m \in Servers \ {f.n}
  <2>1. transient' = Kept(transient, Servers \ {f.n}) /\ transient \in Seq(Servers)
    BY <1>1, <1>2 DEF Typed, TypeOK
  <2>2. \A m : (\E k \in DOMAIN transient' : transient'[k] = m) <=> Member(m) /\ m \in Servers \ {f.n}
    <3>1. PICK keep : keep = Servers \ {f.n}  OBVIOUS
    <3>2. \A m : (\E k \in DOMAIN Kept(transient, keep) : Kept(transient, keep)[k] = m) <=> Member(m) /\ m \in keep
      BY <2>1, KeptMembers
    <3>3. transient' = Kept(transient, keep)  BY <2>1, <3>1
    <3> QED BY <3>1, <3>2, <3>3
  <2> QED BY <2>2 DEF Member
<1>4. Safe(f.n)
  <2>1. Safe(todo[1].n)  BY <1>1 DEF Steady, InOrder
  <2> QED BY <2>1
<1>5. \A n : Safe(n)' <=> Safe(n)  BY <1>1 DEF Safe, IsAlive
<1>6. \A n \in Servers :
         state'[n] = "TERMINATED" \/ worker_state'[n].state = "TERMINATED"
               \/ (\E q \in Pids : proc'[q].server = n /\ record'[q].state = "TERMINATED")
            => Tainted(n)
  BY <1>1 DEF Tainted
<1>7. Carried
  <2>1. /\ phase # "done" /\ f.op \notin Ending /\ f.op # "kill" /\ f.op # "down"
        /\ (shutting_down' <=> (shutting_down \/ f.op = "down"))
        /\ (f.op = "del" => ~Member(f.n)')
    <3>1. ~Member(f.n)'
      <4>1. ~(\E i \in DOMAIN transient' : transient'[i] = f.n)  BY <1>3 DEF Member
      <4> QED BY <4>1 DEF Member
    <3> QED BY <1>1, <3>1 DEF Ended, Ending
  <2>2. \A n \in Servers :
           /\ Member(n)' => Member(n)
           /\ Member(n) => Member(n)' \/ f.op = "del"
           /\ n <= created /\ Safe(n) => Safe(n)' \/ (f.op \in Growth /\ f.n = n)
           /\ state'[n] = "TERMINATED" \/ worker_state'[n].state = "TERMINATED"
                 \/ (\E q \in Pids : proc'[q].server = n /\ record'[q].state = "TERMINATED")
              => Tainted(n)
    BY <1>1, <1>3, <1>5, <1>6
  <2>3. todo' = <<>> \o Rest  BY <1>1, <1>2
  <2> QED BY <1>1, <1>2, <2>1, <2>2, <2>3, Expanded
<1>8. Known'
  <2>1. ASSUME NEW q \in Pids, IsAlive(q)', ~doomed'[q]
        PROVE  q = current'[proc'[q].server] /\ Member(proc[q].server)'
    <3>1. IsAlive(q) /\ ~doomed[q]  BY <1>1, <2>1 DEF IsAlive
    <3>2. q = current[proc[q].server] /\ Member(proc[q].server)  BY <3>1 DEF Steady, Known
    <3>3. proc[q].server # f.n  BY <1>4, <3>1, <3>2 DEF Safe
    <3>4. proc[q].server \in Servers  BY DEF Typed, TypeOK
    <3>5. \E i \in DOMAIN transient' : transient'[i] = proc[q].server
      <4> PICK m : m = proc[q].server
        OBVIOUS
      <4>1. Member(m)'  BY <1>3, <3>2, <3>3, <3>4
      <4> QED BY <4>1 DEF Member
    <3>6. \E i \in DOMAIN transient' : transient'[i] = proc'[q].server  BY <1>1, <3>5
    <3> QED BY <1>1, <3>2, <3>6 DEF Member
  <2>2. /\ \A n \in Servers : n <= created' => proc'[current'[n]].server = n /\ proc'[current'[n]].phase # "none"
        /\ \A q \in Pids : proc'[q].phase = "none" => record'[q].state # "TERMINATED"
    BY <1>1 DEF Steady, Known
  <2> QED BY <2>1, <2>2 DEF Known
<1>9. InOrder'
  <2>1. f.op \notin {"terminate_now", "terminate", "kill"} /\ f.op # "put" /\ f.op # "set"  BY <1>1
  <2>2. Linked(<<>>)  BY <1>2, LinkedNone
  <2>3. todo' = <<>> \o Rest  BY <1>1, <1>2
  <2> QED BY <1>1, <1>2, <2>1, <2>2, <2>3, OrderStays DEF Steady
<1> QED BY <1>1, <1>7, <1>8, <1>9, Whole

-----------------------------------------------------------------------------
\* a server more: it is not known of before, and nothing is being ended
LEMMA CreateSteady == Typed /\ Steady /\ Create => Steady'
<1> SUFFICES ASSUME Typed, Steady, Create PROVE Steady'
  OBVIOUS
<1> PICK f : f = todo[1]
  OBVIOUS
<1> PICK p : p = NextPid
  OBVIOUS
<1> PICK new : new = created + 1
  OBVIOUS
<1>1. /\ todo # <<>> /\ phase \notin Ended /\ f.op = "create" /\ Unspawned # {} /\ created < MaxServers
      /\ UNCHANGED <<phase, shutting_down, pipe, state, worker_state, record, doomed>>
      /\ created' = new /\ transient' = Append(transient, new)
      /\ current' = [current EXCEPT ![new] = p]
      /\ proc' = [proc EXCEPT ![p] = [server |-> new, phase |-> "new"]]
      /\ todo' = Start(new) \o Rest
  BY DEF Create, Doing, Then
<1>2. /\ new \in Servers /\ created \in Servers /\ new = created + 1
      /\ \A n \in Servers : (n <= new <=> n <= created \/ n = new) /\ (n <= created => n # new)
  <2>1. MaxServers \in Nat /\ created \in Servers  BY ManagerAssumption DEF Typed, TypeOK
  <2>2. created \in 1..MaxServers /\ created < MaxServers /\ new = created + 1  BY <1>1, <2>1 DEF Servers
  <2>3. new \in 1..MaxServers /\ \A n \in 1..MaxServers : (n <= new <=> n <= created \/ n = new) /\ (n <= created => n # new)
    BY <2>1, <2>2
  <2> QED BY <2>1, <2>2, <2>3 DEF Servers
<1>3. f \in Todo /\ Elems(Rest) \subseteq Todo
  BY <1>1, Front
<1>4. p \in Pids /\ proc[p].phase = "none" /\ record[p].state # "TERMINATED" /\ \A n \in Servers : n <= created => current[n] # p
  BY <1>1, NextIsNew
<1>5. /\ \A q \in Pids : q # p => proc'[q] = proc[q]
      /\ proc'[p].server = new /\ proc'[p].phase = "new"
      /\ \A n \in Servers : n # new => current'[n] = current[n]
      /\ current'[new] = p
      /\ \A n \in Servers : current[n] \in Pids
  BY <1>1, <1>2, <1>4 DEF Typed, TypeOK
<1>6. MaxSignals = 0 /\ phase \in {"start", "monitor"} /\ ~shutting_down /\ ~Due(Shrink) /\ ~Due({"STARTUP_FIRST"})
  <2>1. Due(Delicate) /\ Due(Growth \cup {"create"})  BY <1>1, <1>3 DEF Due, Delicate
  <2> QED BY <2>1 DEF Steady, Growing
<1>7. ~Member(new) /\ ~Tainted(new) /\ ~DueFor(Growth, new) /\ ~DueFor(Ending, new)
  <2>1. ~(new <= created)  BY <1>2 DEF Servers
  <2>2. DueFor(Growth, new) \/ DueFor(Ending, new) => DueFor(Growth \cup Ending, new)  BY DueIn
  <2> QED BY <1>2, <2>1, <2>2 DEF Steady, Numbered
<1>8. \A m : Member(m)' <=> Member(m) \/ m = new
  <2>1. transient \in Seq(Servers)  BY DEF Typed, TypeOK
  <2>2. /\ Len(transient) \in Nat /\ DOMAIN transient = 1..Len(transient)
        /\ DOMAIN transient' = 1..(Len(transient) + 1)
        /\ \A i \in 1..Len(transient) : transient'[i] = transient[i]
        /\ transient'[Len(transient) + 1] = new
    <3>1. /\ transient' \in Seq(Servers) /\ Len(transient') = Len(transient) + 1
          /\ \A i \in 1..Len(transient) : transient'[i] = transient[i]
          /\ transient'[Len(transient) + 1] = new
      BY <1>1, <1>2, <2>1, AppendProperties
    <3> QED BY <2>1, <3>1, LenProperties
  <2>3. \A i \in 1..(Len(transient) + 1) : i \in 1..Len(transient) \/ i = Len(transient) + 1
    BY <2>2
  <2>4. Len(transient) + 1 \in 1..(Len(transient) + 1) /\ 1..Len(transient) \subseteq 1..(Len(transient) + 1)
    BY <2>2
  <2>5. \A m : (\E i \in DOMAIN transient' : transient'[i] = m) <=> (\E i \in DOMAIN transient : transient[i] = m) \/ m = new
    BY <2>2, <2>3, <2>4
  <2> QED BY <2>5 DEF Member
<1>9. /\ Start(new) \in Seq(Ops)
      /\ \A o \in Elems(Start(new)) :
            o.op \in {"set", "fork", "first"} /\ o.n = new /\ \A n \in Servers : ~Writes(o, n)
  BY <1>2, ProgramsTyped, ElemsOfPrograms DEF Op, Writes
<1>10. \A o \in Todo' : \/ o \in Todo
                        \/ o.op \in {"set", "fork", "first"} /\ o.n = new /\ \A n \in Servers : ~Writes(o, n)
  <2>1. Todo' = Elems(Start(new)) \cup Elems(Rest)  BY <1>1, <1>9, DueAfter DEF Typed
  <2> QED BY <1>3, <1>9, <2>1
<1>11. \A o : o.op \in {"set", "fork", "first"} =>
          o.op \notin Shrink /\ o.op \notin Ending /\ o.op \notin {"STARTUP_FIRST", "down", "terminate_alive", "terminate", "kill"}
  BY DEF Shrink, Ending
<1>12. ~Due(Shrink)' /\ ~Due({"STARTUP_FIRST"})' /\ ~Due({"down"})' /\ ~Due({"down", "terminate_alive"})'
  <2>1. {"down", "terminate_alive"} \subseteq Shrink  BY DEF Shrink, Ending
  <2> QED BY <1>6, <1>10, <1>11, <2>1 DEF Due
<1>13. \A n \in Servers : /\ DueFor(Growth, n)' => DueFor(Growth, n) \/ n = new
                          /\ DueFor(Ending, n)' => DueFor(Ending, n)
                          /\ ~DueFor({"terminate"}, n)' /\ ~DueFor({"kill"}, n)
  <2>1. "terminate" \in Shrink /\ "kill" \in Shrink  BY DEF Shrink, Ending
  <2>2. \A n \in Servers : DueFor(Growth, n)' => DueFor(Growth, n) \/ n = new  BY <1>10 DEF DueFor
  <2>3. \A n \in Servers : DueFor(Ending, n)' => DueFor(Ending, n)  BY <1>10, <1>11 DEF DueFor
  <2>4. \A n \in Servers : ~DueFor({"terminate"}, n)' /\ ~DueFor({"kill"}, n)
    BY <1>6, <1>12, <2>1 DEF DueFor, Due
  <2> QED BY <2>2, <2>3, <2>4
<1>14. \A n \in Servers : Tainted(n)' => Tainted(n) /\ n # new
  <2>1. \A n \in Servers : Tainted(n)' => Tainted(n)
    <3> SUFFICES ASSUME NEW n \in Servers, Tainted(n)' PROVE Tainted(n)
      OBVIOUS
    <3>1. CASE state'[n] = "TERMINATED" \/ worker_state'[n].state = "TERMINATED"
      BY <1>1, <3>1 DEF Tainted
    <3>2. CASE \E q \in Pids : proc'[q].server = n /\ record'[q].state = "TERMINATED"
      BY <1>1, <1>4, <1>5, <3>2 DEF Tainted
    <3>3. CASE \E o \in Todo' : Writes(o, n)
      BY <1>10, <3>3 DEF Tainted
    <3> QED BY <3>1, <3>2, <3>3 DEF Tainted, Writes
  <2> QED BY <1>7, <2>1
<1>15. \A q \in Pids : IsAlive(q)' <=> (q # p /\ IsAlive(q))
  BY <1>5 DEF IsAlive, Alive
<1>16. \A n \in Servers : n <= created => (Safe(n)' <=> Safe(n))
  BY <1>1, <1>2, <1>4, <1>5, <1>15 DEF Safe
<1>17. Growing'
  <2>1. \A n \in Servers : DueFor(Growth, n)' => Member(n)' /\ ~Tainted(n)'
    BY <1>8, <1>13, <1>14 DEF Steady, Growing
  <2> QED BY <1>1, <1>6, <1>12, <2>1 DEF Growing
<1>18. Numbered'
  <2>1. \A n \in Servers : DueFor(Growth \cup Ending, n)' => DueFor(Growth, n)' \/ DueFor(Ending, n)'
    BY DEF DueFor
  <2>2. \A n \in Servers : DueFor(Growth, n) \/ DueFor(Ending, n) => DueFor(Growth \cup Ending, n)
    BY DueIn
  <2>3. ASSUME NEW n \in Servers, Member(n)' \/ Tainted(n)' \/ DueFor(Growth \cup Ending, n)'
        PROVE  n <= created'
    <3>1. n = new \/ Member(n) \/ Tainted(n) \/ DueFor(Growth \cup Ending, n)
      BY <1>8, <1>13, <1>14, <2>1, <2>2, <2>3
    <3>2. n = new \/ n <= created  BY <3>1 DEF Steady, Numbered
    <3> QED BY <1>1, <1>2, <3>2
  <2> QED BY <2>3 DEF Numbered
<1>19. Stopped'
  <2>1. \A n \in Servers : Tainted(n)' => Safe(n)'
    <3> SUFFICES ASSUME NEW n \in Servers, Tainted(n)' PROVE Safe(n)'
      OBVIOUS
    <3>1. Tainted(n) /\ n <= created  BY <1>14 DEF Steady, Numbered
    <3>2. Safe(n)  BY <1>6, <1>13, <3>1 DEF Steady, Stopped
    <3> QED BY <1>16, <3>1, <3>2
  <2>2. \A n \in Servers : ~(Member(n)' /\ (Tainted(n)' \/ DueFor({"terminate"}, n)'))
    <3> SUFFICES ASSUME NEW n \in Servers, Member(n)', Tainted(n)' PROVE FALSE
      BY <1>13
    <3>1. Member(n) /\ Tainted(n)  BY <1>8, <1>14
    <3>2. DueFor({"del"}, n)  BY <1>6, <3>1 DEF Steady, Stopped
    <3>3. Due(Shrink)  BY <3>2, DueIn
    <3> QED BY <1>6, <3>3
  <2>3. ~shutting_down' /\ phase' \in {"start", "monitor"}  BY <1>1, <1>6
  <2> QED BY <1>12, <2>1, <2>2, <2>3 DEF Stopped
<1>20. Known'
  <2>1. \A n \in Servers : n <= created' => proc'[current'[n]].server = n /\ proc'[current'[n]].phase # "none"
    BY <1>1, <1>2, <1>4, <1>5 DEF Steady, Known
  <2>2. \A q \in Pids : proc'[q].phase = "none" => record'[q].state # "TERMINATED"
    BY <1>1, <1>5 DEF Steady, Known
  <2>3. ASSUME NEW q \in Pids, IsAlive(q)', ~doomed'[q]
        PROVE  q = current'[proc'[q].server] /\ Member(proc[q].server)'
    <3>1. q # p /\ IsAlive(q) /\ ~doomed[q] /\ proc'[q] = proc[q]  BY <1>1, <1>5, <1>15, <2>3
    <3>2. q = current[proc[q].server] /\ Member(proc[q].server)  BY <3>1 DEF Steady, Known
    <3>3. PICK m : m = proc[q].server  OBVIOUS
    <3>4. m \in Servers /\ Member(m) /\ q = current[m] /\ proc'[q].server = m
      BY <3>1, <3>2, <3>3 DEF Typed, TypeOK
    <3>5. m # new  BY <1>7, <3>4
    <3>6. current'[m] = q /\ Member(m)'  BY <1>5, <1>8, <3>4, <3>5
    <3>7. \E i \in DOMAIN transient' : transient'[i] = proc'[q].server  BY <3>4, <3>6 DEF Member
    <3> QED BY <3>4, <3>6, <3>7 DEF Member
  <2> QED BY <2>1, <2>2, <2>3 DEF Known
<1>21. InOrder'
  <2>1. ASSUME NEW ops \in Seq(Ops), todo' = ops \o Rest,
               \A o \in Elems(ops) : o.op \in {"set", "fork", "first"}
        PROVE  InOrder'
    <3>1. f.op \notin {"terminate_now", "terminate", "kill"} /\ f.op # "put" /\ f.op # "set"  BY <1>1
    <3>2. Linked(ops)  BY <2>1, LinkedNone
    <3>3. ops # <<>> => ops[1] \in Elems(ops)  BY ElemsOf
    <3>4. ops # <<>> => ops[1].op \notin {"spawn", "del"}  BY <2>1, <3>3
    <3>5. \A o \in Elems(ops) : o.op # "kill"  BY <2>1
    <3> QED BY <1>1, <2>1, <3>1, <3>2, <3>4, <3>5, OrderStays DEF Steady
  <2>2. \A o \in Elems(Start(new)) : o.op \in {"set", "fork", "first"}  BY <1>9
  <2> QED BY <1>1, <1>9, <2>1, <2>2
<1>22. Sent'
  <2>1. ~(shutting_down \/ Due({"down"}))  BY <1>6, DueIn
  <2>2. Elems(pipe') \subseteq Elems(pipe) /\ phase \notin {"crashed", "killed"}  BY <1>1 DEF Ended
  <2> QED BY <2>1, <2>2, SentKept DEF Steady
<1> QED BY <1>17, <1>18, <1>19, <1>20, <1>21, <1>22 DEF Steady

LEMMA OperationSteady == Typed /\ Steady /\ (Operation \/ StartOne \/ RestartOne) => Steady'
<1> SUFFICES ASSUME Typed, Steady, Operation \/ StartOne \/ RestartOne PROVE Steady'
  OBVIOUS
<1>1. CASE Plainly  BY <1>1, PlainlySteady
<1>2. CASE Set
  <2>1. CASE phase' = phase  BY <1>1, <1>2, <2>1 DEF Plainly
  <2>2. CASE phase' # phase  BY <1>2, <2>2, RaiseSteady
  <2> QED BY <2>1, <2>2
<1>3. CASE Spawn
  <2>1. CASE phase' = phase  BY <1>3, <2>1, SpawnSteady
  <2>2. CASE phase' # phase  BY <1>3, <2>2, RaiseSteady
  <2> QED BY <2>1, <2>2
<1>4. CASE TerminateIt  BY <1>4, TerminateItSteady
<1>5. CASE TerminateAlive  BY <1>5, TerminateAliveSteady
<1>6. CASE Kill  BY <1>6, KillSteady
<1>7. CASE Fork  BY <1>7, ForkSteady
<1>8. CASE Create  BY <1>8, CreateSteady
<1>9. CASE Drop  BY <1>9, DropSteady
<1>10. CASE Del  BY <1>10, DelSteady
<1>11. CASE StartOne  BY <1>11, StartOneSteady
<1>12. CASE RestartOne  BY <1>12, RestartOneSteady
<1> QED BY <1>1, <1>2, <1>3, <1>4, <1>5, <1>6, <1>7, <1>8, <1>9, <1>10, <1>11, <1>12 DEF Operation, Plainly

-----------------------------------------------------------------------------
\* A step of run() itself: nothing was due before it.
Late == {"join", "terminate", "cleanup", "done"}

LEMMA NothingDue ==
    todo = <<>> => Todo = {} /\ (\A ops : ~Due(ops)) /\ (\A ops, n : ~DueFor(ops, n))
<1> SUFFICES ASSUME todo = <<>> PROVE Todo = {} /\ (\A ops : ~Due(ops)) /\ (\A ops, n : ~DueFor(ops, n))
  OBVIOUS
<1>1. Todo = {}  BY ElemsOf DEF Todo
<1> QED BY <1>1 DEF Due, DueFor

LEMMA Moved ==
    ASSUME Typed, Typed', Steady, todo = <<>>, phase \notin Ended,
           UNCHANGED <<shutting_down, created, transient, state, current, worker_state, proc, record, doomed>>,
           Elems(pipe') \subseteq Elems(pipe),
           phase' \in {"ack", "monitor"} \cup Late,
           phase' \notin Late => phase \in {"start", "ack", "monitor"},
           phase' \in Late => shutting_down \/ Due({"down"})',
           phase' = "done" => todo' = <<>>,
           \A o \in Todo' :
              /\ o.op \notin {"STARTUP_FIRST", "spawn", "del", "kill", "start", "terminate_now", "fork", "terminate"}
              /\ \A n \in Servers : ~Writes(o, n)
              /\ o.op \in {"SHUTDOWN_FIRST", "create", "drop"} => MaxSignals = 0 /\ phase' = "monitor"
              /\ o.op \in {"SHUTDOWN_FIRST", "terminate_alive"} => Member(o.n)
              /\ o.op \in {"terminate_alive", "down"} => phase' \in Late,
           Due({"SHUTDOWN_FIRST", "create"})' => ~Due({"drop"})',
           Due({"down"})' => \A n \in Servers : Member(n) => Safe(n) \/ DueFor({"terminate_alive"}, n)'
    PROVE  Steady'
<1>0. /\ Growth = {"start", "SHUTDOWN_FIRST", "terminate_now", "spawn", "fork"}
      /\ Ending = {"terminate_alive", "terminate", "kill"}
      /\ Shrink = {"terminate_alive", "terminate", "kill", "drop", "del", "down"}
      /\ Delicate = {"SHUTDOWN_FIRST", "terminate_now", "spawn", "create", "drop", "del"}
      /\ Late = {"join", "terminate", "cleanup", "done"}
      /\ Ended = {"done", "killed", "crashed"}
  BY DEF Growth, Ending, Shrink, Delicate, Late, Ended
<1>1. (\A ops : ~Due(ops)) /\ (\A ops, n : ~DueFor(ops, n)) /\ Todo = {}
  BY NothingDue
<1>2. /\ \A n : Member(n)' <=> Member(n)
      /\ \A n \in Servers : Safe(n)' <=> Safe(n)
      /\ \A p \in Pids : IsAlive(p)' => IsAlive(p)
  BY DEF Member, Safe, IsAlive
<1>3. \A n \in Servers : Tainted(n)' => Tainted(n)
  <2> SUFFICES ASSUME NEW n \in Servers, Tainted(n)' PROVE Tainted(n)
    OBVIOUS
  <2>1. ~(\E o \in Todo' : Writes(o, n))  OBVIOUS
  <2> QED BY <2>1 DEF Tainted, Writes
<1>4. \A n \in Servers : Tainted(n) => Safe(n)
  BY <1>0, <1>1 DEF Steady, Stopped
<1>5. MaxSignals = 0 /\ phase' \notin Late => ~shutting_down /\ \A n \in Servers : ~(Member(n) /\ Tainted(n))
  BY <1>1 DEF Steady, Stopped
<1>6. \A n \in Servers : /\ DueFor(Growth, n)' => Member(n) /\ Due({"SHUTDOWN_FIRST", "create"})'
                         /\ DueFor(Ending, n)' => Member(n)
                         /\ ~DueFor({"terminate"}, n)'
                         /\ DueFor({"terminate_alive"}, n)' => DueFor(Ending, n)'
                         /\ DueFor(Growth \cup Ending, n)' => DueFor(Growth, n)' \/ DueFor(Ending, n)'
  BY <1>0 DEF DueFor, Due
<1>7. /\ Due(Growth \cup {"create"})' => Due({"SHUTDOWN_FIRST", "create"})'
      /\ Due({"SHUTDOWN_FIRST", "create"})' => MaxSignals = 0 /\ phase' = "monitor"
      /\ Due(Delicate)' => MaxSignals = 0
      /\ ~Due({"STARTUP_FIRST"})'
      /\ Due({"down", "terminate_alive"})' => phase' \in Late
      /\ Due(Shrink)' => Due({"drop"})' \/ phase' \in Late
      /\ Due({"down"})' => phase' \in Late
  BY <1>0 DEF Due
<1>8. Growing'
  <2>1. Due(Growth \cup {"create"})' => phase' = "monitor" /\ MaxSignals = 0 /\ ~shutting_down' /\ ~Due(Shrink)'
    BY <1>0, <1>5, <1>7
  <2>2. ASSUME NEW n \in Servers, DueFor(Growth, n)' PROVE Member(n)' /\ ~Tainted(n)'
    BY <1>0, <1>2, <1>3, <1>5, <1>6, <1>7, <2>2
  <2>3. phase' # "start"  BY <1>0
  <2> QED BY <1>7, <2>1, <2>2, <2>3 DEF Growing
<1>9. Numbered'
  BY <1>2, <1>3, <1>6 DEF Numbered, Steady
<1>10. Known'  BY <1>2, KnownStays DEF Steady
<1>11. Stopped'
  <2>1. \A n \in Servers : Tainted(n)' => Safe(n)'  BY <1>2, <1>3, <1>4
  <2>2. MaxSignals = 0 /\ phase' \in {"start", "ack", "monitor"} =>
          /\ ~shutting_down' /\ ~Due({"down", "terminate_alive"})'
          /\ \A n \in Servers : ~(Member(n)' /\ (Tainted(n)' \/ DueFor({"terminate"}, n)'))
    BY <1>0, <1>2, <1>3, <1>5, <1>6, <1>7
  <2>3. phase' \in {"join", "terminate", "cleanup", "done"} => shutting_down' \/ Due({"down"})'
    BY <1>0
  <2>4. ASSUME shutting_down' \/ Due({"down"})', NEW n \in Servers, Member(n)' PROVE Safe(n)' \/ DueFor(Ending, n)'
    <3>1. CASE shutting_down
      BY <1>0, <1>1, <1>2, <2>4, <3>1 DEF Steady, Stopped
    <3>2. CASE Due({"down"})'
      BY <1>2, <1>6, <2>4, <3>2
    <3> QED BY <2>4, <3>1, <3>2
  <2> QED BY <2>1, <2>2, <2>3, <2>4 DEF Stopped
<1>12. InOrder'  BY OrderOf DEF Typed
<1>13. Sent'
  <2>1. phase \notin {"crashed", "killed"}  BY <1>0
  <2>2. (shutting_down \/ Due({"down"})) => (shutting_down' \/ Due({"down"})')  BY <1>1
  <2> QED BY <2>1, <2>2, SentKept DEF Steady
<1> QED BY <1>8, <1>9, <1>10, <1>11, <1>12, <1>13 DEF Steady

LEMMA PipeTail ==
    ASSUME Typed, pipe # <<>>
    PROVE  /\ pipe[1] \in Elems(pipe) /\ Elems(Tail(pipe)) \subseteq Elems(pipe)
           /\ Elems(Append(Tail(pipe), pipe[1])) \subseteq Elems(pipe)
           /\ pipe[1] \in Messages
<1>1. pipe \in Seq(Messages)  BY DEF Typed
<1>2. Elems(pipe) = {pipe[1]} \cup Elems(Tail(pipe))  BY <1>1, ElemsOf
<1>3. Tail(pipe) \in Seq(Messages) /\ pipe[1] \in Messages
  BY <1>1, HeadTailProperties, EmptySeq, ElementOfSeq
<1>4. Elems(Append(Tail(pipe), pipe[1])) \subseteq Elems(pipe)
  <2>1. /\ Len(Append(Tail(pipe), pipe[1])) = Len(Tail(pipe)) + 1 /\ Len(Tail(pipe)) \in Nat
        /\ \A i \in 1..Len(Tail(pipe)) : Append(Tail(pipe), pipe[1])[i] = Tail(pipe)[i]
        /\ Append(Tail(pipe), pipe[1])[Len(Tail(pipe)) + 1] = pipe[1]
        /\ DOMAIN Append(Tail(pipe), pipe[1]) = 1..(Len(Tail(pipe)) + 1)
        /\ DOMAIN Tail(pipe) = 1..Len(Tail(pipe))
    BY <1>3, AppendProperties, LenProperties
  <2>2. ASSUME NEW i \in 1..(Len(Tail(pipe)) + 1) PROVE Append(Tail(pipe), pipe[1])[i] \in Elems(pipe)
    <3>1. CASE i \in 1..Len(Tail(pipe))
      <4>1. Tail(pipe)[i] \in Elems(Tail(pipe))  BY <2>1, <3>1 DEF Elems
      <4> QED BY <1>2, <2>1, <3>1, <4>1
    <3>2. CASE i = Len(Tail(pipe)) + 1  BY <1>2, <2>1, <3>2
    <3> QED BY <2>1, <2>2, <3>1, <3>2
  <2> QED BY <2>1, <2>2 DEF Elems
<1> QED BY <1>2, <1>3, <1>4

\* what is asked of the servers with a process, or of all
LEMMA DueOfEach ==
    ASSUME Typed, NEW op \in OneServer, NEW keep
    PROVE  /\ \A o \in Elems(Each(op, Kept(transient, keep))) : o.op = op /\ o.n \in Servers /\ Member(o.n)
           /\ \A n \in Servers : Member(n) /\ n \in keep => Op(op, n) \in Elems(Each(op, Kept(transient, keep)))
           /\ Each(op, Kept(transient, keep)) \in Seq(Ops)
<1> DEFINE kept == Kept(transient, keep)
<1>1. transient \in Seq(Servers)  BY DEF Typed, TypeOK
<1>2. kept \in Seq(Servers)  BY <1>1, ProcessesTyped
<1>3. \A m : (\E k \in DOMAIN kept : kept[k] = m) <=> Member(m) /\ m \in keep
  BY <1>1, KeptMembers
<1>4. \A op2, n : Op(op2, n).op = op2 /\ Op(op2, n).n = n  BY DEF Op
<1>5. \A k \in DOMAIN kept : kept[k] \in Servers
  BY <1>2, LenProperties, ElementOfSeq
<1>6. Each(op, kept) \in Seq(Ops)  BY <1>2, EachTyped
<1> HIDE DEF kept
<1>7. Elems(Each(op, kept)) = {Op(op, kept[k]) : k \in DOMAIN kept}
  BY DEF Elems, Each
<1>8. \A o \in Elems(Each(op, kept)) : o.op = op /\ o.n \in Servers /\ Member(o.n)
  BY <1>3, <1>4, <1>5, <1>7
<1>9. \A n \in Servers : Member(n) /\ n \in keep => Op(op, n) \in Elems(Each(op, kept))
  BY <1>3, <1>7
<1> QED BY <1>6, <1>8, <1>9 DEF kept

LEMMA ProcessesDue ==
    ASSUME Typed, NEW op \in OneServer
    PROVE  /\ \A o \in Elems(Each(op, Processes)) : o.op = op /\ o.n \in Servers /\ Member(o.n)
           /\ \A n \in Servers : Member(n) => Safe(n) \/ Op(op, n) \in Elems(Each(op, Processes))
           /\ Each(op, Processes) \in Seq(Ops)
<1>1. PICK keep : keep = {n \in Servers : HasPid(n)}
  OBVIOUS
<1>2. Processes = Kept(transient, keep)  BY <1>1 DEF Processes
<1>3. \A n \in Servers : n \notin keep => Safe(n)
  BY <1>1 DEF HasPid, Safe, IsAlive, Alive
<1> QED BY <1>2, <1>3, DueOfEach

LEMMA ShutdownDue ==
    ASSUME Typed
    PROVE  /\ Shutdown \in Seq(Ops)
           /\ \A o \in Elems(Shutdown) : o.op = "down" \/ (o.op = "terminate_alive" /\ o.n \in Servers /\ Member(o.n))
           /\ \A o \in Elems(Shutdown) : \A n \in Servers : ~Writes(o, n)
           /\ \E o \in Elems(Shutdown) : o.op = "down"
           /\ \A n \in Servers : Member(n) => Safe(n) \/ \E o \in Elems(Shutdown) : o.op = "terminate_alive" /\ o.n = n
           /\ Linked(Shutdown) /\ Shutdown # <<>> /\ Shutdown[Len(Shutdown)].op = "down"
<1>1. "terminate_alive" \in OneServer  BY DEF OneServer
<1>2. <<Op("down", 0)>> \in Seq(Ops) /\ Elems(<<Op("down", 0)>>) = {Op("down", 0)}
  BY OpsAre, One, ElemsOf
<1>3. Elems(Shutdown) = Elems(Each("terminate_alive", Processes)) \cup {Op("down", 0)} /\ Shutdown \in Seq(Ops)
  <2> DEFINE e == Each("terminate_alive", Processes)
             d == <<Op("down", 0)>>
  <2>1. e \in Seq(Ops)  BY <1>1, ProcessesDue
  <2>2. d \in Seq(Ops) /\ Elems(d) = {Op("down", 0)}  BY <1>2
  <2>3. Shutdown = e \o d  BY DEF Shutdown
  <2> HIDE DEF e, d
  <2>4. e \o d \in Seq(Ops) /\ Elems(e \o d) = Elems(e) \cup Elems(d)  BY <2>1, <2>2, OpsElems
  <2>5. Shutdown \in Seq(Ops) /\ Elems(Shutdown) = Elems(e) \cup {Op("down", 0)}  BY <2>2, <2>3, <2>4
  <2> QED BY <2>5 DEF e
<1>4. \A op, n : Op(op, n).op = op /\ Op(op, n).n = n  BY DEF Op
<1>5. \A o \in Elems(Shutdown) : o.op = "down" \/ (o.op = "terminate_alive" /\ o.n \in Servers /\ Member(o.n))
  BY <1>1, <1>3, <1>4, ProcessesDue
<1>6. \A o \in Elems(Shutdown) : \A n \in Servers : ~Writes(o, n)  BY <1>5 DEF Writes
<1>7. \E o \in Elems(Shutdown) : o.op = "down"  BY <1>3, <1>4
<1>8. \A n \in Servers : Member(n) => Safe(n) \/ \E o \in Elems(Shutdown) : o.op = "terminate_alive" /\ o.n = n
  BY <1>1, <1>3, <1>4, ProcessesDue
<1>9. Linked(Shutdown)  BY <1>3, <1>5, LinkedNone
<1>10. Shutdown # <<>> /\ Shutdown[Len(Shutdown)].op = "down"
  <2> DEFINE e == Each("terminate_alive", Processes)
  <2>1. e \in Seq(Ops)  BY <1>1, ProcessesDue
  <2> HIDE DEF e
  <2>2. /\ Len(e) \in Nat /\ Len(e \o <<Op("down", 0)>>) = Len(e) + 1
        /\ (e \o <<Op("down", 0)>>)[Len(e) + 1] = Op("down", 0)
    <3>1. Len(<<Op("down", 0)>>) = 1 /\ <<Op("down", 0)>>[1] = Op("down", 0)  OBVIOUS
    <3>2. /\ Len(e) \in Nat /\ Len(e \o <<Op("down", 0)>>) = Len(e) + Len(<<Op("down", 0)>>)
          /\ \A i \in 1..(Len(e) + Len(<<Op("down", 0)>>)) :
                (e \o <<Op("down", 0)>>)[i] = IF i <= Len(e) THEN e[i] ELSE <<Op("down", 0)>>[i - Len(e)]
      BY <1>2, <2>1, ConcatProperties, LenProperties
    <3>3. Len(e) + 1 \in 1..(Len(e) + 1) /\ ~(Len(e) + 1 <= Len(e)) /\ (Len(e) + 1) - Len(e) = 1  BY <3>2
    <3> QED BY <3>1, <3>2, <3>3
  <2>3. Shutdown = e \o <<Op("down", 0)>>  BY DEF Shutdown, e
  <2>4. Len(Shutdown) # 0 /\ Shutdown[Len(Shutdown)].op = "down"  BY <1>4, <2>2, <2>3
  <2> QED BY <1>3, <2>4, EmptySeq
<1> QED BY <1>3, <1>5, <1>6, <1>7, <1>8, <1>9, <1>10

-----------------------------------------------------------------------------
Apart == UNCHANGED <<shutting_down, created, transient, state, current, worker_state, proc, record, doomed>>

LEMMA MovedOn ==
    ASSUME Typed, Typed', Steady, todo = <<>>, phase \notin Ended, Apart,
           Elems(pipe') \subseteq Elems(pipe),
           phase' \in {"ack", "monitor"} \cup Late,
           phase' \notin Late => phase \in {"start", "ack", "monitor"},
           phase' \in Late => shutting_down,
           phase' = "done" => todo' = <<>>,
           \A o \in Todo' : o.op \in {"sync", "set", "wait", "exit"} /\ \A n \in Servers : ~Writes(o, n)
    PROVE  Steady'
<1>1. \A o \in Todo' :
        /\ o.op \notin {"STARTUP_FIRST", "spawn", "del", "kill", "start", "terminate_now", "fork", "terminate"}
        /\ \A n \in Servers : ~Writes(o, n)
        /\ o.op \in {"SHUTDOWN_FIRST", "create", "drop"} => MaxSignals = 0 /\ phase' = "monitor"
        /\ o.op \in {"SHUTDOWN_FIRST", "terminate_alive"} => Member(o.n)
        /\ o.op \in {"terminate_alive", "down"} => phase' \in Late
  OBVIOUS
<1>2. ~Due({"down"})' /\ ~Due({"drop"})'  BY DEF Due
<1>3. UNCHANGED <<shutting_down, created, transient, state, current, worker_state, proc, record, doomed>>
  BY DEF Apart
<1> QED BY <1>1, <1>2, <1>3, Moved

LEMMA LateIsDown == Steady /\ todo = <<>> /\ phase \in Late => shutting_down
BY NothingDue DEF Steady, Stopped, Late

LEMMA TurnSteady ==
    Typed /\ Typed' /\ Steady /\ (Started \/ AckDone \/ AckRequeue \/ PollNone \/ CleanedUp) => Steady'
<1> SUFFICES ASSUME Typed, Typed', Steady, Started \/ AckDone \/ AckRequeue \/ PollNone \/ CleanedUp PROVE Steady'
  OBVIOUS
<1>1. /\ todo = <<>> /\ todo' = <<>> /\ phase \in {"start", "ack", "monitor", "cleanup"} /\ Apart
      /\ Elems(pipe') \subseteq Elems(pipe)
      /\ \/ phase = "start" /\ phase' = "ack"
         \/ phase = "ack" /\ phase' \in {"ack", "monitor"}
         \/ phase = "monitor" /\ phase' = "join" /\ PollNone
         \/ phase = "cleanup" /\ phase' = "done"
  <2>1. CASE Started  BY <2>1 DEF Started, Free, objects, children, Apart
  <2>2. CASE AckDone  BY <2>2 DEF AckDone, Free, objects, children, Apart
  <2>3. CASE AckRequeue  BY <2>3, PipeTail DEF AckRequeue, Free, manager, objects, children, Apart
  <2>4. CASE PollNone  BY <2>4, PipeTail DEF PollNone, Receive, Free, objects, children, Apart
  <2>5. CASE CleanedUp  BY <2>5 DEF CleanedUp, Free, objects, children, Apart
  <2> QED BY <2>1, <2>2, <2>3, <2>4, <2>5
<1>2. phase \notin Ended /\ Late = {"join", "terminate", "cleanup", "done"}  BY <1>1 DEF Ended, Late
<1>3. PollNone => shutting_down
  <2> SUFFICES ASSUME PollNone PROVE shutting_down
    OBVIOUS
  <2>1. pipe[1] \in Elems(pipe) /\ pipe[1].type = "none" /\ phase = "monitor"
    BY PipeTail DEF PollNone, Receive, Free
  <2>2. ~Due({"down"})  BY <1>1, NothingDue
  <2> QED BY <2>1, <2>2 DEF Steady, Sent
<1>4. phase = "cleanup" => shutting_down  BY <1>1, <1>2, LateIsDown
<1>5. Todo' = {}  BY <1>1, ElemsOf DEF Todo
<1>6. /\ phase' \in {"ack", "monitor"} \cup Late
      /\ phase' \notin Late => phase \in {"start", "ack", "monitor"}
      /\ phase' \in Late => shutting_down
  BY <1>1, <1>2, <1>3, <1>4
<1> QED BY <1>1, <1>2, <1>5, <1>6, MovedOn

LEMMA LookSteady == Typed /\ Typed' /\ Steady /\ (PollNothing \/ PollEarly) => Steady'
<1> SUFFICES ASSUME Typed, Typed', Steady, PollNothing \/ PollEarly PROVE Steady'
  OBVIOUS
<1>1. /\ todo = <<>> /\ phase = "monitor" /\ phase' = "monitor" /\ Apart /\ todo' = Each("sync", Processes)
      /\ Elems(pipe') \subseteq Elems(pipe)
  <2>1. CASE PollNothing  BY <2>1 DEF PollNothing, Free, objects, children, Apart
  <2>2. CASE PollEarly  BY <2>2, PipeTail DEF PollEarly, Receive, Free, objects, children, Apart
  <2> QED BY <2>1, <2>2
<1>2. \A o \in Todo' : o.op = "sync"
  <2>1. "sync" \in OneServer  BY DEF OneServer
  <2> QED BY <1>1, <2>1, ProcessesDue DEF Todo
<1>3. \A o \in Todo' : o.op \in {"sync", "set", "wait", "exit"} /\ \A n \in Servers : ~Writes(o, n)
  BY <1>2 DEF Writes
<1>4. phase \notin Ended /\ phase' \notin Late /\ phase' # "done"  BY <1>1 DEF Ended, Late
<1> QED BY <1>1, <1>3, <1>4, MovedOn

LEMMA JoinSteady == Typed /\ Typed' /\ Steady /\ Join => Steady'
<1> SUFFICES ASSUME Typed, Typed', Steady, Join PROVE Steady'
  OBVIOUS
<1>1. /\ todo = <<>> /\ phase = "join" /\ phase' \in {"join", "terminate"} /\ Apart
      /\ Elems(pipe') \subseteq Elems(pipe)
      /\ todo' = <<>> \/ (ToJoin # <<>> /\ todo' = SetState(ToJoin[1], "JOINED", FALSE) \o <<Op("wait", ToJoin[1])>>)
  BY DEF Join, Free, objects, children, Apart
<1>2. \A o \in Todo' : o.op \in {"sync", "set", "wait", "exit"} /\ \A n \in Servers : ~Writes(o, n)
  <2>1. CASE todo' = <<>>
    <3>1. Todo' = {}  BY <2>1, ElemsOf DEF Todo
    <3> QED BY <3>1
  <2>2. CASE ToJoin # <<>> /\ todo' = SetState(ToJoin[1], "JOINED", FALSE) \o <<Op("wait", ToJoin[1])>>
    <3> PICK n : n = ToJoin[1]
      OBVIOUS
    <3> DEFINE s == [op |-> "set", n |-> n, state |-> "JOINED", force |-> FALSE]
    <3>1. n \in Servers
      <4>1. ToJoin \in Seq(Servers)  BY ProcessesTyped DEF Typed, TypeOK
      <4> QED BY <2>2, <4>1, EmptySeq, ElementOfSeq
    <3>2. todo' = <<s>> \o <<Op("wait", n)>>  BY <2>2 DEF SetState
    <3>3. s.op = "set" /\ Op("wait", n).op = "wait" /\ \A m : ~Writes(s, m) /\ ~Writes(Op("wait", n), m)
      BY DEF Op, Writes
    <3> HIDE DEF s
    <3>4. s \in Ops /\ Op("wait", n) \in Ops  BY <3>1, StatesAre, OpsAre DEF s, Ops, OneServer
    <3>5. <<s>> \in Seq(Ops) /\ <<Op("wait", n)>> \in Seq(Ops)  BY <3>4
    <3>6. Elems(todo') = Elems(<<s>>) \cup Elems(<<Op("wait", n)>>)  BY <3>2, <3>5, OpsElems
    <3>7. Todo' = {s, Op("wait", n)}  BY <3>6, ElemsOf DEF Todo
    <3> QED BY <3>3, <3>7
  <2> QED BY <1>1, <2>1, <2>2
<1>3. shutting_down /\ phase \notin Ended /\ phase' \in Late /\ phase' # "done"
  <2>1. phase \in Late /\ phase \notin Ended  BY <1>1 DEF Late, Ended
  <2>2. phase' \in Late /\ phase' # "done"  BY <1>1 DEF Late
  <2> QED BY <1>1, <2>1, <2>2, LateIsDown
<1> QED BY <1>1, <1>2, <1>3, MovedOn

LEMMA TerminateAllSteady == Typed /\ Typed' /\ Steady /\ TerminateAll => Steady'
<1> SUFFICES ASSUME Typed, Typed', Steady, TerminateAll PROVE Steady'
  OBVIOUS
<1>1. /\ todo = <<>> /\ phase = "terminate" /\ phase' = "cleanup" /\ Apart
      /\ Elems(pipe') \subseteq Elems(pipe)
      /\ todo' = (IF shutting_down THEN <<>> ELSE Each("terminate", Processes)) \o Each("exit", Processes)
  BY DEF TerminateAll, Free, objects, children, Apart
<1>2. shutting_down /\ phase \notin Ended /\ phase' \in Late /\ phase' # "done"
  <2>1. phase \in Late /\ phase \notin Ended  BY <1>1 DEF Late, Ended
  <2>2. phase' \in Late /\ phase' # "done"  BY <1>1 DEF Late
  <2> QED BY <1>1, <2>1, <2>2, LateIsDown
<1>3. \A o \in Todo' : o.op = "exit"
  <2>1. "exit" \in OneServer  BY DEF OneServer
  <2>2. Each("exit", Processes) \in Seq(Ops) /\ \A o \in Elems(Each("exit", Processes)) : o.op = "exit"
    BY <2>1, ProcessesDue
  <2> DEFINE e == Each("exit", Processes)
  <2>3. todo' = <<>> \o e  BY <1>1, <1>2
  <2>4. e \in Seq(Ops)  BY <2>2
  <2> HIDE DEF e
  <2>5. <<>> \in Seq(Ops) /\ Elems(<<>>) = {}  BY One, ElemsOf
  <2>6. Elems(<<>> \o e) = Elems(<<>>) \cup Elems(e)  BY <2>4, <2>5, OpsElems
  <2>7. Todo' = Elems(e)  BY <2>3, <2>5, <2>6 DEF Todo
  <2> QED BY <2>2, <2>7 DEF e
<1>4. \A o \in Todo' : o.op \in {"sync", "set", "wait", "exit"} /\ \A n \in Servers : ~Writes(o, n)
  BY <1>3 DEF Writes
<1> QED BY <1>1, <1>2, <1>4, MovedOn

\* Every process alive is killed, and no other is touched.
LEMMA KilledAll ==
    ASSUME Typed, proc' = [p \in Pids |-> IF IsAlive(p) THEN [proc[p] EXCEPT !.phase = "failed"] ELSE proc[p]]
    PROVE  \A p \in Pids : /\ proc'[p].server = proc[p].server
                           /\ proc'[p].phase = "none" <=> proc[p].phase = "none"
                           /\ ~IsAlive(p)'
<1>1. \A r \in [server : Servers, phase : Alive \cup Gone \cup {"none", "new"}] :
         [r EXCEPT !.phase = "failed"].server = r.server /\ [r EXCEPT !.phase = "failed"].phase = "failed"
  OBVIOUS
<1>2. \A p \in Pids : proc[p] \in [server : Servers, phase : Alive \cup Gone \cup {"none", "new"}]
  BY DEF Typed, TypeOK
<1>3. "failed" \notin Alive /\ "none" \notin Alive  BY DEF Alive
<1> SUFFICES ASSUME NEW p \in Pids
             PROVE  /\ proc'[p].server = proc[p].server
                    /\ proc'[p].phase = "none" <=> proc[p].phase = "none"
                    /\ ~IsAlive(p)'
  OBVIOUS
<1>4. CASE IsAlive(p)
  <2>1. proc'[p] = [proc[p] EXCEPT !.phase = "failed"]  BY <1>4
  <2>2. proc'[p].server = proc[p].server /\ proc'[p].phase = "failed"  BY <1>1, <1>2, <2>1
  <2>3. proc[p].phase \in Alive  BY <1>4 DEF IsAlive
  <2>4. ~IsAlive(p)'  BY <1>3, <2>2 DEF IsAlive
  <2> QED BY <1>3, <2>2, <2>3, <2>4
<1>5. CASE ~IsAlive(p)
  <2>1. proc'[p] = proc[p]  BY <1>5
  <2> QED BY <1>5, <2>1 DEF IsAlive
<1> QED BY <1>4, <1>5

LEMMA GiveUpSteady == Typed /\ Typed' /\ Steady /\ (AckMiss \/ AckFailed) => Steady'
<1> SUFFICES ASSUME Typed, Typed', Steady, AckMiss \/ AckFailed PROVE Steady'
  OBVIOUS
<1>1. todo = <<>> /\ phase = "ack" /\ Elems(pipe') \subseteq Elems(pipe)
  <2>1. CASE AckMiss  BY <2>1 DEF AckMiss, Free
  <2>2. CASE AckFailed  BY <2>2, PipeTail DEF AckFailed, Free
  <2> QED BY <2>1, <2>2
<1>2. GiveUp \/ (Apart /\ UNCHANGED <<phase, todo>>)
  BY DEF AckMiss, AckFailed, objects, children, Apart
<1>3. phase \notin Ended /\ phase # "crashed" /\ phase \notin Late /\ phase # "done"  BY <1>1 DEF Ended, Late
<1>4. CASE Apart /\ UNCHANGED <<phase, todo>>
  <2>1. Todo' = {}  BY <1>1, <1>4, ElemsOf DEF Todo
  <2> QED BY <1>1, <1>3, <1>4, <2>1, MovedOn
<1>5. CASE GiveUp
  <2>1. /\ UNCHANGED <<shutting_down, created, transient, state, current, worker_state, record, doomed>>
        /\ phase' = "killed" /\ todo' = <<>>
        /\ \/ UNCHANGED proc
           \/ proc' = [p \in Pids |-> IF IsAlive(p) THEN [proc[p] EXCEPT !.phase = "failed"] ELSE proc[p]]
    BY <1>1, <1>5 DEF GiveUp, KillGroup, objects
  <2>2. \A p \in Pids : /\ proc'[p].server = proc[p].server
                        /\ proc'[p].phase = "none" <=> proc[p].phase = "none"
                        /\ IsAlive(p)' => IsAlive(p)
    <3>1. CASE UNCHANGED proc  BY <3>1 DEF IsAlive
    <3>2. CASE proc' = [p \in Pids |-> IF IsAlive(p) THEN [proc[p] EXCEPT !.phase = "failed"] ELSE proc[p]]
      BY <3>2, KilledAll
    <3> QED BY <2>1, <3>1, <3>2
  <2>3. \A n \in Servers : Tainted(n)' => Tainted(n)
    <3>1. Todo' = {}  BY <2>1, ElemsOf DEF Todo
    <3> QED BY <2>1, <2>2, <3>1 DEF Tainted
  <2>4. Sent'
    <3>1. shutting_down' = shutting_down /\ ~Due({"down"})  BY <1>1, <2>1, NothingDue
    <3> QED BY <1>1, <2>1, <3>1, SentKept DEF Steady
  <2> QED BY <1>1, <1>3, <2>1, <2>2, <2>3, <2>4, Emptied
<1> QED BY <1>2, <1>4, <1>5

-----------------------------------------------------------------------------
\* what only a request asks for
LEMMA OnRequest ==
    ASSUME Typed, Steady, pipe # <<>>, pipe[1].type \in {"terminate", "restart", "scale"}
    PROVE  MaxSignals = 0 /\ (pipe[1].type = "restart" => pipe[1].order = "SHUTDOWN_FIRST")
<1>1. pipe[1] \in Elems(pipe)  BY PipeTail
<1> QED BY <1>1 DEF Steady, Sent

LEMMA PollTerminateSteady == Typed /\ Typed' /\ Steady /\ PollTerminate => Steady'
<1> SUFFICES ASSUME Typed, Typed', Steady, PollTerminate PROVE Steady'
  OBVIOUS
<1>1. /\ todo = <<>> /\ phase = "monitor" /\ phase' = "join" /\ Apart /\ todo' = Shutdown
      /\ Elems(pipe') \subseteq Elems(pipe)
  BY PipeTail DEF PollTerminate, Receive, Free, objects, children, Apart
<1>2. /\ phase \notin Ended /\ phase' \in Late /\ phase' # "done"  BY <1>1 DEF Ended, Late
<1>3. \A o \in Todo' : (o.op = "down" \/ (o.op = "terminate_alive" /\ Member(o.n))) /\ \A n \in Servers : ~Writes(o, n)
  BY <1>1, ShutdownDue DEF Todo
<1>4. Due({"down"})'
  <2>1. \E o \in Todo' : o.op = "down"  BY <1>1, ShutdownDue DEF Todo
  <2> QED BY <2>1 DEF Due
<1>5. \A n \in Servers : Member(n) => Safe(n) \/ DueFor({"terminate_alive"}, n)'
  <2>1. \A n \in Servers : Member(n) => Safe(n) \/ \E o \in Todo' : o.op = "terminate_alive" /\ o.n = n
    BY <1>1, ShutdownDue DEF Todo
  <2> QED BY <2>1 DEF DueFor
<1>6. \A o \in Todo' :
        /\ o.op \notin {"STARTUP_FIRST", "spawn", "del", "kill", "start", "terminate_now", "fork", "terminate"}
        /\ \A n \in Servers : ~Writes(o, n)
        /\ o.op \in {"SHUTDOWN_FIRST", "create", "drop"} => MaxSignals = 0 /\ phase' = "monitor"
        /\ o.op \in {"SHUTDOWN_FIRST", "terminate_alive"} => Member(o.n)
        /\ o.op \in {"terminate_alive", "down"} => phase' \in Late
  BY <1>2, <1>3
<1>7. ~Due({"SHUTDOWN_FIRST", "create"})'  BY <1>3 DEF Due
<1>8. UNCHANGED <<shutting_down, created, transient, state, current, worker_state, proc, record, doomed>>
  BY <1>1 DEF Apart
<1> QED BY <1>1, <1>2, <1>4, <1>5, <1>6, <1>7, <1>8, Moved

LEMMA PollRestartSteady == Typed /\ Typed' /\ Steady /\ PollRestart => Steady'
<1> SUFFICES ASSUME Typed, Typed', Steady, PollRestart PROVE Steady'
  OBVIOUS
<1> PICK keep : keep = IF pipe[1].names = {} THEN Servers ELSE pipe[1].names
  OBVIOUS
<1>1. /\ todo = <<>> /\ phase = "monitor" /\ phase' = "monitor" /\ Apart
      /\ pipe # <<>> /\ pipe[1].type = "restart"
      /\ todo' = Each(pipe[1].order, Kept(transient, keep)) \o Each("sync", transient)
      /\ Elems(pipe') \subseteq Elems(pipe)
  BY PipeTail DEF PollRestart, Receive, Free, objects, children, Apart
<1>2. MaxSignals = 0 /\ todo' = Each("SHUTDOWN_FIRST", Kept(transient, keep)) \o Each("sync", transient)
  BY <1>1, OnRequest
<1>3. \A o \in Todo' : (o.op = "SHUTDOWN_FIRST" /\ Member(o.n)) \/ o.op = "sync"
  <2> DEFINE a == Each("SHUTDOWN_FIRST", Kept(transient, keep))
             b == Each("sync", transient)
  <2>1. a \in Seq(Ops) /\ \A o \in Elems(a) : o.op = "SHUTDOWN_FIRST" /\ Member(o.n)
    <3>1. "SHUTDOWN_FIRST" \in OneServer  BY DEF OneServer, Orders
    <3> QED BY <3>1, DueOfEach
  <2>2. b \in Seq(Ops) /\ \A o \in Elems(b) : o.op = "sync"
    <3>1. transient \in Seq(Servers) /\ "sync" \in OneServer  BY DEF Typed, TypeOK, OneServer
    <3>2. \A n : Op("sync", n).op = "sync"  BY DEF Op
    <3> QED BY <3>1, <3>2, EachTyped, ElemsOfPrograms
  <2>3. todo' = a \o b  BY <1>2
  <2> HIDE DEF a, b
  <2>4. Todo' = Elems(a) \cup Elems(b)  BY <2>1, <2>2, <2>3, OpsElems DEF Todo
  <2> QED BY <2>1, <2>2, <2>4
<1>4. \A o \in Todo' : \A n \in Servers : ~Writes(o, n)  BY <1>3 DEF Writes
<1>5. \A o \in Todo' :
        /\ o.op \notin {"STARTUP_FIRST", "spawn", "del", "kill", "start", "terminate_now", "fork", "terminate"}
        /\ \A n \in Servers : ~Writes(o, n)
        /\ o.op \in {"SHUTDOWN_FIRST", "create", "drop"} => MaxSignals = 0 /\ phase' = "monitor"
        /\ o.op \in {"SHUTDOWN_FIRST", "terminate_alive"} => Member(o.n)
        /\ o.op \in {"terminate_alive", "down"} => phase' \in Late
  BY <1>1, <1>2, <1>3, <1>4
<1>6. ~Due({"drop"})' /\ ~Due({"down"})'  BY <1>3 DEF Due
<1>7. phase \notin Ended /\ phase' \notin Late /\ phase' # "done"  BY <1>1 DEF Ended, Late
<1>8. UNCHANGED <<shutting_down, created, transient, state, current, worker_state, proc, record, doomed>>
  BY <1>1 DEF Apart
<1> QED BY <1>1, <1>5, <1>6, <1>7, <1>8, Moved

LEMMA PollScaleSteady == Typed /\ Typed' /\ Steady /\ PollScale => Steady'
<1> SUFFICES ASSUME Typed, Typed', Steady, PollScale PROVE Steady'
  OBVIOUS
<1> DEFINE k == pipe[1].num
           change == k - num_server
           m == IF change > 0 THEN change ELSE -change
           op == IF change > 0 THEN "create" ELSE "drop"
<1>1. /\ todo = <<>> /\ phase = "monitor" /\ phase' = "monitor" /\ Apart
      /\ pipe # <<>> /\ pipe[1].type = "scale"
      /\ Elems(pipe') \subseteq Elems(pipe)
  BY PipeTail DEF PollScale, Receive, Free, objects, children, Apart
<1>2. todo' = IF change = 0 THEN <<>> ELSE [i \in 1..m |-> Op(op, 0)] \o <<Op("num", k)>>
  BY DEF PollScale
<1>3. MaxSignals = 0 /\ k \in Nat
  <2>1. k \in Nat
    <3>1. pipe[1] \in Messages /\ pipe[1].type = "scale"  BY <1>1, PipeTail
    <3> QED BY <3>1 DEF Messages, RequestType
  <2> QED BY <1>1, <2>1, OnRequest
<1>4. m \in Nat
  <2>1. num_server \in Nat  BY DEF Typed, TypeOK
  <2> QED BY <1>3, <2>1
<1>5. op \in {"create", "drop"}  OBVIOUS
<1> HIDE DEF change, m, op, k
<1>6. \A o \in Todo' : o.op \in {op, "num"}
  <2>1. CASE todo' = <<>>
    <3>1. Todo' = {}  BY <2>1, ElemsOf DEF Todo
    <3> QED BY <3>1
  <2>2. CASE todo' = [i \in 1..m |-> Op(op, 0)] \o <<Op("num", k)>>
    <3> DEFINE a == [i \in 1..m |-> Op(op, 0)]
               b == <<Op("num", k)>>
    <3>1. Op(op, 0) \in Ops /\ Op("num", k) \in Ops /\ Op(op, 0).op = op /\ Op("num", k).op = "num"
      <4>1. Op(op, 0) \in Ops /\ Op("num", k) \in Ops  BY <1>3, <1>5, OpsAre
      <4> QED BY <4>1 DEF Op
    <3>2. a \in Seq(Ops) /\ b \in Seq(Ops)  BY <1>4, <3>1
    <3>3. Elems(b) = {Op("num", k)}  BY ElemsOf
    <3>4. \A o \in Elems(a) : o = Op(op, 0)  BY DEF Elems
    <3> HIDE DEF a, b
    <3>5. Todo' = Elems(a) \cup Elems(b)  BY <2>2, <3>2, OpsElems DEF Todo, a, b
    <3> QED BY <3>1, <3>3, <3>4, <3>5
  <2> QED BY <1>2, <2>1, <2>2
<1>7. \A o \in Todo' : \A n \in Servers : ~Writes(o, n)  BY <1>5, <1>6 DEF Writes
<1>8. \A o \in Todo' :
        /\ o.op \notin {"STARTUP_FIRST", "spawn", "del", "kill", "start", "terminate_now", "fork", "terminate"}
        /\ \A n \in Servers : ~Writes(o, n)
        /\ o.op \in {"SHUTDOWN_FIRST", "create", "drop"} => MaxSignals = 0 /\ phase' = "monitor"
        /\ o.op \in {"SHUTDOWN_FIRST", "terminate_alive"} => Member(o.n)
        /\ o.op \in {"terminate_alive", "down"} => phase' \in Late
  BY <1>1, <1>3, <1>5, <1>6, <1>7
<1>9. ~Due({"down"})' /\ (Due({"SHUTDOWN_FIRST", "create"})' => ~Due({"drop"})')
  <2>1. ~Due({"down"})'  BY <1>5, <1>6 DEF Due
  <2>2. Due({"SHUTDOWN_FIRST", "create"})' => op = "create"  BY <1>5, <1>6 DEF Due
  <2>3. Due({"drop"})' => op = "drop"  BY <1>5, <1>6 DEF Due
  <2> QED BY <2>1, <2>2, <2>3
<1>10. phase \notin Ended /\ phase' \notin Late /\ phase' # "done"  BY <1>1 DEF Ended, Late
<1>11. UNCHANGED <<shutting_down, created, transient, state, current, worker_state, proc, record, doomed>>
  BY <1>1 DEF Apart
<1> QED BY <1>1, <1>8, <1>9, <1>10, <1>11, Moved

LEMMA MainSteady == Typed /\ Typed' /\ Steady /\ MainStep => Steady'
BY OperationSteady, TurnSteady, LookSteady, JoinSteady, TerminateAllSteady, GiveUpSteady,
   PollTerminateSteady, PollRestartSteady, PollScaleSteady
   DEF MainStep, RunStep

-----------------------------------------------------------------------------
\* A step that leaves the main thread where it is.
LEMMA Aside ==
    ASSUME Typed, Steady, UNCHANGED <<phase, todo, shutting_down, created, transient, current>>,
           \A n \in Servers : Tainted(n)' => Tainted(n),
           \A p \in Pids : /\ proc'[p].server = proc[p].server
                           /\ proc'[p].phase = "none" <=> proc[p].phase = "none"
                           /\ IsAlive(p)' => IsAlive(p)
                           /\ doomed[p] => doomed'[p]
                           /\ record'[p] = record[p] \/ proc[p].phase # "none",
           Sent'
    PROVE  Steady'
<1>1. \A n \in Servers : Safe(n) => Safe(n)'  BY SafeStays
<1>2. /\ Todo' = Todo /\ (\A ops : Due(ops)' <=> Due(ops)) /\ \A ops, n : DueFor(ops, n)' <=> DueFor(ops, n)
      /\ \A n : Member(n)' <=> Member(n)
  BY DEF Todo, Due, DueFor, Member
<1>3. Growing' /\ Numbered'
  <2>1. Growing'  BY <1>2 DEF Steady, Growing
  <2>2. Numbered'  BY <1>2 DEF Steady, Numbered
  <2> QED BY <2>1, <2>2
<1>4. Stopped'
  <2>1. \A n \in Servers : Tainted(n)' => Safe(n)' \/ DueFor({"kill"}, n)' \/ phase' = "crashed"
    BY <1>1, <1>2 DEF Steady, Stopped
  <2>2. MaxSignals = 0 /\ phase' \in {"start", "ack", "monitor"} =>
          /\ ~shutting_down' /\ ~Due({"down", "terminate_alive"})'
          /\ \A n \in Servers : Member(n)' /\ (Tainted(n)' \/ DueFor({"terminate"}, n)') => DueFor({"del"}, n)'
    BY <1>2 DEF Steady, Stopped
  <2>3. phase' \in {"join", "terminate", "cleanup", "done"} => shutting_down' \/ Due({"down"})'
    BY <1>2 DEF Steady, Stopped
  <2>4. (shutting_down' \/ Due({"down"})') /\ phase' \notin {"crashed", "killed"} =>
          \A n \in Servers : Member(n)' => Safe(n)' \/ DueFor(Ending, n)'
    BY <1>1, <1>2 DEF Steady, Stopped
  <2>5. phase' = "done" => todo' = <<>>  BY DEF Steady, Stopped
  <2> QED BY <2>1, <2>2, <2>3, <2>4, <2>5 DEF Stopped
<1>5. Known'  BY KnownStays DEF Steady
<1>6. InOrder'  BY <1>1, OrderKept DEF Steady
<1> QED BY <1>3, <1>4, <1>5, <1>6 DEF Steady

LEMMA SameTaint ==
    ASSUME UNCHANGED <<todo, state, worker_state, record>>, \A p \in Pids : proc'[p].server = proc[p].server
    PROVE  \A n \in Servers : Tainted(n)' => Tainted(n)
<1>1. Todo' = Todo  BY DEF Todo
<1> QED BY <1>1 DEF Tainted

LEMMA ThreadSteady == Typed /\ Steady /\ Thread => Steady'
<1> SUFFICES ASSUME Typed, Steady, NEW m \in Servers, OldTerminated(m) \/ WaitTimesOut(m) PROVE Steady'
  BY DEF Thread
<1>1. /\ UNCHANGED <<phase, todo, shutting_down, created, transient, current, state, worker_state, record, proc, pipe>>
      /\ \A p \in Pids : doomed[p] => doomed'[p]
  <2>1. CASE OldTerminated(m)  BY <2>1 DEF OldTerminated, manager, SendSignal
  <2>2. CASE WaitTimesOut(m)  BY <2>2 DEF WaitTimesOut, manager, children
  <2> QED BY <2>1, <2>2
<1>2. \A n \in Servers : Tainted(n)' => Tainted(n)  BY <1>1, SameTaint
<1>3. \A p \in Pids : IsAlive(p)' <=> IsAlive(p)  BY <1>1 DEF IsAlive
<1>4. Sent'
  <2>1. (Due({"down"})' <=> Due({"down"})) /\ Elems(pipe') \subseteq Elems(pipe)  BY <1>1 DEF Due, Todo
  <2> QED BY <1>1, <2>1, SentKept DEF Steady
<1> QED BY <1>1, <1>2, <1>3, <1>4, Aside

\* one message more
LEMMA PipeMore ==
    ASSUME Typed, NEW msg, pipe' = Append(pipe, msg)
    PROVE  \A x \in Elems(pipe') : x \in Elems(pipe) \/ x = msg
<1>1. pipe \in Seq(Messages)  BY DEF Typed
<1>2. pipe \in Seq(Messages \cup {msg})  BY <1>1, SeqMonotonic
<1>3. /\ Len(pipe) \in Nat /\ Len(pipe') = Len(pipe) + 1 /\ DOMAIN pipe' = 1..(Len(pipe) + 1)
      /\ DOMAIN pipe = 1..Len(pipe)
      /\ \A i \in 1..Len(pipe) : pipe'[i] = pipe[i]
      /\ pipe'[Len(pipe) + 1] = msg
  <2>1. /\ pipe' \in Seq(Messages \cup {msg}) /\ Len(pipe') = Len(pipe) + 1
        /\ \A i \in 1..Len(pipe) : pipe'[i] = pipe[i]
        /\ pipe'[Len(pipe) + 1] = msg
    BY <1>2, AppendProperties
  <2> QED BY <1>1, <2>1, LenProperties
<1>4. \A i \in DOMAIN pipe' : i \in 1..Len(pipe) \/ i = Len(pipe) + 1  BY <1>3
<1> QED BY <1>3, <1>4 DEF Elems

LEMMA ChildSteady == Typed /\ Steady /\ Child => Steady'
<1> SUFFICES ASSUME Typed, Steady, NEW p \in Pids, ChildStep(p) \/ Fails(p) PROVE Steady'
  BY DEF Child
<1> PICK n : n = Mine(p)
  OBVIOUS
<1>0. n \in Servers /\ proc[p].server = n /\ \A q \in Pids : record[q] \in Record
  BY DEF Mine, Typed, TypeOK
<1>1. /\ UNCHANGED <<phase, todo, shutting_down, created, transient, current, state, doomed>>
      /\ \/ UNCHANGED <<proc, record, worker_state>>
         \/ /\ proc[p].phase \in Alive
            /\ \E to \in Alive \cup Gone : proc' = [proc EXCEPT ![p].phase = to]
            /\ record' = record \/ record' = [record EXCEPT ![p] = worker_state[n]]
            /\ \/ worker_state' = worker_state
               \/ worker_state' = [worker_state EXCEPT ![n] = record[p]]
               \/ worker_state' = [worker_state EXCEPT ![n] = [record[p] EXCEPT !.state = "ACKED"]]
      /\ pipe' = pipe \/ pipe' = Append(pipe, [type |-> "early"])
  <2>1. /\ {"boot", "ack", "bind", "setup", "up", "up_put", "serving", "stop_put"} = Alive
        /\ {"exited", "failed"} = Gone
    BY DEF Alive, Gone
  <2>2. CASE AckRead(p) \/ ServingRead(p) \/ StopRead(p)
    BY <2>1, <2>2 DEF AckRead, ServingRead, StopRead, ReadRecord, Moves, Mine, manager, objects
  <2>3. CASE ServingWrite(p) \/ StopWrite(p)
    BY <2>1, <2>3 DEF ServingWrite, StopWrite, WriteRecord, Moves, Mine, manager, objects
  <2>4. CASE AckWrite(p)
    BY <2>1, <2>4 DEF AckWrite, Moves, Mine, manager, objects
  <2>5. CASE SignalIgnored(p)
    BY <2>5 DEF SignalIgnored, manager, objects
  <2>6. CASE Bound(p) \/ SetupDone(p)
    BY <2>1, <2>6 DEF Bound, SetupDone, Moves, manager, objects
  <2>7. CASE DieUnready(p)
    <3>1. proc[p].phase \in Alive /\ "failed" \in Alive \cup Gone /\ "exited" \in Alive \cup Gone
      BY <2>1, <2>7 DEF DieUnready, Unready
    <3> QED BY <2>7, <3>1 DEF DieUnready, Moves, manager, objects
  <2>8. CASE StopsEarly(p)
    BY <2>1, <2>8 DEF StopsEarly, Moves, manager, objects
  <2>9. CASE Fails(p)
    <3>1. "failed" \in Alive \cup Gone /\ "exited" \in Alive \cup Gone /\ "boot" \in Alive /\ "bind" \in Alive
      BY <2>1
    <3> QED BY <2>9, <3>1 DEF Fails, Moves, IsAlive, manager, objects
  <2> QED BY <2>2, <2>3, <2>4, <2>5, <2>6, <2>7, <2>8, <2>9 DEF ChildStep
<1>2. \A q \in Pids : /\ proc'[q].server = proc[q].server
                      /\ proc'[q].phase = "none" <=> proc[q].phase = "none"
                      /\ IsAlive(q)' => IsAlive(q)
                      /\ record'[q] = record[q] \/ proc[q].phase # "none"
  <2>1. CASE UNCHANGED <<proc, record, worker_state>>  BY <2>1 DEF IsAlive
  <2>2. CASE /\ proc[p].phase \in Alive
             /\ \E to \in Alive \cup Gone : proc' = [proc EXCEPT ![p].phase = to]
             /\ record' = record \/ record' = [record EXCEPT ![p] = worker_state[n]]
    <3>1. PICK to \in Alive \cup Gone : proc' = [proc EXCEPT ![p] = [proc[p] EXCEPT !.phase = to]]
      BY <2>2
    <3>2. \A r \in [server : Servers, phase : Alive \cup Gone \cup {"none", "new"}] :
             [r EXCEPT !.phase = to].server = r.server /\ [r EXCEPT !.phase = to].phase = to
      OBVIOUS
    <3>3. proc[p] \in [server : Servers, phase : Alive \cup Gone \cup {"none", "new"}]
          /\ proc'[p] = [proc[p] EXCEPT !.phase = to] /\ \A q \in Pids : q # p => proc'[q] = proc[q]
      BY <3>1 DEF Typed, TypeOK
    <3>4. proc'[p].server = proc[p].server /\ proc'[p].phase = to  BY <3>2, <3>3
    <3>5. "none" \notin Alive /\ to # "none"  BY DEF Alive, Gone
    <3>6. \A q \in Pids : q # p => record'[q] = record[q]  BY <2>2 DEF Typed, TypeOK
    <3> QED BY <2>2, <3>3, <3>4, <3>5, <3>6 DEF IsAlive
  <2> QED BY <1>1, <2>1, <2>2
<1>3. \A m \in Servers : Tainted(m)' => Tainted(m)
  <2> SUFFICES ASSUME NEW m \in Servers, Tainted(m)' PROVE Tainted(m)
    OBVIOUS
  <2>1. Todo' = Todo /\ state' = state  BY <1>1 DEF Todo
  <2>2. worker_state[n].state = "TERMINATED" => Tainted(n)  BY DEF Tainted
  <2>3. record[p].state = "TERMINATED" => Tainted(n)  BY <1>0 DEF Tainted
  <2>4. worker_state'[m].state = "TERMINATED" => Tainted(m)
    <3>1. \A r \in Record : [r EXCEPT !.state = "ACKED"].state = "ACKED"  BY DEF Record
    <3>2. [record[p] EXCEPT !.state = "ACKED"].state = "ACKED"  BY <1>0, <3>1
    <3>3. \/ worker_state' = worker_state
          \/ worker_state' = [worker_state EXCEPT ![n] = record[p]]
          \/ worker_state' = [worker_state EXCEPT ![n] = [record[p] EXCEPT !.state = "ACKED"]]
      BY <1>1
    <3>4. worker_state'[m] = worker_state[m] \/ (m = n /\ (worker_state'[m] = record[p] \/ worker_state'[m].state = "ACKED"))
      BY <3>2, <3>3 DEF Typed, TypeOK
    <3> QED BY <2>3, <3>4 DEF Tainted
  <2>5. ASSUME NEW q \in Pids, proc'[q].server = m, record'[q].state = "TERMINATED" PROVE Tainted(m)
    <3>1. record'[q] = record[q] \/ (q = p /\ record'[q] = worker_state[n])
      BY <1>1 DEF Typed, TypeOK
    <3> QED BY <1>0, <1>2, <2>2, <2>5, <3>1 DEF Tainted
  <2> QED BY <2>1, <2>4, <2>5 DEF Tainted, Writes
<1>4. Sent'
  <2>1. \A x \in Elems(pipe') : x \in Elems(pipe) \/ x.type = "early"
    <3>1. CASE pipe' = pipe  BY <3>1
    <3>2. CASE pipe' = Append(pipe, [type |-> "early"])
      <4>1. [type |-> "early"].type = "early"  OBVIOUS
      <4> QED BY <3>2, <4>1, PipeMore
    <3> QED BY <1>1, <3>1, <3>2
  <2>2. Due({"down"})' <=> Due({"down"})  BY <1>1 DEF Due, Todo
  <2> QED BY <1>1, <2>1, <2>2 DEF Steady, Sent
<1> QED BY <1>1, <1>2, <1>3, <1>4, Aside

-----------------------------------------------------------------------------
\* the signal handler puts shutdown() before what the main thread was about to do
LEMMA SignalSteady ==
    ASSUME Untroubled, Typed, Typed', Steady, signals \in Nat, ShutdownSignal
    PROVE  Steady'
<1>1. MaxSignals # 0 /\ phase \notin Ended /\ phase # "start" /\ phase # "crashed"
  <2>1. MaxSignals # 0
    <3>1. signals < MaxSignals /\ MaxSignals \in Nat  BY ManagerAssumption DEF ShutdownSignal
    <3> QED BY <3>1
  <2>2. Whereabouts \in SignalWhen /\ (Whereabouts = phase \/ phase = "monitor")
    BY DEF ShutdownSignal, Whereabouts
  <2>3. "start" \notin SignalWhen  BY <2>1 DEF Untroubled
  <2>4. SignalWhen \subseteq {"start", "ack", "monitor", "busy", "join", "terminate", "cleanup"}
    BY ManagerAssumption
  <2>5. phase \in {"ack", "monitor", "busy", "join", "terminate", "cleanup"}
    BY <2>2, <2>3, <2>4
  <2> QED BY <2>1, <2>5 DEF Ended
<1>2. UNCHANGED <<shutting_down, created, transient, state, current, worker_state, record, doomed>>
  BY DEF ShutdownSignal, objects
<1>3. CASE shutting_down /\ UNCHANGED <<pipe, phase, todo, proc>>
  <2>1. \A n \in Servers : Tainted(n)' => Tainted(n)  BY <1>2, <1>3, SameTaint
  <2>2. \A p \in Pids : IsAlive(p)' <=> IsAlive(p)  BY <1>3 DEF IsAlive
  <2>3. Sent'
    <3>1. Elems(pipe') \subseteq Elems(pipe) /\ (Due({"down"})' <=> Due({"down"}))  BY <1>3 DEF Due, Todo
    <3> QED BY <1>2, <1>3, <3>1, SentKept DEF Steady
  <2> QED BY <1>2, <1>3, <2>1, <2>2, <2>3, Aside
<1>4. CASE shutting_down /\ KillGroup /\ UNCHANGED pipe
  <2>1. /\ phase' = "killed" /\ todo' = <<>>
        /\ proc' = [p \in Pids |-> IF IsAlive(p) THEN [proc[p] EXCEPT !.phase = "failed"] ELSE proc[p]]
    BY <1>4 DEF KillGroup
  <2>2. \A p \in Pids : /\ proc'[p].server = proc[p].server
                        /\ proc'[p].phase = "none" <=> proc[p].phase = "none"
                        /\ ~IsAlive(p)'
    BY <2>1, KilledAll
  <2>3. \A n \in Servers : Tainted(n)' => Tainted(n)
    <3>1. Todo' = {}  BY <2>1, ElemsOf DEF Todo
    <3> QED BY <1>2, <2>2, <3>1 DEF Tainted
  <2>4. Sent'  BY <1>2, <1>4, <2>1 DEF Steady, Sent
  <2> QED BY <1>1, <1>2, <2>1, <2>2, <2>3, <2>4, Emptied
<1>5. CASE ~shutting_down
  <2>1. pipe' = Append(pipe, [type |-> "none"]) /\ todo' = Shutdown \o todo /\ UNCHANGED <<phase, proc>>
    BY <1>5 DEF ShutdownSignal
  <2>2. /\ Shutdown \in Seq(Ops)
        /\ \A o \in Elems(Shutdown) : o.op = "down" \/ (o.op = "terminate_alive" /\ o.n \in Servers /\ Member(o.n))
        /\ \A o \in Elems(Shutdown) : \A n \in Servers : ~Writes(o, n)
        /\ \E o \in Elems(Shutdown) : o.op = "down"
        /\ \A n \in Servers : Member(n) => Safe(n) \/ \E o \in Elems(Shutdown) : o.op = "terminate_alive" /\ o.n = n
        /\ Linked(Shutdown) /\ Shutdown # <<>> /\ Shutdown[Len(Shutdown)].op = "down"
    BY ShutdownDue
  <2>3. todo \in Seq(Ops) /\ todo' \in Seq(Ops) /\ Todo' = Elems(Shutdown) \cup Todo
    BY <2>1, <2>2, OpsElems DEF Typed, Todo
  <2>4. /\ Growth = {"start", "SHUTDOWN_FIRST", "terminate_now", "spawn", "fork"}
        /\ Ending = {"terminate_alive", "terminate", "kill"}
        /\ Delicate = {"SHUTDOWN_FIRST", "terminate_now", "spawn", "create", "drop", "del"}
    BY DEF Growth, Ending, Delicate
  <2>5. ~Due(Growth \cup {"create"}) /\ ~Due(Delicate) /\ ~Due({"STARTUP_FIRST"})
    BY <1>1 DEF Steady, Growing
  <2>6. ~Due(Growth \cup {"create"})' /\ ~Due(Delicate)' /\ ~Due({"STARTUP_FIRST"})'
    <3>1. \A o \in Todo' : o \in Todo \/ o.op \in {"down", "terminate_alive"}  BY <2>2, <2>3
    <3> QED BY <2>4, <2>5, <3>1 DEF Due
  <2>7. Due({"down"})'  BY <2>2, <2>3 DEF Due
  <2>8. \A n \in Servers : /\ ~DueFor(Growth, n)'
                           /\ DueFor(Ending, n)' => DueFor(Ending, n) \/ Member(n)
                           /\ DueFor(Growth \cup Ending, n)' => DueFor(Growth, n)' \/ DueFor(Ending, n)'
                           /\ DueFor({"kill"}, n) => DueFor({"kill"}, n)'
                           /\ DueFor(Ending, n) => DueFor(Growth \cup Ending, n)
                           /\ Member(n) => Safe(n) \/ DueFor(Ending, n)'
    <3> SUFFICES ASSUME NEW n \in Servers
                 PROVE  /\ ~DueFor(Growth, n)'
                        /\ DueFor(Ending, n)' => DueFor(Ending, n) \/ Member(n)
                        /\ DueFor(Growth \cup Ending, n)' => DueFor(Growth, n)' \/ DueFor(Ending, n)'
                        /\ DueFor({"kill"}, n) => DueFor({"kill"}, n)'
                        /\ DueFor(Ending, n) => DueFor(Growth \cup Ending, n)
                        /\ Member(n) => Safe(n) \/ DueFor(Ending, n)'
      OBVIOUS
    <3>1. ~DueFor(Growth, n)'  BY <2>6 DEF Due, DueFor
    <3>2. DueFor(Ending, n)' => DueFor(Ending, n) \/ Member(n)  BY <2>2, <2>3, <2>4 DEF DueFor
    <3>3. DueFor(Growth \cup Ending, n)' => DueFor(Growth, n)' \/ DueFor(Ending, n)'  BY DEF DueFor
    <3>4. DueFor({"kill"}, n) => DueFor({"kill"}, n)'  BY <2>3 DEF DueFor
    <3>5. DueFor(Ending, n) => DueFor(Growth \cup Ending, n)  BY DEF DueFor
    <3>6. Member(n) => Safe(n) \/ DueFor(Ending, n)'  BY <2>2, <2>3, <2>4 DEF DueFor
    <3> QED BY <3>1, <3>2, <3>3, <3>4, <3>5, <3>6
  <2>9. /\ \A n : Member(n)' <=> Member(n)
        /\ \A n \in Servers : Safe(n)' <=> Safe(n)
        /\ \A p \in Pids : IsAlive(p)' <=> IsAlive(p)
    BY <1>2, <2>1 DEF Member, Safe, IsAlive
  <2>10. \A n \in Servers : Tainted(n)' => Tainted(n)
    <3> SUFFICES ASSUME NEW n \in Servers, Tainted(n)' PROVE Tainted(n)
      OBVIOUS
    <3>1. \A o \in Todo' : Writes(o, n) => o \in Todo  BY <2>2, <2>3
    <3> QED BY <1>2, <2>1, <3>1 DEF Tainted, Writes
  <2>11. Growing'
    <3>1. phase' # "start" /\ MaxSignals # 0  BY <1>1, <2>1
    <3> QED BY <2>6, <2>8, <3>1 DEF Growing
  <2>12. Numbered'
    BY <1>2, <2>8, <2>9, <2>10 DEF Steady, Numbered
  <2>13. Stopped'
    <3>1. \A n \in Servers : Tainted(n)' => Safe(n)' \/ DueFor({"kill"}, n)' \/ phase' = "crashed"
      BY <2>1, <2>8, <2>9, <2>10 DEF Steady, Stopped
    <3>2. \A n \in Servers : Member(n)' => Safe(n)' \/ DueFor(Ending, n)'  BY <2>8, <2>9
    <3>3. phase' # "done"  BY <1>1, <2>1 DEF Ended
    <3> QED BY <1>1, <2>7, <3>1, <3>2, <3>3 DEF Stopped
  <2>14. Known'  BY <1>2, <2>1, <2>9, KnownStays DEF Steady
  <2>15. InOrder'
    <3>1. todo # <<>> => todo[1] \in Todo  BY <2>3, OpsElems DEF Todo
    <3>2. todo # <<>> => todo[1].op \notin {"spawn", "del"}  BY <2>4, <2>5, <3>1 DEF Due
    <3>3. todo = <<>> \/ Follows(todo[1], Shutdown[Len(Shutdown)])  BY <3>2 DEF Follows
    <3>4. Linked(todo')  BY <2>1, <2>2, <2>3, <3>3, LinkedOn DEF Steady, InOrder
    <3>5. todo' # <<>> => todo'[1] \in Todo'  BY <2>3, ElemsOf DEF Todo
    <3>6. todo' # <<>> => todo'[1].op \notin {"spawn", "del"}  BY <2>4, <2>6, <3>5 DEF Due
    <3> QED BY <1>1, <3>4, <3>6 DEF InOrder
  <2>16. Sent'
    <3>1. \A x \in Elems(pipe') : x \in Elems(pipe) \/ x = [type |-> "none"]  BY <2>1, PipeMore
    <3> QED BY <1>1, <2>7, <3>1 DEF Steady, Sent
  <2> QED BY <2>11, <2>12, <2>13, <2>14, <2>15, <2>16 DEF Steady
<1> QED BY <1>3, <1>4, <1>5 DEF ShutdownSignal

LEMMA RequestSteady ==
    ASSUME Untroubled, Typed, Steady, requested \in Nat, ~world.slow, Request
    PROVE  Steady'
<1>1. /\ UNCHANGED <<phase, todo, shutting_down, created, transient, current, state, worker_state, record, proc, doomed>>
      /\ requested < MaxRequests
  BY DEF Request, manager, objects, children
<1>2. PICK m \in world.requests : pipe' = Append(pipe, m)
  BY DEF Request
<1>3. MaxSignals = 0
  <2>1. MaxRequests \in Nat  BY ManagerAssumption
  <2> QED BY <1>1, <2>1 DEF Untroubled
<1>4. world \in Worlds /\ m \in RequestType
  <2>1. world \in Worlds  BY DEF Typed, TypeOK
  <2>2. IsWorld(world)  BY <2>1, ManagerAssumption
  <2> QED BY <2>1, <2>2 DEF IsWorld
<1>5. m.type \in {"restart", "scale", "terminate"}  BY <1>4 DEF RequestType
<1>6. m.type = "restart" => m.order = "SHUTDOWN_FIRST"  BY <1>4 DEF Untroubled
<1>7. Sent'
  <2>1. \A x \in Elems(pipe') : x \in Elems(pipe) \/ x = m  BY <1>2, PipeMore
  <2>2. Due({"down"})' <=> Due({"down"})  BY <1>1 DEF Due, Todo
  <2> QED BY <1>1, <1>3, <1>5, <1>6, <2>1, <2>2 DEF Steady, Sent
<1>8. \A n \in Servers : Tainted(n)' => Tainted(n)  BY <1>1, SameTaint
<1>9. \A p \in Pids : IsAlive(p)' <=> IsAlive(p)  BY <1>1 DEF IsAlive
<1> QED BY <1>1, <1>7, <1>8, <1>9, Aside

LEMMA SteadyAtStart == Init => SteadyInv
<1> SUFFICES ASSUME Init PROVE SteadyInv
  OBVIOUS
<1>0. /\ NumWorkers \in Nat /\ NumWorkers \in Servers /\ \A i \in 1..NumWorkers : i \in Servers /\ i \in Pids
  BY ManagerAssumption DEF Servers, Pids
<1>1. /\ phase = "start" /\ shutting_down = FALSE /\ created = NumWorkers
      /\ transient = [i \in 1..NumWorkers |-> i]
      /\ todo = [i \in 1..NumWorkers |-> Op("start", i)]
      /\ state = [n \in Servers |-> "IDLE"]
      /\ current = [n \in Servers |-> IF n <= NumWorkers THEN n ELSE 1]
      /\ worker_state = [n \in Servers |-> None]
      /\ proc = [p \in Pids |-> IF p <= NumWorkers THEN [server |-> p, phase |-> "new"]
                                ELSE [server |-> 1, phase |-> "none"]]
      /\ record = [p \in Pids |-> None] /\ pipe = <<>>
  BY DEF Init, Startup
<1>2. requested \in Nat /\ signals \in Nat  BY DEF Init, Spent
<1>3. \A o \in Todo : \E i \in 1..NumWorkers : o = Op("start", i)
  BY <1>1 DEF Todo, Elems
<1>4. \A o \in Todo : o.op = "start" /\ o.n \in 1..NumWorkers
  BY <1>3 DEF Op
<1>5. todo \in Seq(Ops)
  <2>1. \A i \in 1..NumWorkers : Op("start", i) \in Ops  BY <1>0, OpsAre DEF OneServer
  <2> QED BY <1>0, <1>1, <2>1
<1>6. \A n : Member(n) <=> n \in 1..NumWorkers  BY <1>1 DEF Member
<1>7. \A n \in Servers : ~Tainted(n)
  <2>1. \A o \in Todo : \A n \in Servers : ~Writes(o, n)  BY <1>4 DEF Writes
  <2> QED BY <1>1, <2>1 DEF Tainted, None
<1>8. \A p \in Pids : ~IsAlive(p)
  BY <1>1 DEF IsAlive, Alive
<1>9. InOrder
  <2>1. Linked(todo)  BY <1>4, <1>5, LinkedNone DEF Todo
  <2>2. \A i \in 1..Len(todo) : todo[i].op = "start"
    <3>1. \A i \in 1..Len(todo) : todo[i] \in Todo  BY <1>5, LenProperties DEF Todo, Elems
    <3> QED BY <1>4, <3>1
  <2>3. todo # <<>> => 1 \in 1..Len(todo)  BY <1>5, EmptySeq
  <2> QED BY <2>1, <2>2, <2>3 DEF InOrder, KillsFirst
<1>10. Sent
  <2>1. Elems(pipe) = {}  BY <1>1, ElemsOf
  <2> QED BY <2>1 DEF Sent
<1>11. Growing
  <2>1. ~Due({"STARTUP_FIRST"}) /\ ~Due(Shrink) /\ ~Due(Delicate)
    BY <1>4 DEF Due, Shrink, Ending, Delicate
  <2>2. \A n \in Servers : DueFor(Growth, n) => Member(n)  BY <1>4, <1>6 DEF DueFor
  <2> QED BY <1>1, <1>7, <2>1, <2>2 DEF Growing
<1>12. Numbered
  <2>1. \A n \in Servers : DueFor(Growth \cup Ending, n) => n \in 1..NumWorkers  BY <1>4 DEF DueFor
  <2> QED BY <1>0, <1>1, <1>6, <1>7, <2>1 DEF Numbered
<1>13. Known
  <2>1. \A n \in Servers : n <= NumWorkers => n \in 1..NumWorkers  BY <1>0 DEF Servers
  <2>2. \A n \in Servers : n <= created => proc[current[n]].server = n /\ proc[current[n]].phase = "new"
    <3> SUFFICES ASSUME NEW n \in Servers, n <= NumWorkers
                 PROVE  proc[current[n]].server = n /\ proc[current[n]].phase = "new"
      BY <1>1
    <3>1. n \in Pids /\ current[n] = n  BY <1>0, <1>1, <2>1
    <3>2. proc[n] = [server |-> n, phase |-> "new"]  BY <1>1, <3>1
    <3> QED BY <3>1, <3>2
  <2>3. \A p \in Pids : record[p].state # "TERMINATED"  BY <1>1 DEF None
  <2> QED BY <1>8, <2>2, <2>3 DEF Known
<1>14. Stopped
  <2>1. ~Due({"down"}) /\ ~Due({"down", "terminate_alive"}) /\ \A n \in Servers : ~DueFor({"terminate"}, n)
    BY <1>4 DEF Due, DueFor
  <2> QED BY <1>1, <1>7, <2>1 DEF Stopped
<1> QED BY <1>2, <1>9, <1>10, <1>11, <1>12, <1>13, <1>14 DEF SteadyInv, Steady

LEMMA StepSteady == Untroubled /\ Typed /\ Typed' /\ SteadyInv /\ [Next]_vars => SteadyInv'
<1> SUFFICES ASSUME Untroubled, Typed, Typed', SteadyInv, [Next]_vars PROVE SteadyInv'
  OBVIOUS
<1>1. world' = world /\ requested' \in Nat /\ signals' \in Nat
  <2>1. CASE ShutdownSignal  BY <2>1 DEF ShutdownSignal, SteadyInv
  <2>2. CASE Request  BY <2>2 DEF Request, SteadyInv
  <2>3. CASE ~ShutdownSignal /\ ~Request
    <3>1. CASE UNCHANGED vars  BY <3>1 DEF vars, bounds, SteadyInv
    <3>2. CASE Thread  BY <3>2 DEF Thread, OldTerminated, WaitTimesOut, bounds, SteadyInv
    <3>3. CASE Child
      BY <3>3 DEF Child, ChildStep, AckRead, AckWrite, Bound, SignalIgnored, SetupDone, ServingRead, ServingWrite,
         StopRead, StopWrite, DieUnready, StopsEarly, Fails, ReadRecord, WriteRecord, bounds, SteadyInv
    <3>4. CASE Operation \/ StartOne \/ RestartOne
      <4>1. CASE Set \/ WriteBack \/ First \/ Starts \/ TerminateIt \/ TerminateAlive
        BY <4>1 DEF Set, WriteBack, First, Starts, TerminateIt, TerminateAlive, bounds, SteadyInv
      <4>2. CASE Kill \/ KeepOld \/ Spawn \/ Fork \/ TerminateSoon \/ Sync
        BY <4>2 DEF Kill, KeepOld, Spawn, Fork, TerminateSoon, Sync, bounds, SteadyInv
      <4>3. CASE Create \/ Drop \/ Del \/ Num \/ Down \/ Wait \/ Exit \/ StartOne \/ RestartOne
        BY <4>3 DEF Create, Drop, Del, Num, Down, Wait, Exit, StartOne, RestartOne, bounds, SteadyInv
      <4> QED BY <3>4, <4>1, <4>2, <4>3 DEF Operation
    <3>5. CASE RunStep
      BY <3>5 DEF RunStep, Started, AckDone, AckRequeue, AckMiss, AckFailed, GiveUp, PollNothing, PollNone,
         PollTerminate, PollScale, PollRestart, PollEarly, RestartOne, Join, TerminateAll, CleanedUp, bounds, SteadyInv
    <3> QED BY <2>3, <3>1, <3>2, <3>3, <3>4, <3>5 DEF Next, MainStep
  <2> QED BY <2>1, <2>2, <2>3
<1>2. ASSUME ~world.slow PROVE Steady'
  <2>1. Steady /\ requested \in Nat /\ signals \in Nat  BY <1>2 DEF SteadyInv
  <2>2. CASE UNCHANGED vars
    <3>1. UNCHANGED <<phase, todo, shutting_down, created, transient, current, state, worker_state, record, proc,
                      doomed, pipe>>
      BY <2>2 DEF vars, manager, objects, children
    <3>2. \A n \in Servers : Tainted(n)' => Tainted(n)  BY <3>1, SameTaint
    <3>3. \A p \in Pids : IsAlive(p)' <=> IsAlive(p)  BY <3>1 DEF IsAlive
    <3>4. Sent'
      <4>1. (Due({"down"})' <=> Due({"down"})) /\ Elems(pipe') \subseteq Elems(pipe)  BY <3>1 DEF Due, Todo
      <4> QED BY <2>1, <3>1, <4>1, SentKept DEF Steady
    <3> QED BY <2>1, <3>1, <3>2, <3>3, <3>4, Aside
  <2>3. CASE MainStep  BY <2>1, <2>3, MainSteady
  <2>4. CASE ShutdownSignal  BY <2>1, <2>4, SignalSteady
  <2>5. CASE Thread  BY <2>1, <2>5, ThreadSteady
  <2>6. CASE Child  BY <2>1, <2>6, ChildSteady
  <2>7. CASE Request  BY <1>2, <2>1, <2>7, RequestSteady
  <2> QED BY <2>2, <2>3, <2>4, <2>5, <2>6, <2>7 DEF Next
<1> QED BY <1>1, <1>2 DEF SteadyInv

LEMMA SteadyIsAccounted == Typed /\ SteadyInv => Accounted
<1> SUFFICES ASSUME Typed, Steady PROVE Reachable /\ DoneClean
  BY DEF SteadyInv, Accounted
<1>1. Reachable
  <2> SUFFICES ASSUME NEW p \in Pids, IsAlive(p), ~doomed[p]
               PROVE  \E n \in Servers : p = current[n] /\ Member(n)
    BY DEF Reachable
  <2>1. p = current[proc[p].server] /\ Member(proc[p].server)  BY DEF Steady, Known
  <2>2. proc[p].server \in Servers  BY DEF Typed, TypeOK
  <2> QED BY <2>1, <2>2
<1>2. DoneClean
  <2> SUFFICES ASSUME phase = "done", NEW n \in Servers, Member(n) PROVE Safe(n)
    BY DEF DoneClean, Safe
  <2>1. todo = <<>>  BY DEF Steady, Stopped
  <2>2. shutting_down  BY <2>1, LateIsDown DEF Late
  <2> QED BY <2>1, <2>2, NothingDue DEF Steady, Stopped
<1> QED BY <1>1, <1>2

\* No server is lost: unless one is slow, a live process that was never told to stop is
\* the current one of a registered server, or its thread has still to stop it, and when
\* the manager is done every process has been told to stop or is gone.
\* (WorkerManager.shutdown_server, restart, scale, terminate and the signal handler)
THEOREM NoneLost ==
    ASSUME Untroubled
    PROVE  Spec => []Accounted
<1>1. Init => Typed  BY TypedAtStart
<1>2. Typed /\ [Next]_vars => Typed'  BY StepTyped
<1>3. Init => SteadyInv  BY SteadyAtStart
<1>4. Typed /\ Typed' /\ SteadyInv /\ [Next]_vars => SteadyInv'  BY StepSteady
<1>5. Typed /\ SteadyInv => Accounted  BY SteadyIsAccounted
<1> QED BY <1>1, <1>2, <1>3, <1>4, <1>5, PTL DEF Spec
=============================================================================
