---------------------------- MODULE Processes_proofs ----------------------------
(***************************************************************************)
(* The processes of a program, for any number of instances, workers,       *)
(* applications, servers, files, launches and commands.  For each kind of  *)
(* process an invariant that its steps keep, and what it says; at the end  *)
(* the types of all of them together.                                      *)
(*                                                                         *)
(* The life of a server process: what an event has called, followed by     *)
(* what it has still to call, is what it has to call (Tape); an event that *)
(* has not begun has called nothing and is at its first attempt            *)
(* (NotBegun); what goes on by itself belongs to an event at its second    *)
(* one (GhostsAgain).                                                      *)
(*                                                                         *)
(* MainInv.  The path is kept because a socket listens as long as its      *)
(* process serves (Listens), whoever unlinks has seen the last one dead    *)
(* or was overtaken (Late), and the main process of serve_single() does    *)
(* not end before its worker (Single).                                     *)
(*                                                                         *)
(* SecondaryInv.  The calls of an application's listeners are counted by   *)
(* the servers' tasks that made them: of each application, how many tasks  *)
(* are past an event (Of).  The first server of the primary application    *)
(* has no task, and its own shutdown (One) takes its place (Counted).      *)
(*                                                                         *)
(* ReloadInv.  A file that the reloader has not seen is remembered without *)
(* being reported; no watched file is such a one (Seen).                   *)
(*                                                                         *)
(* DaemonInv.  Who has a lock file open is known by where it is            *)
(* (OpenFiles), no two have the lock of the same file (Exclusive), and     *)
(* undisturbed, there is only one file (OneFile) and the PID file is that  *)
(* of who serves (Listed).                                                 *)
(***************************************************************************)
EXTENDS MCProcesses, FiniteSetTheorems, SequenceTheorems, TLAPS

-----------------------------------------------------------------------------
(* The life of a server process *)

AllEvents == Inits \cup Shutdowns
Listener  == 1..NumListeners
Ghost     == [event : Shutdowns, pending : Seq(Listener)]

\* what has begun when the process is there
Early1 == {"off", "startup"}
Early2 == Early1 \cup {"init before", "bind"}
Early3 == Early2 \cup {"init after", "serving"}
Early4 == Early3 \cup {"shutdown before", "drain", "cancel"}
Untouched(e) == ran[e] = <<>> /\ (e \in Shutdowns => attempt[e] = 1)

NotBegun ==
    /\ stage \in Early1 => Untouched("init before")
    /\ stage \in Early2 => Untouched("init after")
    /\ stage \in Early3 => Untouched("shutdown before")
    /\ stage \in Early4 => Untouched("shutdown after")

Tape ==
    stage \in AllEvents /\ (stage \in Inits \/ attempt[stage] = 1) => ran[stage] \o pending = Order(stage)

Told ==
    /\ stage \in {"bind", "init after", "serving", "closed"} \cup Stopping =>
          announced /\ ran["init before"] = Order("init before")
    /\ stage \in {"serving", "closed"} \cup Stopping => ran["init after"] = Order("init after")

GhostsAgain == \A g \in DOMAIN ghosts : attempt[ghosts[g].event] = 2

SoFar ==
    \A e \in AllEvents :
        \/ \E rest \in Seq(Listener) : ran[e] \o rest = Order(e)
        \/ e \in Shutdowns /\ attempt[e] = 2

LifeInv == LifeTypeOK /\ NotBegun /\ Tape /\ Told /\ GhostsAgain /\ SoFar

-----------------------------------------------------------------------------
(* Sequences of listeners *)

LEMMA OrderTyped == \A e : Order(e) \in Seq(Listener) /\ Len(Order(e)) = NumListeners
<1> TAKE e
<1>1. NumListeners \in Nat  BY ServerLifeAssumption
<1>2. \A i \in 1..NumListeners : (IF e \in Inits THEN i ELSE NumListeners + 1 - i) \in Listener
  BY <1>1 DEF Listener
<1>3. Order(e) \in [1..NumListeners -> Listener]  BY <1>2 DEF Order
<1> QED BY <1>1, <1>3, LenProperties, IsASeq DEF Order

\* What is due is what the event is begun with.
LEMMA DueIsOrder == \A e \in AllEvents : Due(e) = Order(e)
<1> TAKE e \in AllEvents
<1>1. NumListeners \in Nat  BY ServerLifeAssumption
<1> DEFINE r == [i \in 1..NumListeners |-> i]
<1>2. r \in Seq(Listener) /\ Len(r) = NumListeners
  BY <1>1, LenProperties, IsASeq DEF Listener
<1>3. CASE e \in Inits  BY <1>3 DEF Due, Order
<1>4. CASE e \notin Inits
  <2>1. Due(e) = Reverse(r)  BY <1>4 DEF Due
  <2>2. Reverse(r) = [i \in 1..NumListeners |-> r[(NumListeners - i) + 1]]
    <3> HIDE DEF r
    <3>1. Reverse(r) = [i \in 1..Len(r) |-> r[(Len(r) - i) + 1]]  BY DEF Reverse
    <3> QED BY <3>1, <1>2
  <2>3. \A i \in 1..NumListeners : r[(NumListeners - i) + 1] = NumListeners + 1 - i  BY <1>1
  <2> HIDE DEF r
  <2> QED BY <2>1, <2>2, <2>3, <1>4 DEF Order
<1> QED BY <1>3, <1>4

\* The listener that is called goes from one end of the tape to the other.
LEMMA TapeMoves ==
    ASSUME NEW S, NEW r \in Seq(S), NEW p \in Seq(S), p # <<>>
    PROVE  /\ Append(r, Head(p)) \in Seq(S) /\ Tail(p) \in Seq(S)
           /\ Append(r, Head(p)) \o Tail(p) = r \o p
           /\ Len(p) = 1 => Tail(p) = <<>>
<1>1. Head(p) \in S /\ Tail(p) \in Seq(S) /\ Len(Tail(p)) = Len(p) - 1 /\ Len(p) > 0
      /\ \A i \in 1..Len(Tail(p)) : Tail(p)[i] = p[i + 1]
  BY HeadTailProperties, EmptySeq, LenProperties
<1> DEFINE a == Append(r, Head(p))
<1>2. a \in Seq(S) /\ Len(a) = Len(r) + 1 /\ a[Len(r) + 1] = Head(p)
      /\ \A i \in 1..Len(r) : a[i] = r[i]
  BY <1>1, AppendProperties
<1>3. Len(Tail(p)) = 0 => Tail(p) = <<>>  BY <1>1, EmptySeq
<1>4. r \o p \in Seq(S) /\ Len(r \o p) = Len(r) + Len(p)
      /\ \A i \in 1..(Len(r) + Len(p)) : (r \o p)[i] = IF i <= Len(r) THEN r[i] ELSE p[i - Len(r)]
  BY ConcatProperties
<1>5. a \o Tail(p) \in Seq(S) /\ Len(a \o Tail(p)) = Len(a) + Len(Tail(p))
      /\ \A i \in 1..(Len(a) + Len(Tail(p))) :
            (a \o Tail(p))[i] = IF i <= Len(a) THEN a[i] ELSE Tail(p)[i - Len(a)]
  BY <1>1, <1>2, ConcatProperties
<1>6. Head(p) = p[1]  BY <1>1, HeadTailProperties
<1>7. Len(r) \in Nat /\ Len(p) \in Nat  BY LenProperties
<1>8. ASSUME NEW i \in 1..(Len(r) + Len(p)) PROVE (a \o Tail(p))[i] = (r \o p)[i]
  <2> HIDE DEF a
  <2>0. i \in 1..(Len(a) + Len(Tail(p)))  BY <1>1, <1>2, <1>7
  <2>1. CASE i <= Len(r)  BY <2>0, <2>1, <1>2, <1>4, <1>5, <1>7
  <2>2. CASE i = Len(r) + 1  BY <2>0, <2>2, <1>1, <1>2, <1>4, <1>5, <1>6, <1>7
  <2>3. CASE i > Len(r) + 1
    <3>1. (a \o Tail(p))[i] = Tail(p)[i - (Len(r) + 1)]  BY <2>0, <2>3, <1>2, <1>5, <1>7
    <3>2. i - (Len(r) + 1) \in 1..Len(Tail(p))  BY <2>3, <1>1, <1>7
    <3>3. Tail(p)[i - (Len(r) + 1)] = p[i - Len(r)]  BY <3>2, <1>1, <1>7
    <3>4. ~(i <= Len(r))  BY <2>3, <1>7
    <3>5. (r \o p)[i] = p[i - Len(r)]  BY <3>4, <1>4
    <3> QED BY <3>1, <3>3, <3>5
  <2>4. \A m, n \in Nat : m <= n \/ m = n + 1 \/ m > n + 1  OBVIOUS
  <2>5. i \in Nat  BY <1>7
  <2> QED BY <2>1, <2>2, <2>3, <2>4, <2>5, <1>7
<1> HIDE DEF a
<1>9. a \o Tail(p) = r \o p
  <2>1. Len(a \o Tail(p)) = Len(r) + Len(p) /\ Len(r \o p) = Len(r) + Len(p)  BY <1>1, <1>2, <1>4, <1>5, <1>7
  <2> QED BY <2>1, <1>4, <1>5, <1>8, SeqEqual
<1> QED BY <1>1, <1>2, <1>3, <1>9 DEF a

LEMMA TapeEnds ==
    /\ \A S, s : s \in Seq(S) => <<>> \in Seq(S) /\ <<>> \o s = s /\ s \o <<>> = s
    /\ \A S, r, p : r \in Seq(S) /\ p \in Seq(S) =>
          r = SubSeq(r \o p, 1, Len(r)) /\ Len(r) \in 0..Len(r \o p)
<1>1. ASSUME NEW S, NEW s \in Seq(S) PROVE <<>> \in Seq(S) /\ <<>> \o s = s /\ s \o <<>> = s
  BY ConcatEmptySeq, EmptySeq
<1>2. ASSUME NEW S, NEW r \in Seq(S), NEW p \in Seq(S)
      PROVE  r = SubSeq(r \o p, 1, Len(r)) /\ Len(r) \in 0..Len(r \o p)
  <2>1. r \o p \in Seq(S) /\ Len(r \o p) = Len(r) + Len(p)
        /\ \A i \in 1..(Len(r) + Len(p)) : (r \o p)[i] = IF i <= Len(r) THEN r[i] ELSE p[i - Len(r)]
    BY ConcatProperties
  <2>2. Len(r) \in Nat /\ Len(p) \in Nat  BY LenProperties
  <2>3. SubSeq(r \o p, 1, Len(r)) \in Seq(S) /\ Len(SubSeq(r \o p, 1, Len(r))) = Len(r)
        /\ \A i \in 1..Len(r) : SubSeq(r \o p, 1, Len(r))[i] = (r \o p)[i]
    BY <2>1, <2>2, SubSeqProperties
  <2>4. \A i \in 1..Len(r) : (r \o p)[i] = r[i]  BY <2>1, <2>2
  <2>5. r = SubSeq(r \o p, 1, Len(r))  BY <2>3, <2>4, SeqEqual
  <2> QED BY <2>1, <2>2, <2>5
<1> QED BY <1>1, <1>2
-----------------------------------------------------------------------------
(* Types *)

LEMMA Appended ==
    \A S : \A s \in Seq(S) : \A x \in S :
        \A k \in DOMAIN Append(s, x) : (k \in DOMAIN s /\ Append(s, x)[k] = s[k]) \/ Append(s, x)[k] = x
<1> SUFFICES ASSUME NEW S, NEW s \in Seq(S), NEW x \in S, NEW k \in DOMAIN Append(s, x)
             PROVE  (k \in DOMAIN s /\ Append(s, x)[k] = s[k]) \/ Append(s, x)[k] = x
  OBVIOUS
<1>1. /\ Append(s, x) \in Seq(S) /\ Len(Append(s, x)) = Len(s) + 1
      /\ \A i \in 1..Len(s) : Append(s, x)[i] = s[i]
      /\ Append(s, x)[Len(s) + 1] = x
  BY AppendProperties
<1>2. DOMAIN s = 1..Len(s) /\ Len(s) \in Nat /\ DOMAIN Append(s, x) = 1..Len(Append(s, x))
  BY <1>1, LenProperties
<1> QED BY <1>1, <1>2

LEMMA TwoIsNotOne == 2 # 1
OBVIOUS

LEMMA Attempts == 1 \in 1..2 /\ 2 \in 1..2 /\ \A n \in 1..2 : n # 1 <=> n = 2
OBVIOUS

LEMMA CountsUp == \A n \in Nat : \A k \in 0..n : k < n => k + 1 \in 0..n
OBVIOUS

USE DEF Inits, Shutdowns, Cleanup, Stopping, Ends, Stages, AllEvents, Listener, Ghost

LEMMA RestTyped == LifeAtRest /\ stage \in Stages /\ version3 \in BOOLEAN => LifeTypeOK
<1> SUFFICES ASSUME LifeAtRest, stage \in Stages, version3 \in BOOLEAN PROVE LifeTypeOK
  OBVIOUS
<1>1. \A S : <<>> \in Seq(S)  BY EmptySeq
<1>2. ghosts \in Seq(Ghost) /\ pending \in Seq(Listener)  BY <1>1 DEF LifeAtRest
<1>3. ran \in [AllEvents -> Seq(Listener)]  BY <1>1 DEF LifeAtRest
<1>4. attempt \in [Shutdowns -> 1..2]
  <2>1. attempt = [e \in Shutdowns |-> 1]  BY DEF LifeAtRest
  <2> QED BY <2>1, Attempts
<1>6. ticks \in 0..Graceful /\ stops \in 0..MaxStops
  <2>1. ticks = 0 /\ stops = 0  BY DEF LifeAtRest
  <2>2. Graceful \in Nat /\ MaxStops \in Nat  BY ServerLifeAssumption
  <2> QED BY ONLY <2>1, <2>2
<1>5. /\ conns \in [Conns -> {"none", "idle", "busy", "websocket", "closing", "gone"}]
      /\ tasks \in [Tasks -> {"none", "pending", "cancelling", "done"}]
  BY DEF LifeAtRest
<1> QED BY <1>2, <1>3, <1>4, <1>5, <1>6 DEF LifeAtRest, LifeTypeOK

LEMMA TypedAtStart == LifeInit => LifeTypeOK
<1> QED BY RestTyped DEF LifeInit

\* A process that begins an event or leaves for another place.
LEMMA MoveTyped ==
    ASSUME LifeTypeOK
    PROVE  /\ \A e \in AllEvents : Begin(e) => stage' = e /\ pending' \in Seq(Listener) /\ attempt' = attempt
           /\ \A s \in Stages : Leave(s) => stage' = s /\ pending' \in Seq(Listener) /\ attempt' = attempt
<1>1. <<>> \in Seq(Listener)  BY EmptySeq
<1> QED BY <1>1, OrderTyped DEF Begin, Leave

LEMMA CalledTyped ==
    ASSUME LifeTypeOK, Event
    PROVE  /\ Head(pending) \in Listener /\ Tail(pending) \in Seq(Listener)
           /\ Called => ran' \in [AllEvents -> Seq(Listener)]
           /\ Append(ghosts, [event |-> stage, pending |-> pending]) \in Seq(Ghost) \/ stage \in Inits
<1>1. pending \in Seq(Listener) /\ pending # <<>> /\ stage \in AllEvents
  BY DEF LifeTypeOK, Event
<1>2. Head(pending) \in Listener /\ Tail(pending) \in Seq(Listener)
  BY <1>1, HeadTailProperties
<1>3. ASSUME Called PROVE ran' \in [AllEvents -> Seq(Listener)]
  <2>1. ran \in [AllEvents -> Seq(Listener)]  BY DEF LifeTypeOK
  <2>2. Append(ran[stage], Head(pending)) \in Seq(Listener)
    BY <2>1, <1>1, <1>2, AppendProperties
  <2> QED BY <2>1, <2>2, <1>1, <1>3 DEF Called
<1>4. ASSUME stage \notin Inits
      PROVE  Append(ghosts, [event |-> stage, pending |-> pending]) \in Seq(Ghost)
  <2>1. ghosts \in Seq(Ghost)  BY DEF LifeTypeOK
  <2>2. [event |-> stage, pending |-> pending] \in Ghost  BY <1>1, <1>4
  <2> QED BY <2>1, <2>2, AppendProperties
<1> QED BY <1>2, <1>3, <1>4

LEMMA GivesUpTyped ==
    ASSUME LifeTypeOK, stage \in Shutdowns, GivesUp
    PROVE  /\ stage' \in {"drain", "shutdown after", "closed"} /\ pending' \in Seq(Listener)
           /\ attempt' = attempt /\ stopped' \in BOOLEAN
           /\ conns' \in [Conns -> {"none", "idle", "busy", "websocket", "closing", "gone"}]
<1>1. stopped \in BOOLEAN /\ conns \in [Conns -> {"none", "idle", "busy", "websocket", "closing", "gone"}]
  BY DEF LifeTypeOK
<1>2. <<>> \in Seq(Listener)  BY EmptySeq
<1>3. CASE stage = "shutdown before" /\ ~version3
  BY <1>1, <1>2, <1>3 DEF GivesUp, CloseIfIdle
<1>4. CASE ~(stage = "shutdown before" /\ ~version3)
  BY <1>1, <1>2, <1>4, MoveTyped DEF GivesUp
<1> QED BY <1>3, <1>4

LEMMA AgainTyped ==
    ASSUME LifeTypeOK, stage \in Shutdowns, Again
    PROVE  /\ stage' \in Stages /\ pending' \in Seq(Listener)
           /\ attempt' \in [Shutdowns -> 1..2] /\ stopped' \in BOOLEAN
           /\ conns' \in [Conns -> {"none", "idle", "busy", "websocket", "closing", "gone"}]
<1>1. attempt \in [Shutdowns -> 1..2]  BY DEF LifeTypeOK
<1>2. CASE attempt[stage] = 1
  <2>1. /\ attempt' = [attempt EXCEPT ![stage] = 2] /\ pending' = Order(stage)
        /\ stage' = stage /\ stopped' = stopped /\ conns' = conns
    BY <1>2 DEF Again
  <2>2. attempt' \in [Shutdowns -> 1..2]
    BY <2>1, <1>1, Attempts
  <2> QED BY <2>1, <2>2, OrderTyped DEF LifeTypeOK
<1>3. CASE attempt[stage] # 1
  BY <1>1, <1>3, GivesUpTyped DEF Again
<1> QED BY <1>2, <1>3

LEMMA CancelTyped ==
    ASSUME LifeTypeOK
    PROVE  /\ \A now \in BOOLEAN : Cancel(now) => tasks' \in [Tasks -> {"none", "pending", "cancelling", "done"}]
           /\ Purged \in [Tasks -> {"none", "pending", "cancelling", "done"}]
BY DEF LifeTypeOK, Cancel, Purged

\* Every step keeps the types; an action changes what its event, its call or its
\* connection does, and the rest is as it was.
LEMMA StepTyped == LifeTypeOK /\ [LifeNext]_life_vars => LifeTypeOK'
<1> SUFFICES ASSUME LifeTypeOK, [LifeNext]_life_vars PROVE LifeTypeOK'
  OBVIOUS
<1> DEFINE Place == /\ stage' \in Stages /\ pending' \in Seq(Listener)
                    /\ attempt' \in [Shutdowns -> 1..2]
           Rest == /\ halt' \in BOOLEAN /\ announced' \in BOOLEAN /\ is_running' \in BOOLEAN
                   /\ stopped' \in BOOLEAN /\ ticks' \in 0..Graceful /\ stops' \in 0..MaxStops
                   /\ conns' \in [Conns -> {"none", "idle", "busy", "websocket", "closing", "gone"}]
                   /\ tasks' \in [Tasks -> {"none", "pending", "cancelling", "done"}]
           History == ghosts' \in Seq(Ghost) /\ ran' \in [AllEvents -> Seq(Listener)]
<1>0. /\ stage \in Stages /\ version3 \in BOOLEAN /\ halt \in BOOLEAN
      /\ announced \in BOOLEAN /\ is_running \in BOOLEAN /\ stopped \in BOOLEAN
      /\ pending \in Seq(Listener) /\ attempt \in [Shutdowns -> 1..2]
      /\ ghosts \in Seq(Ghost)
      /\ conns \in [Conns -> {"none", "idle", "busy", "websocket", "closing", "gone"}]
      /\ tasks \in [Tasks -> {"none", "pending", "cancelling", "done"}]
      /\ ticks \in 0..Graceful /\ stops \in 0..MaxStops
      /\ ran \in [AllEvents -> Seq(Listener)]
  BY DEF LifeTypeOK
<1>1. Place /\ Rest /\ History /\ version3' = version3 => LifeTypeOK'
  BY <1>0 DEF LifeTypeOK
<1>2. (\A e \in AllEvents : Begin(e) => Place) /\ (\A s \in Stages : Leave(s) => Place)
  BY <1>0, MoveTyped
<1>3. UNCHANGED <<ghosts, ran>> => History
  BY <1>0
<1>4. ASSUME \/ \E ok \in BOOLEAN : ProcessStartup(ok) \/ Bind(ok) \/ BindHttp3(ok)
             \/ Ack \/ Serve \/ ServeHttp3
      PROVE  LifeTypeOK'
  <2>1. Place
    BY <1>2, <1>4 DEF ProcessStartup, Bind, BindHttp3, Binds, Ack, Serve, ServeHttp3, RunForever
  <2>2. Rest /\ History /\ version3' = version3
    BY <1>0, <1>4 DEF ProcessStartup, Bind, BindHttp3, Binds, Ack, Serve, ServeHttp3, RunForever
  <2> QED BY <2>1, <2>2, <1>1
<1>5. CASE ListenerReturns
  <2>1. Place /\ History  BY <1>0, <1>5, CalledTyped DEF ListenerReturns
  <2> QED BY <1>0, <1>1, <1>5, <2>1 DEF ListenerReturns
<1>6. CASE ShutdownBegun
  <2>1. Place /\ stopped' \in BOOLEAN /\ conns' \in [Conns -> {"none", "idle", "busy", "websocket", "closing", "gone"}]
    BY <1>0, <1>6, GivesUpTyped DEF ShutdownBegun
  <2> QED BY <1>0, <1>1, <1>6, <2>1 DEF ShutdownBegun
<1>7. CASE DrainTurn
  <2>1. ticks' \in 0..Graceful
    <3>1. ticks < Graceful /\ (ticks' = ticks \/ ticks' = ticks + 1)  BY <1>7 DEF DrainTurn
    <3>2. ticks + 1 \in 0..Graceful  BY <1>0, <3>1, CountsUp, ServerLifeAssumption
    <3> QED BY <1>0, <3>1, <3>2
  <2>2. Place  BY <1>0, <1>2, <1>7 DEF DrainTurn
  <2> QED BY <1>0, <1>1, <1>7, <2>1, <2>2 DEF DrainTurn
<1>8. CASE DrainEnds \/ ForceClose \/ CloseLoop
  <2>1. Place  BY <1>2, <1>8 DEF DrainEnds, ForceClose, CloseLoop
  <2>2. tasks' \in [Tasks -> {"none", "pending", "cancelling", "done"}]
    BY <1>0, <1>8, CancelTyped DEF DrainEnds, ForceClose, CloseLoop
  <2>3. conns' \in [Conns -> {"none", "idle", "busy", "websocket", "closing", "gone"}]
    BY <1>0, <1>8 DEF DrainEnds, ForceClose, CloseLoop
  <2> QED BY <1>0, <1>1, <1>8, <2>1, <2>2, <2>3 DEF DrainEnds, ForceClose, CloseLoop
<1>9. ASSUME NEW error \in MayRaise, ListenerRaises(error) PROVE LifeTypeOK'
  <2>1. History  BY <1>0, <1>9, CalledTyped DEF ListenerRaises
  <2>2. Place /\ stopped' \in BOOLEAN /\ conns' \in [Conns -> {"none", "idle", "busy", "websocket", "closing", "gone"}]
    BY <1>0, <1>2, <1>9, AgainTyped DEF ListenerRaises
  <2> QED BY <1>0, <1>1, <1>9, <2>1, <2>2 DEF ListenerRaises
<1>10. CASE StopsAtOnce
  <2>1. History
    <3>1. CASE stage \in Shutdowns
      BY <1>0, <1>10, <3>1, CalledTyped DEF StopsAtOnce, Abandoned
    <3>2. CASE stage \notin Shutdowns
      BY <1>3, <1>10, <3>2 DEF StopsAtOnce
    <3> QED BY <3>1, <3>2
  <2>2. Place /\ stopped' \in BOOLEAN /\ conns' \in [Conns -> {"none", "idle", "busy", "websocket", "closing", "gone"}]
    BY <1>0, <1>2, <1>10, AgainTyped DEF StopsAtOnce
  <2> QED BY <1>0, <1>1, <1>10, <2>1, <2>2 DEF StopsAtOnce
<1>11. CASE StopLoop
  <2>1. stops' \in 0..MaxStops /\ tasks' \in [Tasks -> {"none", "pending", "cancelling", "done"}]
    <3>1. stops < MaxStops /\ stops' = stops + 1 /\ Cancel(TRUE)  BY <1>11 DEF StopLoop
    <3> QED BY <1>0, <3>1, CancelTyped, CountsUp, ServerLifeAssumption
  <2>2. CASE stage = "serving" /\ Begin("shutdown before") /\ UNCHANGED <<halt, ghosts, stopped, conns, ran>>
    BY <1>0, <1>1, <1>2, <1>11, <2>1, <2>2 DEF StopLoop
  <2>3. CASE Leave("crashed") /\ UNCHANGED <<halt, ghosts, stopped, conns, ran>>
    BY <1>0, <1>1, <1>2, <1>11, <2>1, <2>3 DEF StopLoop
  <2>4. CASE /\ Event /\ Len(pending) = 1 /\ Called
             /\ pending' = <<>> /\ halt' = TRUE
             /\ UNCHANGED <<stage, attempt, ghosts, stopped, conns>>
    <3>1. pending' \in Seq(Listener)  BY <2>4, EmptySeq
    <3>2. History  BY <1>0, <2>4, CalledTyped
    <3> QED BY <1>0, <1>1, <1>11, <2>1, <2>4, <3>1, <3>2 DEF StopLoop
  <2>5. CASE Event /\ stage \in Shutdowns /\ Again /\ Abandoned /\ UNCHANGED <<halt, ran>>
    <3>1. History  BY <1>0, <2>5, CalledTyped DEF Abandoned
    <3> QED BY <1>0, <1>1, <1>11, <2>1, <2>5, <3>1, AgainTyped DEF StopLoop
  <2> QED BY <1>11, <2>2, <2>3, <2>4, <2>5 DEF StopLoop
<1>12. CASE SIGTERM
  <2>1. stops' \in 0..MaxStops
    <3>1. stops < MaxStops /\ stops' = stops + 1  BY <1>12 DEF SIGTERM
    <3> QED BY <1>0, <3>1, CountsUp, ServerLifeAssumption
  <2> QED BY <1>0, <1>1, <1>2, <1>3, <1>12, <2>1 DEF SIGTERM
<1>13. CASE SIGINT
  <2>1. stops' \in 0..MaxStops
    <3>1. stops < MaxStops /\ stops' = stops + 1  BY <1>13 DEF SIGINT
    <3> QED BY <1>0, <3>1, CountsUp, ServerLifeAssumption
  <2>2. CASE Event
    <3>1. stage \in Shutdowns /\ Again  BY <1>13, <2>2 DEF SIGINT, Event
    <3>2. (Called /\ UNCHANGED ghosts) \/ (Abandoned /\ UNCHANGED ran)  BY <1>13, <2>2 DEF SIGINT
    <3>3. History  BY <1>0, <2>2, <3>1, <3>2, CalledTyped DEF Abandoned
    <3> QED BY <1>0, <1>1, <1>13, <2>1, <3>1, <3>3, AgainTyped DEF SIGINT
  <2>3. CASE ~Event
    BY <1>0, <1>1, <1>2, <1>13, <2>1, <2>3 DEF SIGINT
  <2> QED BY <2>2, <2>3
<1>14. ASSUME NEW g \in DOMAIN ghosts, GhostReturns(g) PROVE LifeTypeOK'
  <2>0. DOMAIN ghosts = 1..Len(ghosts)  BY <1>0, LenProperties
  <2>1. g \in 1..Len(ghosts) /\ ghosts[g] \in Ghost
    BY <1>0, <2>0, ElementOfSeq
  <2>2. Head(ghosts[g].pending) \in Listener /\ Tail(ghosts[g].pending) \in Seq(Listener)
    BY <1>14, <2>1, HeadTailProperties DEF GhostReturns
  <2>3. ghosts' \in Seq(Ghost)
    <3>1. [ghosts[g] EXCEPT !.pending = Tail(@)] \in Ghost  BY <2>1, <2>2
    <3>2. ghosts' = [ghosts EXCEPT ![g] = [ghosts[g] EXCEPT !.pending = Tail(@)]]
      BY <1>14 DEF GhostReturns
    <3> HIDE DEF Ghost
    <3> QED BY <1>0, <2>1, <3>1, <3>2, ExceptSeq
  <2>4. ran' \in [AllEvents -> Seq(Listener)]
    <3>1. Append(ran[ghosts[g].event], Head(ghosts[g].pending)) \in Seq(Listener)
      BY <1>0, <2>1, <2>2, AppendProperties
    <3> QED BY <1>0, <1>14, <2>1, <3>1 DEF GhostReturns
  <2> QED BY <1>0, <1>1, <1>14, <2>3, <2>4 DEF GhostReturns
<1>15. ASSUME NEW c \in Conns, Connection(c) PROVE LifeTypeOK'
  <2>1. conns' \in [Conns -> {"none", "idle", "busy", "websocket", "closing", "gone"}]
    BY <1>0, <1>15 DEF Connection, ConnectionMade, RequestBegins, RequestEnds, ConnectionLost, TransportMoves
  <2> QED
    BY <1>0, <1>1, <1>3, <1>15, <2>1
       DEF Connection, ConnectionMade, RequestBegins, RequestEnds, ConnectionLost, TransportMoves
<1>16. ASSUME NEW t \in Tasks, AddTask(t) \/ TaskEnds(t) \/ CancelTask(t) PROVE LifeTypeOK'
  <2>1. tasks' \in [Tasks -> {"none", "pending", "cancelling", "done"}]
    BY <1>0, <1>16 DEF AddTask, TaskEnds, CancelTask
  <2> QED BY <1>0, <1>1, <1>3, <1>16, <2>1 DEF AddTask, TaskEnds, CancelTask
<1>17. CASE UNCHANGED life_vars
  BY <1>0, <1>1, <1>3, <1>17 DEF life_vars
<1>18. CASE LifeNext
  BY <1>4, <1>5, <1>6, <1>7, <1>8, <1>9, <1>10, <1>11, <1>12, <1>13, <1>14, <1>15, <1>16, <1>18
     DEF LifeNext, Process, CallStop, HandledSignal
<1> QED BY <1>17, <1>18
-----------------------------------------------------------------------------
(* The listeners *)

USE DEF Early1, Early2, Early3, Early4

Calls == NotBegun /\ Tape /\ Told /\ GhostsAgain /\ SoFar

LEMMA CallsAtStart == LifeInit => Calls
<1> SUFFICES ASSUME LifeInit PROVE Calls
  OBVIOUS
<1>1. \A e \in AllEvents : ran[e] = <<>>  BY DEF LifeInit, LifeAtRest
<1>2. \A e \in Shutdowns : attempt[e] = 1  BY DEF LifeInit, LifeAtRest
<1>3. stage = "startup" /\ ghosts = <<>>  BY DEF LifeInit, LifeAtRest
<1>4. NotBegun  BY <1>1, <1>2, <1>3 DEF NotBegun, Untouched
<1>5. Tape /\ Told  BY <1>3 DEF Tape, Told
<1>6. GhostsAgain  BY <1>3 DEF GhostsAgain
<1>7. SoFar
  <2>1. ASSUME NEW e \in AllEvents PROVE \E rest \in Seq(Listener) : ran[e] \o rest = Order(e)
    <3>1. Order(e) \in Seq(Listener)  BY OrderTyped
    <3>2. ran[e] \o Order(e) = Order(e)  BY <3>1, <1>1, TapeEnds
    <3> QED BY <3>1, <3>2
  <2> QED BY <2>1 DEF SoFar
<1> QED BY <1>4, <1>5, <1>6, <1>7 DEF Calls

\* What does not read or write where the listeners are leaves them where they are.
LEMMA CallsQuiet ==
    ASSUME Calls, UNCHANGED <<stage, pending, attempt, ghosts, announced, ran>>
    PROVE  Calls'
BY DEF Calls, NotBegun, Untouched, Tape, Told, GhostsAgain, SoFar

\* The event that awaits a listener calls it: no other event is concerned.
LEMMA CalledKept ==
    ASSUME LifeTypeOK, Calls, Event, Called
    PROVE  /\ \A e \in AllEvents : e # stage => ran'[e] = ran[e]
           /\ stage \in Inits \/ attempt[stage] = 1 =>
                 ran'[stage] \o Tail(pending) = Order(stage)
           /\ \A e \in AllEvents :
                 \/ \E rest \in Seq(Listener) : ran'[e] \o rest = Order(e)
                 \/ e \in Shutdowns /\ attempt[e] = 2
<1>1. /\ pending \in Seq(Listener) /\ pending # <<>> /\ stage \in AllEvents
      /\ ran \in [AllEvents -> Seq(Listener)] /\ attempt \in [Shutdowns -> 1..2]
  BY DEF LifeTypeOK, Event
<1>2. \A e \in AllEvents : e # stage => ran'[e] = ran[e]
  BY <1>1 DEF Called
<1>3. ran'[stage] = Append(ran[stage], Head(pending))
  BY <1>1 DEF Called
<1>4. Tail(pending) \in Seq(Listener) /\ ran'[stage] \o Tail(pending) = ran[stage] \o pending
  <2>1. ran[stage] \in Seq(Listener)  BY <1>1
  <2> HIDE DEF Listener
  <2> QED BY <1>1, <1>3, <2>1, TapeMoves
<1>5. ASSUME stage \in Inits \/ attempt[stage] = 1 PROVE ran'[stage] \o Tail(pending) = Order(stage)
  BY <1>1, <1>4, <1>5 DEF Calls, Tape
<1>6. ASSUME NEW e \in AllEvents, e \in Inits \/ attempt[e] # 2
      PROVE  \E rest \in Seq(Listener) : ran'[e] \o rest = Order(e)
  <2>1. CASE e # stage
    BY <2>1, <1>2, <1>6 DEF Calls, SoFar
  <2>2. CASE e = stage
    <3>1. stage \in Inits \/ attempt[stage] = 1  BY <2>2, <1>1, <1>6, Attempts
    <3> QED BY <3>1, <2>2, <1>4, <1>5
  <2> QED BY <2>1, <2>2
<1> QED BY <1>2, <1>5, <1>6

\* A process that ends has nothing to call any more.
LEMMA CallsEnd ==
    ASSUME LifeTypeOK, Calls, stage' \in {"crashed", "killed", "failed"},
           UNCHANGED <<attempt, ghosts>>, UNCHANGED ran \/ (Event /\ Called)
    PROVE  Calls'
<1>1. NotBegun' /\ Tape' /\ Told'  BY DEF NotBegun, Tape, Told
<1>2. GhostsAgain'  BY DEF Calls, GhostsAgain
<1>3. SoFar'
  <2>1. CASE UNCHANGED ran  BY <2>1 DEF Calls, SoFar
  <2>2. CASE Event /\ Called  BY <2>2, CalledKept DEF SoFar
  <2> QED BY <2>1, <2>2
<1> QED BY <1>1, <1>2, <1>3 DEF Calls

\* An event begins that has called nothing.
LEMMA EventBegins ==
    ASSUME LifeTypeOK, NEW e \in AllEvents, ran'[e] = <<>>, Begin(e)
    PROVE  Tape'
<1>1. ran'[e] \o Order(e) = Order(e)  BY OrderTyped, TapeEnds
<1> QED BY <1>1 DEF Begin, Tape

\* The steps between the events: what has been called stays, the next event has its
\* listeners before it.
LEMMA CallsMove ==
    ASSUME LifeTypeOK, Calls, UNCHANGED <<ghosts, ran, attempt>>,
           NotBegun', Tape', Told'
    PROVE  Calls'
BY DEF Calls, GhostsAgain, SoFar

\* The event that is over has called all its listeners, unless it was interrupted.
LEMMA EventOver ==
    ASSUME LifeTypeOK, Calls, stage \in AllEvents, pending = <<>>,
           stage \in Inits \/ attempt[stage] = 1
    PROVE  ran[stage] = Order(stage)
<1>1. ran[stage] \in Seq(Listener)  BY DEF LifeTypeOK
<1>2. ran[stage] \o <<>> = Order(stage)  BY DEF Calls, Tape
<1> QED BY <1>1, <1>2, TapeEnds

\* The event after a shutdown event, which _run_shutdown_coro goes on to.
LEMMA GivesUpKept ==
    ASSUME LifeTypeOK, Calls, stage \in Shutdowns, GivesUp, announced' = announced,
           \A e \in AllEvents : e # stage => ran'[e] = ran[e]
    PROVE  NotBegun' /\ Tape' /\ Told' /\ attempt' = attempt
<1>1. /\ attempt' = attempt
      /\ stage' = IF stage = "shutdown after" THEN "closed"
                  ELSE IF version3 THEN "shutdown after" ELSE "drain"
      /\ stage' = "shutdown after" => Begin("shutdown after")
  BY DEF GivesUp, Begin, Leave
<1>2. Told'  BY <1>1 DEF Calls, Told
<1>3. NotBegun'  BY <1>1 DEF Calls, NotBegun, Untouched
<1>4. Tape'
  <2>1. CASE stage' # "shutdown after"  BY <1>1, <2>1 DEF Tape
  <2>2. CASE stage' = "shutdown after"
    <3>1. stage = "shutdown before"  BY <1>1, <2>2
    <3>2. ran'["shutdown after"] = <<>>  BY <3>1 DEF Calls, NotBegun, Untouched
    <3> QED BY <1>1, <2>2, <3>2, EventBegins
  <2> QED BY <2>1, <2>2
<1> QED BY <1>1, <1>2, <1>3, <1>4

\* A shutdown event that is interrupted: it begins anew, or is passed over.
LEMMA Interrupted ==
    ASSUME LifeTypeOK, Calls, Event, stage \in Shutdowns, Again, announced' = announced,
           UNCHANGED ran \/ Called, UNCHANGED ghosts \/ Abandoned
    PROVE  Calls'
<1>1. attempt \in [Shutdowns -> 1..2] /\ ran \in [AllEvents -> Seq(Listener)] /\ ghosts \in Seq(Ghost)
  BY DEF LifeTypeOK
<1>2. /\ \A e \in AllEvents : e # stage => ran'[e] = ran[e]
      /\ \A e \in AllEvents :
            \/ \E rest \in Seq(Listener) : ran'[e] \o rest = Order(e)
            \/ e \in Shutdowns /\ attempt[e] = 2
  <2>1. CASE UNCHANGED ran  BY <2>1 DEF Calls, SoFar
  <2>2. CASE Called  BY <2>2, CalledKept
  <2> QED BY <2>1, <2>2
<1>3. \/ attempt[stage] = 1 /\ attempt' = [attempt EXCEPT ![stage] = 2] /\ stage' = stage
      \/ attempt[stage] # 1 /\ GivesUp
  BY DEF Again
<1>4. NotBegun' /\ Tape' /\ Told'
  <2>1. CASE attempt[stage] = 1 /\ attempt' = [attempt EXCEPT ![stage] = 2] /\ stage' = stage
    <3>1. attempt'[stage] = 2 /\ \A e \in Shutdowns : e # stage => attempt'[e] = attempt[e]
      BY <1>1, <2>1
    <3>5. stage' \notin Inits  BY <2>1
    <3>6. attempt'[stage'] # 1
      <4> HIDE DEF Shutdowns
      <4> QED BY <2>1, <3>1, TwoIsNotOne
    <3>2. Tape'  BY <3>5, <3>6 DEF Tape
    <3>3. Told'  BY <1>2, <2>1 DEF Calls, Told
    <3>4. NotBegun'  BY <1>2, <2>1, <3>1 DEF Calls, NotBegun, Untouched
    <3> QED BY <3>2, <3>3, <3>4
  <2>2. CASE attempt[stage] # 1 /\ GivesUp
    BY <1>2, <2>2, GivesUpKept
  <2> QED BY <1>3, <2>1, <2>2
<1>5. attempt'[stage] = 2 /\ \A e \in Shutdowns : attempt[e] = 2 => attempt'[e] = 2
  <2>1. CASE attempt[stage] = 1 /\ attempt' = [attempt EXCEPT ![stage] = 2] /\ stage' = stage
    BY <1>1, <2>1
  <2>2. CASE attempt[stage] # 1 /\ GivesUp
    <3>1. attempt' = attempt  BY <1>2, <2>2, GivesUpKept
    <3>2. attempt[stage] = 2  BY <1>1, <2>2, Attempts
    <3> QED BY <3>1, <3>2
  <2> QED BY <1>3, <2>1, <2>2
<1>6. SoFar'  BY <1>2, <1>5 DEF SoFar
<1>7. GhostsAgain'
  <2>1. \A g \in DOMAIN ghosts : ghosts[g].event \in Shutdowns
    <3>1. DOMAIN ghosts = 1..Len(ghosts)  BY <1>1, LenProperties
    <3>2. \A g \in 1..Len(ghosts) : ghosts[g] \in Ghost
      <4> HIDE DEF Ghost
      <4> QED BY <1>1, ElementOfSeq
    <3> QED BY <3>1, <3>2
  <2>2. CASE UNCHANGED ghosts
    BY <1>5, <2>1, <2>2 DEF Calls, GhostsAgain
  <2>3. CASE Abandoned
    <3> DEFINE new == [event |-> stage, pending |-> pending]
    <3>1. new \in Ghost  BY DEF LifeTypeOK
    <3>2. ghosts' = Append(ghosts, new)  BY <2>3 DEF Abandoned
    <3>3. ASSUME NEW g \in DOMAIN ghosts'
          PROVE  (g \in DOMAIN ghosts /\ ghosts'[g] = ghosts[g]) \/ ghosts'[g] = new
      <4> HIDE DEF new, Ghost
      <4> QED BY <1>1, <3>1, <3>2, Appended
    <3>4. new.event = stage  OBVIOUS
    <3> HIDE DEF new
    <3>5. ASSUME NEW g \in DOMAIN ghosts' PROVE attempt'[ghosts'[g].event] = 2
      <4>1. CASE g \in DOMAIN ghosts /\ ghosts'[g] = ghosts[g]
        BY <4>1, <2>1, <1>5 DEF Calls, GhostsAgain
      <4>2. CASE ghosts'[g] = new
        BY <4>2, <3>4, <1>5
      <4> QED BY <4>1, <4>2, <3>3
    <3> QED BY <3>5 DEF GhostsAgain
  <2> QED BY <2>2, <2>3
<1> QED BY <1>4, <1>6, <1>7 DEF Calls

\* One step per action; what an event has called is looked at only where it calls, is
\* interrupted or ends.
LEMMA StepCalls == LifeTypeOK /\ Calls /\ [LifeNext]_life_vars => Calls'
<1> SUFFICES ASSUME LifeTypeOK, Calls, [LifeNext]_life_vars PROVE Calls'
  OBVIOUS
<1>1. ASSUME NEW ok \in BOOLEAN, ProcessStartup(ok) PROVE Calls'
  <2>1. CASE Begin("init before")
    <3>1. stage = "startup" /\ UNCHANGED <<ghosts, announced, ran, attempt>> /\ stage' = "init before"
      BY <1>1, <2>1 DEF ProcessStartup, Begin
    <3>2. Tape'  BY <2>1, <3>1, EventBegins DEF Calls, NotBegun, Untouched
    <3>3. Told' /\ NotBegun'  BY <3>1 DEF Calls, NotBegun, Untouched, Told
    <3> QED BY <3>1, <3>2, <3>3, CallsMove
  <2>2. CASE Leave("crashed")
    BY <1>1, <2>2, CallsEnd DEF ProcessStartup, Leave
  <2> QED BY <1>1, <2>1, <2>2 DEF ProcessStartup
<1>2. CASE Ack
  <2>1. /\ stage = "init before" /\ pending = <<>> /\ announced' = TRUE /\ stage' = "bind"
        /\ UNCHANGED <<ghosts, ran, attempt>>
    BY <1>2 DEF Ack, Leave
  <2>2. ran["init before"] = Order("init before")  BY <2>1, EventOver
  <2>3. Tape' /\ Told' /\ NotBegun'
    BY <2>1, <2>2 DEF Calls, NotBegun, Untouched, Told, Tape
  <2> QED BY <2>1, <2>3, CallsMove
<1>3. ASSUME NEW ok \in BOOLEAN, Bind(ok) \/ BindHttp3(ok) PROVE Calls'
  <2>1. stage = "bind" /\ UNCHANGED <<ghosts, announced, ran, attempt>>
    BY <1>3 DEF Bind, BindHttp3, Binds, Begin, Leave
  <2>2. CASE Begin("init after")
    <3>1. stage' = "init after"  BY <2>2 DEF Begin
    <3>2. Tape'  BY <2>1, <2>2, EventBegins DEF Calls, NotBegun, Untouched
    <3>3. Told' /\ NotBegun'  BY <2>1, <3>1 DEF Calls, NotBegun, Untouched, Told
    <3> QED BY <2>1, <3>2, <3>3, CallsMove
  <2>3. CASE Leave("failed") \/ Leave("crashed")
    BY <2>1, <2>3, CallsEnd DEF Leave
  <2> QED BY <1>3, <2>2, <2>3 DEF Bind, BindHttp3, Binds
<1>4. CASE Serve \/ ServeHttp3
  <2>1. /\ stage = "init after" /\ pending = <<>>
        /\ (Begin("shutdown before") \/ Leave("serving"))
        /\ UNCHANGED <<ghosts, announced, ran, attempt>>
    BY <1>4 DEF Serve, ServeHttp3, RunForever, Begin, Leave
  <2>2. ran["init after"] = Order("init after")  BY <2>1, EventOver
  <2>3. stage' \in {"shutdown before", "serving"}  BY <2>1 DEF Begin, Leave
  <2>4. Told' /\ NotBegun'  BY <2>1, <2>2, <2>3 DEF Calls, NotBegun, Untouched, Told
  <2>5. Tape'
    <3>1. CASE Begin("shutdown before")
      BY <2>1, <3>1, EventBegins DEF Calls, NotBegun, Untouched
    <3>2. CASE Leave("serving")
      BY <3>2 DEF Leave, Tape
    <3> QED BY <2>1, <3>1, <3>2
  <2> QED BY <2>1, <2>4, <2>5, CallsMove
<1>5. CASE ListenerReturns
  <2>1. /\ Event /\ Called /\ pending' = Tail(pending)
        /\ UNCHANGED <<stage, attempt, ghosts, announced>>
    BY <1>5 DEF ListenerReturns
  <2>2. Tape' /\ SoFar'  BY <2>1, CalledKept DEF Tape, SoFar
  <2>3. Told' /\ NotBegun' /\ GhostsAgain'
    BY <2>1, CalledKept DEF Calls, NotBegun, Untouched, Told, GhostsAgain, Event
  <2> QED BY <2>2, <2>3 DEF Calls
<1>6. CASE ShutdownBegun
  <2>1. stage = "shutdown before" /\ GivesUp /\ UNCHANGED <<ghosts, announced, ran>>
    BY <1>6 DEF ShutdownBegun
  <2> QED BY <2>1, GivesUpKept, CallsMove
<1>7. CASE DrainTurn \/ DrainEnds \/ ForceClose \/ CloseLoop
  <2>1. UNCHANGED <<ghosts, announced, ran, attempt>>
    BY <1>7 DEF DrainTurn, DrainEnds, ForceClose, CloseLoop, Begin, Leave
  <2>2. CASE stage = "drain" /\ UNCHANGED <<stage, pending>>
    BY <2>1, <2>2, CallsQuiet
  <2>3. CASE Leave("crashed")
    BY <2>1, <2>3, CallsEnd DEF Leave
  <2>4. CASE (stage = "drain" /\ Leave("cancel")) \/ (stage = "shutdown after" /\ Leave("closed"))
    <3>1. Tape' /\ Told' /\ NotBegun'
      BY <2>1, <2>4 DEF Calls, NotBegun, Untouched, Told, Tape, Leave
    <3> QED BY <2>1, <3>1, CallsMove
  <2>5. CASE stage = "cancel" /\ Begin("shutdown after")
    <3>1. stage' = "shutdown after"  BY <2>5 DEF Begin
    <3>2. Tape'  BY <2>1, <2>5, EventBegins DEF Calls, NotBegun, Untouched
    <3>3. Told' /\ NotBegun'  BY <2>1, <2>5, <3>1 DEF Calls, NotBegun, Untouched, Told
    <3> QED BY <2>1, <3>2, <3>3, CallsMove
  <2> QED BY <1>7, <2>2, <2>3, <2>4, <2>5 DEF DrainTurn, DrainEnds, ForceClose, CloseLoop
<1>8. ASSUME NEW error \in MayRaise, ListenerRaises(error) PROVE Calls'
  <2>1. Event /\ Called /\ UNCHANGED <<ghosts, announced>>
    BY <1>8 DEF ListenerRaises
  <2>2. CASE stage \in Shutdowns /\ Again
    BY <2>1, <2>2, Interrupted
  <2>3. CASE Leave("crashed")
    BY <2>1, <2>3, CallsEnd DEF Leave
  <2> QED BY <1>8, <2>2, <2>3 DEF ListenerRaises
<1>9. CASE StopsAtOnce
  <2>1. Event /\ UNCHANGED <<ran, announced>>
    BY <1>9 DEF StopsAtOnce
  <2>2. CASE stage \in Shutdowns /\ Again /\ Abandoned
    BY <2>1, <2>2, Interrupted
  <2>3. CASE Leave("crashed") /\ UNCHANGED ghosts
    BY <2>1, <2>3, CallsEnd DEF Leave
  <2> QED BY <1>9, <2>2, <2>3 DEF StopsAtOnce
<1>10. CASE StopLoop
  <2>1. UNCHANGED announced  BY <1>10 DEF StopLoop
  <2>2. CASE stage = "serving" /\ Begin("shutdown before") /\ UNCHANGED <<ghosts, ran>>
    <3>1. stage' = "shutdown before" /\ UNCHANGED attempt  BY <2>2 DEF Begin
    <3>2. Tape'  BY <2>2, EventBegins DEF Calls, NotBegun, Untouched
    <3>3. Told' /\ NotBegun'  BY <2>1, <2>2, <3>1 DEF Calls, NotBegun, Untouched, Told
    <3> QED BY <2>2, <3>1, <3>2, <3>3, CallsMove
  <2>3. CASE Leave("crashed") /\ UNCHANGED <<ghosts, ran>>
    BY <2>3, CallsEnd DEF Leave
  <2>4. CASE Event /\ Len(pending) = 1 /\ Called /\ pending' = <<>> /\ UNCHANGED <<stage, attempt, ghosts>>
    <3>1. pending' = Tail(pending)
      <4>1. pending \in Seq(Listener) /\ pending # <<>> /\ ran[stage] \in Seq(Listener)
        BY <2>4 DEF LifeTypeOK, Event
      <4> HIDE DEF Listener
      <4> QED BY <2>4, <4>1, TapeMoves
    <3>2. Tape' /\ SoFar'  BY <2>4, <3>1, CalledKept DEF Tape, SoFar
    <3>3. Told' /\ NotBegun' /\ GhostsAgain'
      BY <2>1, <2>4, CalledKept DEF Calls, NotBegun, Untouched, Told, GhostsAgain, Event
    <3> QED BY <3>2, <3>3 DEF Calls
  <2>5. CASE Event /\ stage \in Shutdowns /\ Again /\ Abandoned /\ UNCHANGED ran
    BY <2>1, <2>5, Interrupted
  <2> QED BY <1>10, <2>2, <2>3, <2>4, <2>5 DEF StopLoop
<1>11. CASE SIGTERM
  BY <1>11, CallsEnd DEF SIGTERM, Leave
<1>12. CASE SIGINT
  <2>1. CASE Event
    <3>1. stage \in Shutdowns /\ Again /\ UNCHANGED announced  BY <1>12, <2>1 DEF SIGINT, Event
    <3>2. (Called /\ UNCHANGED ghosts) \/ (Abandoned /\ UNCHANGED ran)  BY <1>12, <2>1 DEF SIGINT
    <3> QED BY <2>1, <3>1, <3>2, Interrupted
  <2>2. CASE ~Event
    BY <1>12, <2>2, CallsEnd DEF SIGINT, Leave
  <2> QED BY <2>1, <2>2
<1>13. ASSUME NEW g \in DOMAIN ghosts, GhostReturns(g) PROVE Calls'
  <2> DEFINE e == ghosts[g].event
  <2>1. ghosts \in Seq(Ghost) /\ ran \in [AllEvents -> Seq(Listener)]  BY DEF LifeTypeOK
  <2>2. e \in Shutdowns /\ attempt[e] = 2
    <3>1. DOMAIN ghosts = 1..Len(ghosts)  BY <2>1, LenProperties
    <3>2. ghosts[g] \in Ghost
      <4> HIDE DEF Ghost
      <4> QED BY <2>1, <3>1, ElementOfSeq
    <3> QED BY <3>2 DEF Calls, GhostsAgain
  <2>3. /\ UNCHANGED <<stage, pending, attempt, announced>>
        /\ \A f \in AllEvents : f # e => ran'[f] = ran[f]
    BY <1>13, <2>1 DEF GhostReturns
  <2>4. \A h \in DOMAIN ghosts' : h \in DOMAIN ghosts /\ ghosts'[h].event = ghosts[h].event
    <3>1. ghosts' = [ghosts EXCEPT ![g].pending = Tail(@)]  BY <1>13 DEF GhostReturns
    <3>2. \A h \in DOMAIN ghosts : ghosts[h] \in Ghost
      <4> HIDE DEF Ghost
      <4> QED BY <2>1, LenProperties, ElementOfSeq
    <3> QED BY <3>1, <3>2
  <2> HIDE DEF e
  <2>5. GhostsAgain'  BY <2>3, <2>4 DEF Calls, GhostsAgain
  <2>6. SoFar'  BY <2>2, <2>3 DEF Calls, SoFar
  <2>7. attempt[e] # 1
    <3> HIDE DEF Shutdowns
    <3> QED BY <2>2, TwoIsNotOne
  <2>8. Told' /\ NotBegun'
    BY <2>2, <2>3, <2>7 DEF Calls, NotBegun, Untouched, Told
  <2>9. Tape'  BY <2>2, <2>3, <2>7 DEF Calls, Tape
  <2> QED BY <2>5, <2>6, <2>8, <2>9 DEF Calls
<1>14. ASSUME NEW c \in Conns, Connection(c) PROVE Calls'
  BY <1>14, CallsQuiet
     DEF Connection, ConnectionMade, RequestBegins, RequestEnds, ConnectionLost, TransportMoves
<1>15. ASSUME NEW t \in Tasks, AddTask(t) \/ TaskEnds(t) \/ CancelTask(t) PROVE Calls'
  BY <1>15, CallsQuiet DEF AddTask, TaskEnds, CancelTask
<1>16. CASE UNCHANGED life_vars
  BY <1>16, CallsQuiet DEF life_vars
<1>17. CASE LifeNext
  BY <1>1, <1>2, <1>3, <1>4, <1>5, <1>6, <1>7, <1>8, <1>9, <1>10, <1>11, <1>12, <1>13, <1>14,
     <1>15, <1>17 DEF LifeNext, Process, CallStop, HandledSignal
<1> QED BY <1>16, <1>17

\* What has been called so far is the first part of what is due.
LEMMA InOrder == LifeTypeOK /\ Calls => ListenersInOrder
<1> SUFFICES ASSUME LifeTypeOK, Calls PROVE ListenersInOrder
  OBVIOUS
<1>1. ran \in [AllEvents -> Seq(Listener)]  BY DEF LifeTypeOK
<1>2. ASSUME NEW e \in DOMAIN ran
      PROVE  \/ \E n \in 0..NumListeners : ran[e] = SubSeq(Due(e), 1, n)
             \/ e \in Shutdowns /\ attempt[e] = 2
  <2>1. e \in AllEvents  BY <1>1
  <2>2. CASE \E rest \in Seq(Listener) : ran[e] \o rest = Order(e)
    <3>1. PICK rest \in Seq(Listener) : ran[e] \o rest = Order(e)  BY <2>2
    <3>2. ran[e] \in Seq(Listener)  BY <1>1, <2>1
    <3>3. ran[e] = SubSeq(Order(e), 1, Len(ran[e])) /\ Len(ran[e]) \in 0..Len(Order(e))
      <4> HIDE DEF Listener
      <4>1. ran[e] = SubSeq(ran[e] \o rest, 1, Len(ran[e])) /\ Len(ran[e]) \in 0..Len(ran[e] \o rest)
        BY <3>2, TapeEnds
      <4> QED BY <3>1, <4>1
    <3>4. Due(e) = Order(e) /\ Len(Order(e)) = NumListeners  BY <2>1, DueIsOrder, OrderTyped
    <3> QED BY <3>3, <3>4
  <2> QED BY <2>1, <2>2 DEF Calls, SoFar
<1>3. ASSUME stage \in Stopping \cup {"closed"}
      PROVE  announced /\ \A e \in Inits : ran[e] = Due(e)
  BY <1>3, DueIsOrder DEF Calls, Told
<1> QED BY <1>2, <1>3 DEF ListenersInOrder

\* The types of the server's life, whatever the number of connections, tasks, listeners,
\* turns and stops.
THEOREM LifeTyped == LifeSpec => []LifeTypeOK
<1> QED BY TypedAtStart, StepTyped, PTL DEF LifeSpec

\* Every listener is called in its order, and the shutdown ones only after all of the
\* start, for any number of listeners, of stops, and wherever they interrupt.
\* (_server_event, _run_shutdown_coro)
THEOREM ListenersAsDue == LifeSpec => []ListenersInOrder
<1> QED BY TypedAtStart, StepTyped, CallsAtStart, StepCalls, InOrder, PTL DEF LifeSpec

\* The only way of a HTTP/1.1 server into its last event is through _cleanup, which leaves
\* nothing that is served.
LEMMA StepQuiet ==
    LifeTypeOK /\ [LifeNext]_life_vars =>
        [stage # "shutdown after" /\ stage' = "shutdown after" /\ ~version3 =>
            /\ ~is_running'
            /\ \A c \in Conns : conns'[c] \in {"none", "closing", "gone"}
            /\ Graceful # 0 => \A t \in Tasks : tasks'[t] = "none"]_life_vars
<1> SUFFICES ASSUME LifeTypeOK, LifeNext, stage # "shutdown after", stage' = "shutdown after", ~version3
             PROVE  /\ ~is_running'
                    /\ \A c \in Conns : conns'[c] \in {"none", "closing", "gone"}
                    /\ Graceful # 0 => \A t \in Tasks : tasks'[t] = "none"
  OBVIOUS
<1>1. GivesUp => stage' # "shutdown after" \/ stage \notin Shutdowns
  BY DEF GivesUp, Leave
<1>2. Again => stage' # "shutdown after" \/ stage \notin Shutdowns
  BY <1>1 DEF Again
<1>3. ForceClose
  BY <1>1, <1>2
     DEF LifeNext, Process, ProcessStartup, Ack, Bind, BindHttp3, Binds, Serve, ServeHttp3, RunForever,
         ListenerReturns, ShutdownBegun, DrainTurn, DrainEnds, CloseLoop, ListenerRaises, StopsAtOnce,
         StopLoop, CallStop, HandledSignal, SIGTERM, SIGINT, Begin, Leave, GhostReturns, Connection,
         ConnectionMade, RequestBegins, RequestEnds, ConnectionLost, TransportMoves, AddTask, TaskEnds,
         CancelTask, Event
<1>4. \A c \in Conns : conns'[c] \in {"none", "closing", "gone"}
  BY <1>3 DEF ForceClose, Live
<1>5. Graceful # 0 => \A t \in Tasks : tasks'[t] = "none"
  BY <1>3 DEF ForceClose
<1> QED BY <1>3, <1>4, <1>5 DEF ForceClose

\* The last listeners are called when nothing is served any more, for any number of
\* connections and of tasks.
THEOREM QuietBeforeTheEnd == LifeSpec => QuietAtTheEnd
<1> QED BY TypedAtStart, StepTyped, StepQuiet, PTL DEF LifeSpec, QuietAtTheEnd

HIDE DEF Inits, Shutdowns, Cleanup, Stopping, Ends, Stages, AllEvents, Listener, Ghost,
         Early1, Early2, Early3, Early4

-----------------------------------------------------------------------------
(* The main processes and the path of their socket *)

Before   == {"none", "start", "check", "listen", "rename"}
Open     == {"rename", "tcp", "manage", "run", "startup", "serving"}
First(i) == <<i, 1>>

\* no worker has been started before the manager runs
Fresh == \A i \in Instances :
    at[Main(i)] \in Before \cup {"tcp", "manage"} => \A p \in Workers(i) : at[p] = "none"

Roles == \A i \in Instances : at[Main(i)] \notin {"load", "startup", "serving"}

\* a socket listens as long as its process serves
Listens == \A p \in Procs :
    /\ at[p] \in Open => p \in listening
    /\ p \in listening => at[p] \in Open \cup {"close"}

\* what is, or was last, at the path has been put there
Put == \A p \in Procs : p = file \/ p = last => at[p] \notin Before \cup {"load"}

\* whoever is about to unlink() has seen the last one dead, or it came since
Late == (\E q \in Procs : at[q] = "unlink") /\ last \in listening => last \in displaced

Removed == \A p \in Procs : at[p] = "ended" /\ file = p => IsMain(p) /\ IsSingle(p)

\* the main process of serve_single() does not end before its one worker
Single == \A i \in Instances : mode[i] = "serve_single" =>
    /\ at[Main(i)] \in (Before \ {"start"}) \cup {"run", "close"} \cup Over
    /\ \A p \in Workers(i) \ {First(i)} : at[p] = "none"
    /\ at[Main(i)] = "run" => at[First(i)] # "none"
    /\ at[Main(i)] \in {"close", "ended"} => at[First(i)] \in Over
    /\ file = Main(i) => at[First(i)] \notin {"startup", "serving", "remove", "unlink", "ended"}

Address == \A i \in tcp :
    /\ at[Main(i)] \in {"manage", "run", "close"} /\ mode[i] = "serve"
    /\ \A j \in tcp : i = j

MainInv ==
    /\ MainTypeOK /\ Roles /\ Fresh /\ Listens /\ Put /\ LastKeepsPath /\ Late /\ Removed /\ Single /\ Address
-----------------------------------------------------------------------------
LEMMA ProcsAre ==
    /\ \A i \in Instances :
          /\ Main(i) \in Procs /\ First(i) \in Procs /\ IsMain(Main(i)) /\ Main(i)[1] = i
          /\ First(i) \in Workers(i) /\ First(i)[1] = i /\ First(i) = <<i, 1>>
          /\ \A p \in Procs : p \in Workers(i) <=> p[1] = i /\ ~IsMain(p)
          /\ \A p \in Procs : p = Main(i) <=> p[1] = i /\ IsMain(p)
          /\ Workers(i) \subseteq Procs
    /\ \A p \in Procs : p[1] \in Instances
    /\ NoSocket \notin Procs /\ Regular \notin Procs /\ Leftover \notin Procs
  <1>1. 0 \in 0..MaxWorkers /\ 1 \in 0..MaxWorkers
    BY MainProcessAssumption DEF MainProcessAssumption
  <1>2. \A p \in Procs : p[1] \in Instances /\ p[2] \in 0..MaxWorkers /\ p = <<p[1], p[2]>>
    BY DEF Procs
  <1>3. NoSocket \notin Procs /\ Regular \notin Procs /\ Leftover \notin Procs
    <2>1. \A p \in Procs : Len(p) = 2
      BY <1>2
    <2>2. Len(NoSocket) = 1 /\ Len(Regular) = 1 /\ Len(Leftover) = 1
      BY DEF NoSocket, Regular, Leftover
    <2> QED BY <2>1, <2>2
  <1>4. ASSUME NEW i \in Instances
        PROVE  /\ Main(i) \in Procs /\ First(i) \in Procs /\ IsMain(Main(i)) /\ Main(i)[1] = i
               /\ First(i) \in Workers(i) /\ First(i)[1] = i /\ First(i) = <<i, 1>>
    BY <1>1 DEF Procs, Main, First, Workers, IsMain
  <1>5. ASSUME NEW i \in Instances
        PROVE  /\ \A p \in Procs : p \in Workers(i) <=> p[1] = i /\ ~IsMain(p)
               /\ \A p \in Procs : p = Main(i) <=> p[1] = i /\ IsMain(p)
               /\ Workers(i) \subseteq Procs
    BY <1>2 DEF Main, Workers, IsMain
  <1> QED BY <1>2, <1>3, <1>4, <1>5

LEMMA ServeKeeps ==
    ASSUME MainInv, NEW i \in Instances, ServeInstance(i) \/ ServeSingle(i)
    PROVE  MainInv'
  <1> USE ProcsAre DEF MainInv, Over, MainTypeOK, IsSingle, ServeInstance, ServeSingle, Goes
  <1>1. MainTypeOK'
    BY DEF MainTypeOK, Closing
  <1>2. Fresh' /\ Roles'
    BY DEF Fresh, Roles, Before
  <1>3. Listens'
    BY DEF Listens, Open, Before
  <1>4. Put'
    BY DEF Put, Before
  <1>5. Late' /\ LastKeepsPath'
    BY DEF Late, LastKeepsPath, Listens, Put, Open, Before
  <1>6. Removed'
    BY DEF Removed, Listens, Put, Open, Before
  <1>7. Single'
    <2> SUFFICES ASSUME NEW j \in Instances, mode'[j] = "serve_single"
                 PROVE  /\ at'[Main(j)] \in (Before \ {"start"}) \cup {"run", "close"} \cup Over
                        /\ \A p \in Workers(j) \ {First(j)} : at'[p] = "none"
                        /\ at'[Main(j)] = "run" => at'[First(j)] # "none"
                        /\ at'[Main(j)] \in {"close", "ended"} => at'[First(j)] \in Over
                        /\ file' = Main(j) => at'[First(j)] \notin {"startup", "serving", "remove", "unlink", "ended"}
      BY DEF Single
    <2>1. \A p \in Workers(j) : at'[p] = at[p]
      OBVIOUS
    <2>2. CASE i = j
      <3>1. at'[Main(j)] = "check" /\ file' # Main(j)
        BY <2>2 DEF Put, Before
      <3>2. \A p \in Workers(j) : at'[p] = "none"
        BY <2>1, <2>2 DEF Fresh, Before
      <3> QED BY <3>1, <3>2 DEF Before
    <2>3. CASE i # j
      <3>1. at'[Main(j)] = at[Main(j)] /\ mode[j] = "serve_single"
        BY <2>3
      <3> QED BY <2>1, <3>1 DEF Single
    <2> QED BY <2>2, <2>3
  <1>8. Address'
    BY DEF Address, Before
  <1> QED BY <1>1, <1>2, <1>3, <1>4, <1>5, <1>6, <1>7, <1>8 DEF MainInv

LEMMA BeginKeeps ==
    ASSUME MainInv, NEW i \in Instances, NEW raises \in BOOLEAN, MainProcessStart(i, raises)
    PROVE  MainInv'
  <1> USE ProcsAre DEF MainInv, Over, MainTypeOK, IsSingle, MainProcessStart, Listeners, Goes
  <1>1. MainTypeOK'
    BY DEF MainTypeOK, Closing
  <1>2. Fresh' /\ Roles'
    BY DEF Fresh, Roles, Before
  <1>3. Listens'
    BY DEF Listens, Open, Before
  <1>4. Put'
    BY DEF Put, Before
  <1>5. Late' /\ LastKeepsPath'
    BY DEF Late, LastKeepsPath, Listens, Put, Open, Before
  <1>6. Removed'
    BY DEF Removed, Listens, Put, Open, Before
  <1>7. Single'
    BY DEF Single, Before
  <1>8. Address'
    BY DEF Address, Before
  <1> QED BY <1>1, <1>2, <1>3, <1>4, <1>5, <1>6, <1>7, <1>8 DEF MainInv

LEMMA LookKeeps ==
    ASSUME MainInv, NEW p \in Procs, Check(p)
    PROVE  MainInv'
  <1> USE ProcsAre DEF MainInv, Over, MainTypeOK, IsSingle, Check, Raises, Goes
  <1>1. MainTypeOK'
    BY DEF MainTypeOK, Closing
  <1>2. Fresh' /\ Roles'
    BY DEF Fresh, Roles, Before
  <1>3. Listens'
    BY DEF Listens, Open, Before
  <1>4. Put'
    BY DEF Put, Before
  <1>5. Late' /\ LastKeepsPath'
    BY DEF Late, LastKeepsPath, Listens, Put, Open, Before
  <1>6. Removed'
    BY DEF Removed, Listens, Put, Open, Before
  <1>7. Single'
    BY DEF Single, Before
  <1>8. Address'
    BY DEF Address, Before
  <1> QED BY <1>1, <1>2, <1>3, <1>4, <1>5, <1>6, <1>7, <1>8 DEF MainInv

LEMMA ListenKeeps ==
    ASSUME MainInv, NEW p \in Procs, Listen(p)
    PROVE  MainInv'
  <1> USE ProcsAre DEF MainInv, Over, MainTypeOK, IsSingle, Listen, Goes
  <1>1. MainTypeOK'
    BY DEF MainTypeOK, Closing
  <1>2. Fresh' /\ Roles'
    BY DEF Fresh, Roles, Before
  <1>3. Listens'
    BY DEF Listens, Open, Before
  <1>4. Put'
    BY DEF Put, Before
  <1>5. Late' /\ LastKeepsPath'
    BY DEF Late, LastKeepsPath, Listens, Put, Open, Before
  <1>6. Removed'
    BY DEF Removed, Listens, Put, Open, Before
  <1>7. Single'
    BY DEF Single, Before
  <1>8. Address'
    BY DEF Address, Before
  <1> QED BY <1>1, <1>2, <1>3, <1>4, <1>5, <1>6, <1>7, <1>8 DEF MainInv

\* A main process of serve_single() starts its worker; any other process goes on alone.
LEMMA Renamed ==
    ASSUME MainInv, NEW p \in Procs, Rename(p)
    PROVE  /\ p \in listening /\ listening' = listening /\ at'[p] # "none"
           /\ \A q \in Procs :
                 \/ at'[q] = at[q]
                 \/ q = p /\ at'[q] = "startup" /\ ~IsMain(p)
                 \/ q = p /\ at'[q] \in {"run", "tcp"} /\ IsMain(p)
                 \/ at[q] = "none" /\ at'[q] = "load" /\ ~IsMain(q) /\ IsMain(p) /\ p[1] = q[1] /\ at'[p] = "run"
  <1>1. at[p] = "rename" /\ at = [q \in Procs |-> at[q]] /\ listening' = listening
    BY DEF Rename, MainInv, MainTypeOK
  <1>2. p \in listening
    BY <1>1 DEF MainInv, Listens, Open
  <1>3. CASE IsMain(p) /\ IsSingle(p)
    <2>1. p = Main(p[1]) /\ p[1] \in Instances /\ First(p[1]) \in Procs /\ First(p[1]) # p
      BY <1>3, ProcsAre
    <2>2. First(p[1]) \in Workers(p[1]) /\ ~IsMain(First(p[1])) /\ First(p[1])[1] = p[1]
      BY <2>1, ProcsAre
    <2>3. at[First(p[1])] = "none"
      BY <1>1, <2>1, <2>2 DEF MainInv, Fresh, Before
    <2>4. at' = [at EXCEPT ![p] = "run", ![First(p[1])] = "load"]
      BY <1>3 DEF Rename, First
    <2>5. \A q \in Procs : at'[q] = IF q = First(p[1]) THEN "load" ELSE IF q = p THEN "run" ELSE at[q]
      BY ONLY <1>1, <2>1, <2>4
    <2>6. at'[p] = "run"
      BY <2>1, <2>5
    <2> QED BY <1>1, <1>2, <1>3, <2>2, <2>3, <2>5, <2>6
  <1>4. CASE ~(IsMain(p) /\ IsSingle(p))
    <2> DEFINE place == IF IsMain(p) THEN "tcp" ELSE "startup"
    <2>1. at' = [at EXCEPT ![p] = place, ![<<p[1], 1>>] = @]
      BY <1>4 DEF Rename
    <2>2. \A q \in Procs : at'[q] = IF q = p THEN place ELSE at[q]
      BY ONLY <1>1, <2>1
    <2> QED BY <1>1, <1>2, <2>2
  <1> QED BY <1>3, <1>4

LEMMA RenameKeeps ==
    ASSUME MainInv, NEW p \in Procs, Rename(p)
    PROVE  MainInv'
  <1> USE ProcsAre DEF MainInv, Over, MainTypeOK, IsSingle
  <1>0. /\ p \in listening /\ listening' = listening /\ at'[p] # "none"
        /\ \A q \in Procs :
              \/ at'[q] = at[q]
              \/ q = p /\ at'[q] = "startup" /\ ~IsMain(p)
              \/ q = p /\ at'[q] \in {"run", "tcp"} /\ IsMain(p)
              \/ at[q] = "none" /\ at'[q] = "load" /\ ~IsMain(q) /\ IsMain(p) /\ p[1] = q[1] /\ at'[p] = "run"
    BY ONLY MainInv, Rename(p), Renamed
  <1>a. at[p] = "rename" /\ mode' = mode
    BY DEF Rename
  <1>1. MainTypeOK'
    BY DEF MainTypeOK, Closing, Rename
  <1>2. Fresh' /\ Roles'
    <2>1. ASSUME NEW i \in Instances PROVE at'[Main(i)] \notin {"load", "startup", "serving"}
      BY <1>0 DEF Roles
    <2>2. ASSUME NEW i \in Instances, at'[Main(i)] \in Before \cup {"tcp", "manage"}, NEW q \in Workers(i)
          PROVE  at'[q] = "none"
      <3>1. q \in Procs /\ ~IsMain(q) /\ q[1] = i /\ Main(i) \in Procs /\ IsMain(Main(i)) /\ Main(i)[1] = i
        BY ONLY <2>2, ProcsAre
      <3>2. p[1] = i /\ IsMain(p) => p = Main(i)
        BY ONLY ProcsAre, <2>2
      <3>3. at[Main(i)] \in Before \cup {"tcp", "manage"}
        BY <1>0, <1>a, <2>2, <3>1 DEF Before
      <3>4. at[q] = "none"
        BY <3>3, <2>2 DEF Fresh
      <3> QED BY <1>0, <1>a, <2>2, <3>1, <3>2, <3>4 DEF Before
    <2> QED BY <2>1, <2>2 DEF Fresh, Roles
  <1>3. Listens'
    BY <1>0, <1>a DEF Listens, Open
  <1>4. Put'
    BY DEF Put, Before, Rename
  <1>5. Late' /\ LastKeepsPath'
    <2>1. (\E q \in Procs : at'[q] = "unlink") => \E q \in Procs : at[q] = "unlink"
      BY <1>0
    <2> QED BY <2>1 DEF Late, LastKeepsPath, Rename
  <1>6. Removed'
    BY DEF Removed, Listens, Put, Open, Before, Rename
  <1>7. Single'
    BY DEF Single, Before, Rename
  <1>8. Address'
    BY DEF Address, Before, Rename
  <1> QED BY <1>1, <1>2, <1>3, <1>4, <1>5, <1>6, <1>7, <1>8 DEF MainInv

LEMMA BindKeeps ==
    ASSUME MainInv, NEW i \in Instances, BindTcp(i)
    PROVE  MainInv'
  <1> USE ProcsAre DEF MainInv, Over, MainTypeOK, IsSingle, BindTcp, Raises, Goes
  <1>1. MainTypeOK'
    BY DEF MainTypeOK, Closing
  <1>2. Fresh' /\ Roles'
    BY DEF Fresh, Roles, Before
  <1>3. Listens'
    BY DEF Listens, Open, Before
  <1>4. Put'
    BY DEF Put, Before
  <1>5. Late' /\ LastKeepsPath'
    BY DEF Late, LastKeepsPath, Listens, Put, Open, Before
  <1>6. Removed'
    BY DEF Removed, Listens, Put, Open, Before
  <1>7. Single'
    BY DEF Single, Before
  <1>8. Address'
    <2>1. CASE tcp \subseteq {i}
      <3>1. mode[i] = "serve"
        BY DEF Single, Before
      <3>2. tcp' = {i} /\ at'[Main(i)] = "manage"
        BY <2>1
      <3> QED BY <3>1, <3>2 DEF Address
    <2>2. CASE ~(tcp \subseteq {i})
      <3>1. tcp' = tcp /\ i \notin tcp
        BY <2>2 DEF Address
      <3>2. \A j \in tcp : at'[Main(j)] = at[Main(j)]
        BY <2>2, <3>1
      <3> QED BY <3>1, <3>2 DEF Address
    <2> QED BY <2>1, <2>2
  <1> QED BY <1>1, <1>2, <1>3, <1>4, <1>5, <1>6, <1>7, <1>8 DEF MainInv

LEMMA ReadyKeeps ==
    ASSUME MainInv, NEW i \in Instances, NEW raises \in BOOLEAN, MainProcessReady(i, raises)
    PROVE  MainInv'
  <1> USE ProcsAre DEF MainInv, Over, MainTypeOK, IsSingle, MainProcessReady, Listeners, Goes
  <1>1. MainTypeOK'
    BY DEF MainTypeOK, Closing
  <1>2. Fresh' /\ Roles'
    BY DEF Fresh, Roles, Before
  <1>3. Listens'
    <2>1. \A q \in Procs : \/ at'[q] = at[q]
                           \/ q = Main(i) /\ at'[q] \in {"run", "close"}
                           \/ at[q] = "none" /\ at'[q] = "load"
      <3>1. \A q \in Procs : q[1] = i /\ q # Main(i) => at[q] = "none"
        BY DEF Fresh, Before
      <3>2. CASE at' = [at EXCEPT ![Main(i)] = "close"]
        BY <3>2
      <3>3. CASE at' = [q \in Procs |-> IF q = Main(i) THEN "run"
                                       ELSE IF q[1] = i /\ q[2] <= StartWorkers THEN "load" ELSE at[q]]
        <4>1. \A q \in Procs : at'[q] = IF q = Main(i) THEN "run"
                                       ELSE IF q[1] = i /\ q[2] <= StartWorkers THEN "load" ELSE at[q]
          BY <3>3
        <4> QED BY <3>1, <4>1
      <3> QED BY <3>2, <3>3
    <2>2. Main(i) \in listening /\ listening' = listening
      BY DEF Listens, Open
    <2> QED BY <2>1, <2>2 DEF Listens, Open
  <1>4. Put'
    <2>1. \A q \in Procs : \/ at'[q] = at[q]
                           \/ q = Main(i) /\ at'[q] \in {"run", "close"}
                           \/ at[q] = "none" /\ at'[q] = "load"
      <3>1. \A q \in Procs : q[1] = i /\ q # Main(i) => at[q] = "none"
        BY DEF Fresh, Before
      <3>2. CASE at' = [at EXCEPT ![Main(i)] = "close"]
        BY <3>2
      <3>3. CASE at' = [q \in Procs |-> IF q = Main(i) THEN "run"
                                       ELSE IF q[1] = i /\ q[2] <= StartWorkers THEN "load" ELSE at[q]]
        <4>1. \A q \in Procs : at'[q] = IF q = Main(i) THEN "run"
                                       ELSE IF q[1] = i /\ q[2] <= StartWorkers THEN "load" ELSE at[q]
          BY <3>3
        <4> QED BY <3>1, <4>1
      <3> QED BY <3>2, <3>3
    <2> QED BY <2>1 DEF Put, Before
  <1>5. Late' /\ LastKeepsPath'
    BY DEF Late, LastKeepsPath, Listens, Put, Open, Before
  <1>6. Removed'
    BY DEF Removed, Listens, Put, Open, Before
  <1>7. Single'
    BY DEF Single, Before
  <1>8. Address'
    BY DEF Address, Before
  <1> QED BY <1>1, <1>2, <1>3, <1>4, <1>5, <1>6, <1>7, <1>8 DEF MainInv

LEMMA SpawnKeeps ==
    ASSUME MainInv, NEW i \in Instances, SpawnWorker(i)
    PROVE  MainInv'
  <1> USE ProcsAre DEF MainInv, Over, MainTypeOK, IsSingle, SpawnWorker, Goes
  <1>1. MainTypeOK'
    BY DEF MainTypeOK, Closing
  <1>2. Fresh' /\ Roles'
    BY DEF Fresh, Roles, Before
  <1>3. Listens'
    BY DEF Listens, Open, Before
  <1>4. Put'
    BY DEF Put, Before
  <1>5. Late' /\ LastKeepsPath'
    BY DEF Late, LastKeepsPath, Listens, Put, Open, Before
  <1>6. Removed'
    BY DEF Removed, Listens, Put, Open, Before
  <1>7. Single'
    BY DEF Single, Before
  <1>8. Address'
    BY DEF Address, Before
  <1> QED BY <1>1, <1>2, <1>3, <1>4, <1>5, <1>6, <1>7, <1>8 DEF MainInv

LEMMA LoadKeeps ==
    ASSUME MainInv, NEW p \in Procs, NEW raises \in BOOLEAN, Load(p, raises)
    PROVE  MainInv'
  <1> USE ProcsAre DEF MainInv, Over, MainTypeOK, IsSingle, Load, Raises, Goes
  <1>1. MainTypeOK'
    BY DEF MainTypeOK, Closing
  <1>2. Fresh' /\ Roles'
    BY DEF Fresh, Roles, Before
  <1>3. Listens'
    BY DEF Listens, Open, Before
  <1>4. Put'
    BY DEF Put, Before
  <1>5. Late' /\ LastKeepsPath'
    BY DEF Late, LastKeepsPath, Listens, Put, Open, Before
  <1>6. Removed'
    BY DEF Removed, Listens, Put, Open, Before
  <1>7. Single'
    BY DEF Single, Before
  <1>8. Address'
    BY DEF Address, Before
  <1> QED BY <1>1, <1>2, <1>3, <1>4, <1>5, <1>6, <1>7, <1>8 DEF MainInv

LEMMA StartUpKeeps ==
    ASSUME MainInv, NEW p \in Procs, NEW raises \in BOOLEAN, StartUp(p, raises)
    PROVE  MainInv'
  <1> USE ProcsAre DEF MainInv, Over, MainTypeOK, IsSingle, StartUp, Raises, Goes
  <1>1. MainTypeOK'
    BY DEF MainTypeOK, Closing
  <1>2. Fresh' /\ Roles'
    BY DEF Fresh, Roles, Before
  <1>3. Listens'
    BY DEF Listens, Open, Before
  <1>4. Put'
    BY DEF Put, Before
  <1>5. Late' /\ LastKeepsPath'
    BY DEF Late, LastKeepsPath, Listens, Put, Open, Before
  <1>6. Removed'
    BY DEF Removed, Listens, Put, Open, Before
  <1>7. Single'
    BY DEF Single, Before
  <1>8. Address'
    BY DEF Address, Before
  <1> QED BY <1>1, <1>2, <1>3, <1>4, <1>5, <1>6, <1>7, <1>8 DEF MainInv

LEMMA ServingKeeps ==
    ASSUME MainInv, NEW p \in Procs, StopServing(p)
    PROVE  MainInv'
  <1> USE ProcsAre DEF MainInv, Over, MainTypeOK, IsSingle, StopServing, Goes
  <1>1. MainTypeOK'
    BY DEF MainTypeOK, Closing
  <1>2. Fresh' /\ Roles'
    BY DEF Fresh, Roles, Before
  <1>3. Listens'
    BY DEF Listens, Open, Before
  <1>4. Put'
    BY DEF Put, Before
  <1>5. Late' /\ LastKeepsPath'
    BY DEF Late, LastKeepsPath, Listens, Put, Open, Before
  <1>6. Removed'
    BY DEF Removed, Listens, Put, Open, Before
  <1>7. Single'
    BY DEF Single, Before
  <1>8. Address'
    BY DEF Address, Before
  <1> QED BY <1>1, <1>2, <1>3, <1>4, <1>5, <1>6, <1>7, <1>8 DEF MainInv

LEMMA JoinedKeeps ==
    ASSUME MainInv, NEW i \in Instances, Joined(i)
    PROVE  MainInv'
  <1> USE ProcsAre DEF MainInv, Over, MainTypeOK, IsSingle, Joined, Goes, Running
  <1>1. MainTypeOK'
    BY DEF MainTypeOK, Closing
  <1>2. Fresh' /\ Roles'
    BY DEF Fresh, Roles, Before
  <1>3. Listens'
    BY DEF Listens, Open, Before
  <1>4. Put'
    BY DEF Put, Before
  <1>5. Late' /\ LastKeepsPath'
    BY DEF Late, LastKeepsPath, Listens, Put, Open, Before
  <1>6. Removed'
    BY DEF Removed, Listens, Put, Open, Before
  <1>7. Single'
    <2> SUFFICES ASSUME NEW j \in Instances, mode'[j] = "serve_single"
                 PROVE  /\ at'[Main(j)] \in (Before \ {"start"}) \cup {"run", "close"} \cup Over
                        /\ \A p \in Workers(j) \ {First(j)} : at'[p] = "none"
                        /\ at'[Main(j)] = "run" => at'[First(j)] # "none"
                        /\ at'[Main(j)] \in {"close", "ended"} => at'[First(j)] \in Over
                        /\ file' = Main(j) => at'[First(j)] \notin {"startup", "serving", "remove", "unlink", "ended"}
      BY DEF Single
    <2>1. \A p \in Workers(j) : at'[p] = at[p]
      OBVIOUS
    <2>2. CASE i = j
      <3>1. at[First(j)] \in Over /\ at'[Main(j)] = "close"
        BY <2>2 DEF Single
      <3> QED BY <2>1, <2>2, <3>1 DEF Single
    <2>3. CASE i # j
      <3>1. at'[Main(j)] = at[Main(j)]
        BY <2>3
      <3> QED BY <2>1, <3>1 DEF Single
    <2> QED BY <2>2, <2>3
  <1>8. Address'
    BY DEF Address, Before
  <1> QED BY <1>1, <1>2, <1>3, <1>4, <1>5, <1>6, <1>7, <1>8 DEF MainInv

LEMMA KillKeeps ==
    ASSUME MainInv, NEW i \in Instances, KillWorkers(i)
    PROVE  MainInv'
  <1> USE ProcsAre DEF MainInv, Over, MainTypeOK, IsSingle, KillWorkers, Running
  <1>1. MainTypeOK'
    BY DEF MainTypeOK, Closing
  <1>2. Fresh' /\ Roles'
    BY DEF Fresh, Roles, Before
  <1>3. Listens'
    BY DEF Listens, Open, Before
  <1>4. Put'
    BY DEF Put, Before
  <1>5. Late' /\ LastKeepsPath'
    BY DEF Late, LastKeepsPath, Listens, Put, Open, Before
  <1>6. Removed'
    BY DEF Removed, Listens, Put, Open, Before
  <1>7. Single'
    BY DEF Single, Before
  <1>8. Address'
    BY DEF Address, Before
  <1> QED BY <1>1, <1>2, <1>3, <1>4, <1>5, <1>6, <1>7, <1>8 DEF MainInv

LEMMA SocketsKeep ==
    ASSUME MainInv, NEW i \in Instances, CloseSockets(i)
    PROVE  MainInv'
  <1> USE ProcsAre DEF MainInv, Over, MainTypeOK, IsSingle, CloseSockets, Goes
  <1>1. MainTypeOK'
    BY DEF MainTypeOK, Closing
  <1>2. Fresh' /\ Roles'
    BY DEF Fresh, Roles, Before
  <1>3. Listens'
    BY DEF Listens, Open, Before
  <1>4. Put'
    BY DEF Put, Before
  <1>5. Late' /\ LastKeepsPath'
    BY DEF Late, LastKeepsPath, Listens, Put, Open, Before
  <1>6. Removed'
    BY DEF Removed, Listens, Put, Open, Before
  <1>7. Single'
    BY DEF Single, Before
  <1>8. Address'
    BY DEF Address, Before
  <1> QED BY <1>1, <1>2, <1>3, <1>4, <1>5, <1>6, <1>7, <1>8 DEF MainInv

LEMMA StopKeeps ==
    ASSUME MainInv, NEW i \in Instances, NEW raises \in BOOLEAN, MainProcessStop(i, raises)
    PROVE  MainInv'
  <1> USE ProcsAre DEF MainInv, Over, MainTypeOK, IsSingle, MainProcessStop, Listeners, Goes
  <1>1. MainTypeOK'
    BY DEF MainTypeOK, Closing
  <1>2. Fresh' /\ Roles'
    BY DEF Fresh, Roles, Before
  <1>3. Listens'
    BY DEF Listens, Open, Before
  <1>4. Put'
    BY DEF Put, Before
  <1>5. Late' /\ LastKeepsPath'
    BY DEF Late, LastKeepsPath, Listens, Put, Open, Before
  <1>6. Removed'
    BY DEF Removed, Listens, Put, Open, Before
  <1>7. Single'
    BY DEF Single, Before
  <1>8. Address'
    BY DEF Address, Before
  <1> QED BY <1>1, <1>2, <1>3, <1>4, <1>5, <1>6, <1>7, <1>8 DEF MainInv

LEMMA RemoveKeeps ==
    ASSUME MainInv, NEW p \in Procs, RemoveUnixSocket(p)
    PROVE  MainInv'
  <1> USE ProcsAre DEF MainInv, Over, MainTypeOK, IsSingle, RemoveUnixSocket, Goes
  <1>1. MainTypeOK'
    BY DEF MainTypeOK, Closing
  <1>2. Fresh' /\ Roles'
    BY DEF Fresh, Roles, Before
  <1>3. Listens'
    BY DEF Listens, Open, Before
  <1>4. Put'
    BY DEF Put, Before
  <1>5. Late' /\ LastKeepsPath'
    BY DEF Late, LastKeepsPath, Listens, Put, Open, Before
  <1>6. Removed'
    BY DEF Removed, Listens, Put, Open, Before
  <1>7. Single'
    BY DEF Single, Before
  <1>8. Address'
    BY DEF Address, Before
  <1> QED BY <1>1, <1>2, <1>3, <1>4, <1>5, <1>6, <1>7, <1>8 DEF MainInv

LEMMA UnlinkKeeps ==
    ASSUME MainInv, NEW p \in Procs, UnlinkSocket(p)
    PROVE  MainInv'
  <1> USE ProcsAre DEF MainInv, Over, MainTypeOK, IsSingle, UnlinkSocket, Goes
  <1>1. MainTypeOK'
    BY DEF MainTypeOK, Closing
  <1>2. Fresh' /\ Roles'
    BY DEF Fresh, Roles, Before
  <1>3. Listens'
    BY DEF Listens, Open, Before
  <1>4. Put'
    BY DEF Put, Before
  <1>5. Late' /\ LastKeepsPath'
    BY DEF Late, LastKeepsPath, Listens, Put, Open, Before
  <1>6. Removed'
    BY DEF Removed, Listens, Put, Open, Before
  <1>7. Single'
    BY DEF Single, Before
  <1>8. Address'
    BY DEF Address, Before
  <1> QED BY <1>1, <1>2, <1>3, <1>4, <1>5, <1>6, <1>7, <1>8 DEF MainInv

LEMMA CrashKeeps ==
    ASSUME MainInv, NEW p \in Procs, CrashOf(p)
    PROVE  MainInv'
  <1> USE ProcsAre DEF MainInv, Over, MainTypeOK, IsSingle, CrashOf, Running
  <1>1. MainTypeOK'
    BY DEF MainTypeOK, Closing
  <1>2. Fresh' /\ Roles'
    BY DEF Fresh, Roles, Before
  <1>3. Listens'
    BY DEF Listens, Open, Before
  <1>4. Put'
    BY DEF Put, Before
  <1>5. Late' /\ LastKeepsPath'
    BY DEF Late, LastKeepsPath, Listens, Put, Open, Before
  <1>6. Removed'
    BY DEF Removed, Listens, Put, Open, Before
  <1>7. Single'
    BY DEF Single, Before
  <1>8. Address'
    BY DEF Address, Before
  <1> QED BY <1>1, <1>2, <1>3, <1>4, <1>5, <1>6, <1>7, <1>8 DEF MainInv

LEMMA OutsideKeeps ==
    ASSUME MainInv, NEW what \in {NoSocket, Regular}, Outside(what)
    PROVE  MainInv'
  <1> USE ProcsAre DEF MainInv, Over, MainTypeOK, IsSingle, Outside
  <1>1. MainTypeOK'
    BY DEF MainTypeOK, Closing
  <1>2. Fresh' /\ Roles'
    BY DEF Fresh, Roles, Before
  <1>3. Listens'
    BY DEF Listens, Open, Before
  <1>4. Put'
    BY DEF Put, Before
  <1>5. Late' /\ LastKeepsPath'
    BY DEF Late, LastKeepsPath, Listens, Put, Open, Before
  <1>6. Removed'
    BY DEF Removed, Listens, Put, Open, Before
  <1>7. Single'
    BY DEF Single, Before
  <1>8. Address'
    BY DEF Address, Before
  <1> QED BY <1>1, <1>2, <1>3, <1>4, <1>5, <1>6, <1>7, <1>8 DEF MainInv

\* Nothing has been bound at the start, and in the state without a step.
LEMMA MainStarts == MainInit \/ MainOff => MainInv
  <1> SUFFICES ASSUME MainInit \/ MainOff PROVE MainInv
    OBVIOUS
  <1> USE ProcsAre DEF MainInit, MainOff, Over
  <1>1. MainTypeOK
    BY DEF MainTypeOK, Closing
  <1>2. \A p \in Procs : at[p] \in {"none", "ended"}
    OBVIOUS
  <1>3. listening = {} /\ tcp = {} /\ file \notin Procs /\ last \notin Procs
    OBVIOUS
  <1>4. \A i \in Instances : mode[i] = "serve"
    OBVIOUS
  <1>5. Fresh
    <2>1. CASE \A p \in Procs : at[p] = "none"
      BY <2>1 DEF Fresh
    <2>2. CASE \A p \in Procs : at[p] = "ended"
      BY <2>2 DEF Fresh, Before
    <2> QED BY <2>1, <2>2
  <1>6. Roles
    BY <1>2 DEF Roles
  <1>7. Listens /\ Put /\ LastKeepsPath /\ Late
    BY <1>2, <1>3 DEF Listens, Put, LastKeepsPath, Late, Open
  <1>8. Removed /\ Single /\ Address
    BY <1>3, <1>4 DEF Removed, Single, Address
  <1> QED BY <1>1, <1>5, <1>6, <1>7, <1>8 DEF MainInv

LEMMA MainSteps == MainInv /\ [MainNext]_main_vars => MainInv'
  <1> SUFFICES ASSUME MainInv, [MainNext]_main_vars PROVE MainInv'
    OBVIOUS
  <1>1. CASE UNCHANGED main_vars
    BY <1>1 DEF main_vars, MainInv, MainTypeOK, Fresh, Roles, Listens, Put, LastKeepsPath, Late, Removed,
                Single, Address, IsSingle
  <1>2. ASSUME NEW i \in Instances,
               \/ ServeInstance(i) \/ ServeSingle(i)
               \/ BindTcp(i) \/ SpawnWorker(i) \/ Joined(i) \/ KillWorkers(i) \/ CloseSockets(i)
               \/ \E raises \in BOOLEAN :
                     MainProcessStart(i, raises) \/ MainProcessReady(i, raises) \/ MainProcessStop(i, raises)
        PROVE  MainInv'
    BY <1>2, ServeKeeps, BindKeeps, SpawnKeeps, JoinedKeeps, KillKeeps, SocketsKeep, BeginKeeps, ReadyKeeps,
       StopKeeps
  <1>3. ASSUME NEW p \in Procs,
               \/ Check(p) \/ Listen(p) \/ Rename(p) \/ StopServing(p)
               \/ RemoveUnixSocket(p) \/ UnlinkSocket(p) \/ CrashOf(p)
               \/ \E raises \in BOOLEAN : Load(p, raises) \/ StartUp(p, raises)
        PROVE  MainInv'
    BY <1>3, LookKeeps, ListenKeeps, RenameKeeps, ServingKeeps, RemoveKeeps, UnlinkKeeps, CrashKeeps,
       LoadKeeps, StartUpKeeps
  <1>4. ASSUME NEW what \in {NoSocket, Regular}, Outside(what)
        PROVE  MainInv'
    BY <1>4, OutsideKeeps
  <1> QED BY <1>1, <1>2, <1>3, <1>4 DEF MainNext

LEMMA MainMeans == MainInv => MainTypeOK /\ PathKept
  <1> SUFFICES ASSUME MainInv PROVE PathKept
    BY DEF MainInv
  <1> USE ProcsAre DEF MainInv, MainTypeOK, Over
  <1>1. PathAnswers
    BY DEF PathAnswers, Put, Listens, Before, Open, Closing
  <1>2. Cardinality(tcp) <= 1
    <2>1. CASE tcp = {}
      BY <2>1, FS_EmptySet
    <2>2. CASE tcp # {}
      <3>1. PICK i \in tcp : TRUE
        BY <2>2
      <3>2. tcp = {i}
        BY <3>1 DEF Address
      <3>3. Cardinality({i}) = 1
        BY FS_Singleton
      <3> QED BY <3>2, <3>3
    <2> QED BY <2>1, <2>2
  <1>3. ASSUME \A p \in Procs : at[p] \in {"none", "ended"}
        PROVE  file \notin Procs /\ listening = {} /\ tcp = {}
    <2>1. listening = {}
      BY <1>3 DEF Listens, Open
    <2>2. tcp = {}
      BY <1>3 DEF Address
    <2>3. ASSUME file \in Procs PROVE FALSE
      <3>1. PICK p \in Procs : p = file
        BY <2>3
      <3>2. at[p] = "ended" /\ IsMain(p) /\ IsSingle(p)
        BY <1>3, <3>1 DEF Put, Before, Removed
      <3>3. PICK i \in Instances : p = Main(i) /\ mode[i] = "serve_single"
        BY <3>2 DEF IsSingle
      <3>4. at[First(i)] \in Over /\ at[First(i)] # "ended"
        BY <3>1, <3>2, <3>3 DEF Single
      <3>5. at[First(i)] \in {"none", "ended"}
        BY <1>3
      <3> QED BY <3>4, <3>5
    <2> QED BY <2>1, <2>2, <2>3
  <1>4. NothingLeft
    BY <1>2, <1>3 DEF NothingLeft
  <1> QED BY <1>1, <1>4 DEF PathKept

LEMMA MainKept == MainSpec => []MainInv
  BY MainStarts, MainSteps, PTL DEF MainSpec

\* However many instances take over from each other, with however many workers, whatever fails,
\* is killed or is put at the path meanwhile: the socket at the path answers until its process
\* closes it to end, whoever came last keeps the path, and what ends by itself leaves nothing.
\* (bind_unix_socket, remove_unix_socket, serve, serve_single)
THEOREM PathAlwaysKept == MainSpec => []PathKept
  BY MainKept, MainMeans, PTL
-----------------------------------------------------------------------------
(* The servers of a worker *)

\* the servers of an application whose task is at one of these places
Of(app, places) == {s \in ServersOf(app) \cap DOMAIN run_server : run_server[s] \in places}
Later == {"shutdown_after", "over", "raised"}
One(c) == IF c THEN 1 ELSE 0

\* what is where in which part of the worker's life
Placed ==
    IF life \in {"prepare", "run"}
    THEN /\ run_server = <<>> /\ stages = <<>> /\ listens = {} /\ to_start = {}
         /\ \A app \in AppNames : \A event \in Events : began[app][event] = 0
    ELSE /\ DOMAIN run_server = AllServers /\ FirstServer \in AllServers
         /\ run_server[FirstServer] = "none" /\ stages[FirstServer] = "SERVING"
         /\ \A s \in to_start : s # FirstServer /\ run_server[s] = "none"
         /\ \A s \in AllServers :
               /\ run_server[s] \in {"shutdown_before", "shutdown_after", "over", "cancelled"} =>
                     life \in {"stopping", "closed"}
               /\ run_server[s] = "created" => life \in {"starting", "up", "failed"}
         /\ life \notin {"starting", "failed"} => to_start = {}

\* what serves, or is being started or shut down, has been started
Begun ==
    /\ \A app \in AppNames : began[app]["init_before"] = 0 => \A event \in Events : began[app][event] = 0
    /\ \A s \in DOMAIN run_server :
          stages[s] = "SERVING" \/ run_server[s] \in Events \cup {"serve_forever", "over"} =>
             began[s[1]]["init_before"] # 0

\* every call of listeners is one of a server's task, or of the primary application's
Counted == \A app \in AppNames :
    /\ began[app]["init_before"] <= 1 + Cardinality(Of(app, {"raised"}))
    /\ life \in {"starting", "up"} /\ IsStopped(app) =>
          began[app]["init_before"] <= Cardinality(Of(app, {"raised"}))
    /\ began[app]["init_after"] + Cardinality(Of(app, {"init_before"}))
          + One(app = primary /\ life = "starting") <= began[app]["init_before"]
    /\ began[app]["shutdown_before"] <=
          Cardinality(Of(app, {"shutdown_before"} \cup Later))
             + One(app = primary /\ life \in {"stopping", "closed"})
    /\ began[app]["shutdown_after"] <=
          Cardinality(Of(app, Later)) + One(app = primary /\ life = "closed")

OnlyFirst == \A s \in listens : infos[s[1]][s[2]] = 3 => s = FirstServer

SecondaryInv == SecondaryTypeOK /\ Placed /\ Begun /\ Counted /\ OnlyFirst
-----------------------------------------------------------------------------
LEMMA EventsAre ==
    /\ Events = {"init_before", "init_after", "shutdown_before", "shutdown_after"}
    /\ InitEvents = {"init_before", "init_after"}
  BY DEF Events, InitEvents

LEMMA NamesAre ==
    "init_before" \in Events /\ "init_after" \in Events /\ "shutdown_before" \in Events /\ "shutdown_after" \in Events
  BY EventsAre

\* The servers of an application are as many as were prepared.
LEMMA ServersAre ==
    ASSUME infos \in [AppNames -> Seq({1, 3})]
    PROVE  /\ \A app \in AppNames :
                 /\ IsFiniteSet(ServersOf(app)) /\ Cardinality(ServersOf(app)) <= Len(infos[app])
                 /\ \A s \in ServersOf(app) : s[1] = app /\ s \in AllServers
           /\ \A s \in AllServers : s[1] \in AppNames /\ s \in ServersOf(s[1])
  <1>1. ASSUME NEW app \in AppNames
        PROVE  IsFiniteSet(ServersOf(app)) /\ Cardinality(ServersOf(app)) <= Len(infos[app])
    <2> DEFINE n == Len(infos[app])
               f == [k \in 1..n |-> <<app, k>>]
    <2>1. n \in Nat /\ DOMAIN infos[app] = 1..n
      OBVIOUS
    <2>2. f \in Surjection(1..n, ServersOf(app))
      BY <2>1 DEF Surjection, ServersOf
    <2>3. IsFiniteSet(1..n) /\ Cardinality(1..n) = n
      <3>1. 1 \in Int /\ n \in Int
        BY <2>1
      <3>2. IsFiniteSet(1..n) /\ Cardinality(1..n) = IF 1 > n THEN 0 ELSE n - 1 + 1
        BY <3>1, FS_Interval
      <3> QED BY <2>1, <3>2
    <2> HIDE DEF f
    <2> QED BY <2>2, <2>3, FS_Surjection
  <1>2. ASSUME NEW app \in AppNames, NEW s \in ServersOf(app) PROVE s[1] = app /\ s \in AllServers
    BY DEF ServersOf, AllServers
  <1>3. ASSUME NEW s \in AllServers PROVE s[1] \in AppNames /\ s \in ServersOf(s[1])
    BY DEF ServersOf, AllServers
  <1> QED BY <1>1, <1>2, <1>3

\* There are finitely many at any place.
LEMMA OfCounts ==
    ASSUME infos \in [AppNames -> Seq({1, 3})], NEW app \in AppNames, NEW places
    PROVE  /\ IsFiniteSet(Of(app, places)) /\ Cardinality(Of(app, places)) \in Nat
           /\ Cardinality(Of(app, places)) <= Len(infos[app])
           /\ Of(app, places) \subseteq ServersOf(app)
  <1>1. Of(app, places) \subseteq ServersOf(app)
    BY DEF Of
  <1>2. IsFiniteSet(ServersOf(app)) /\ Cardinality(ServersOf(app)) <= Len(infos[app])
    BY ServersAre
  <1>3. IsFiniteSet(Of(app, places)) /\ Cardinality(Of(app, places)) <= Cardinality(ServersOf(app))
    BY <1>1, <1>2, FS_Subset
  <1>4. Cardinality(Of(app, places)) \in Nat /\ Cardinality(ServersOf(app)) \in Nat /\ Len(infos[app]) \in Nat
    BY <1>2, <1>3, FS_CardinalityType
  <1> QED BY <1>1, <1>2, <1>3, <1>4

\* One server's task goes from one place to another.
GoesTo(s, to) == infos' = infos /\ run_server' = [run_server EXCEPT ![s] = to]

LEMMA OneMoves ==
    ASSUME infos \in [AppNames -> Seq({1, 3})], DOMAIN run_server = AllServers,
           NEW s \in AllServers, NEW to, GoesTo(s, to),
           NEW app \in AppNames, NEW places
    PROVE  /\ Cardinality(Of(app, places)') \in Nat
           /\ Cardinality(Of(app, places)') =
                 Cardinality(Of(app, places)) + One(app = s[1] /\ to \in places)
                                              - One(app = s[1] /\ run_server[s] \in places)
  <1>1. Of(app, places)' = {t \in ServersOf(app) \cap AllServers : run_server'[t] \in places}
    BY DEF GoesTo, Of, ServersOf
  <1>2. \A t \in AllServers : run_server'[t] = IF t = s THEN to ELSE run_server[t]
    BY DEF GoesTo
  <1>3. IsFiniteSet(Of(app, places)) /\ Cardinality(Of(app, places)) \in Nat
    BY OfCounts
  <1>4. s \in ServersOf(app) <=> app = s[1]
    BY ServersAre
  <1>5. CASE app = s[1] /\ to \in places
    <2>1. Of(app, places)' = Of(app, places) \cup {s}
      BY <1>1, <1>2, <1>4, <1>5 DEF Of
    <2>2. s \in Of(app, places) <=> run_server[s] \in places
      BY <1>4, <1>5 DEF Of
    <2>3. Cardinality(Of(app, places) \cup {s}) = IF s \in Of(app, places) THEN Cardinality(Of(app, places))
                                                  ELSE Cardinality(Of(app, places)) + 1
      BY <1>3, FS_AddElement
    <2> QED BY <1>3, <1>5, <2>1, <2>2, <2>3 DEF One
  <1>6. CASE ~(app = s[1] /\ to \in places)
    <2>1. Of(app, places)' = Of(app, places) \ {s}
      BY <1>1, <1>2, <1>4, <1>6 DEF Of
    <2>2. s \in Of(app, places) <=> app = s[1] /\ run_server[s] \in places
      BY <1>4 DEF Of
    <2>3. /\ Cardinality(Of(app, places) \ {s}) = IF s \in Of(app, places) THEN Cardinality(Of(app, places)) - 1
                                                  ELSE Cardinality(Of(app, places))
          /\ IsFiniteSet(Of(app, places) \ {s})
      BY <1>3, FS_RemoveElement
    <2>4. Cardinality(Of(app, places) \ {s}) \in Nat
      BY <2>3, FS_CardinalityType
    <2> QED BY <1>3, <1>6, <2>1, <2>2, <2>3, <2>4 DEF One
  <1> QED BY <1>5, <1>6

\* One more call is counted.
LEMMA CallIs ==
    ASSUME began \in [AppNames -> [Events -> Nat]], NEW app \in AppNames, NEW event \in Events, Call(app, event)
    PROVE  /\ began' \in [AppNames -> [Events -> Nat]]
           /\ \A a \in AppNames : \A e \in Events :
                 began'[a][e] = began[a][e] + One(a = app /\ e = event)
  <1>1. began' = [began EXCEPT ![app] = [began[app] EXCEPT ![event] = began[app][event] + 1]]
    BY DEF Call
  <1> DEFINE now == [began[app] EXCEPT ![event] = began[app][event] + 1]
  <1>2. now \in [Events -> Nat] /\ \A e \in Events : now[e] = began[app][e] + One(e = event)
    BY DEF One
  <1> HIDE DEF now
  <1>3. began' \in [AppNames -> [Events -> Nat]]
    BY <1>1, <1>2
  <1>4. ASSUME NEW a \in AppNames, NEW e \in Events
        PROVE  began'[a][e] = began[a][e] + One(a = app /\ e = event)
    <2>1. CASE a = app
      BY <1>1, <1>2, <2>1 DEF One
    <2>2. CASE a # app
      BY <1>1, <2>2 DEF One
    <2> QED BY <2>1, <2>2
  <1> QED BY <1>3, <1>4
-----------------------------------------------------------------------------
\* What the names stand for when no server is prepared or given up.
LEMMA SameServers ==
    ASSUME infos' = infos, primary' = primary
    PROVE  /\ AllServers' = AllServers /\ FirstServer' = FirstServer
           /\ \A app \in AppNames : ServersOf(app)' = ServersOf(app)
  BY DEF AllServers, ServersOf, FirstServer, AppNames

LEMMA Typed ==
    ASSUME SecondaryTypeOK
    PROVE  /\ infos \in [AppNames -> Seq({1, 3})] /\ primary \in AppNames
           /\ began \in [AppNames -> [Events -> Nat]] /\ DOMAIN stages = DOMAIN run_server
           /\ \A app \in AppNames : \A event \in Events : began[app][event] \in Nat
  BY DEF SecondaryTypeOK

\* The five bounds of Counted, for one application.
Bounds(app) ==
    /\ began[app]["init_before"] <= 1 + Cardinality(Of(app, {"raised"}))
    /\ life \in {"starting", "up"} /\ IsStopped(app) =>
          began[app]["init_before"] <= Cardinality(Of(app, {"raised"}))
    /\ began[app]["init_after"] + Cardinality(Of(app, {"init_before"}))
          + One(app = primary /\ life = "starting") <= began[app]["init_before"]
    /\ began[app]["shutdown_before"] <=
          Cardinality(Of(app, {"shutdown_before"} \cup Later))
             + One(app = primary /\ life \in {"stopping", "closed"})
    /\ began[app]["shutdown_after"] <=
          Cardinality(Of(app, Later)) + One(app = primary /\ life = "closed")

\* A server is prepared.
LEMMA PrepareKeeps ==
    ASSUME SecondaryInv, NEW app \in AppNames, NEW version \in {1, 3}, Prepare(app, version), life' \in {life, "run"}
    PROVE  SecondaryInv'
  <1>1. /\ life \in {"prepare", "run"} /\ life' \in {"prepare", "run"} /\ run_server' = <<>> /\ stages' = <<>>
        /\ listens' = {} /\ to_start' = {} /\ UNCHANGED <<primary, is_started, calls_stop, began>>
        /\ \A a \in AppNames : \A event \in Events : began[a][event] = 0
    BY DEF SecondaryInv, Placed, Prepare
  <1>2. SecondaryTypeOK
    BY DEF SecondaryInv
  <1>3. infos' \in [AppNames -> Seq({1, 3})]
    BY <1>2 DEF SecondaryTypeOK, Prepare
  <1>4. SecondaryTypeOK'
    BY <1>1, <1>2, <1>3 DEF SecondaryTypeOK
  <1>5. Placed' /\ Begun' /\ OnlyFirst'
    BY <1>1, EventsAre DEF Placed, Begun, OnlyFirst
  <1>6. ASSUME NEW a \in AppNames, NEW places PROVE Cardinality(Of(a, places)') = 0
    <2>1. Of(a, places)' = {}
      BY <1>1 DEF Of
    <2> QED BY <2>1, FS_EmptySet
  <1>7. ASSUME NEW a \in AppNames PROVE Bounds(a)'
    <2>1. \A event \in Events : began'[a][event] = 0
      BY <1>1
    <2>2. life' \notin {"starting", "up", "stopping", "closed"}
      BY <1>1
    <2> QED BY <1>6, <2>1, <2>2, EventsAre DEF Bounds, One
  <1>8. Counted'
    BY <1>7 DEF Counted, Bounds
  <1> QED BY <1>4, <1>5, <1>8 DEF SecondaryInv

\* worker_serve: nothing serves yet but the first server of the primary application.
LEMMA WorkerServeKeeps ==
    ASSUME SecondaryInv, WorkerServe
    PROVE  SecondaryInv'
  <1>1. /\ SecondaryTypeOK /\ infos \in [AppNames -> Seq({1, 3})] /\ primary \in AppNames
        /\ began \in [AppNames -> [Events -> Nat]]
        /\ listens = {} /\ \A a \in AppNames : \A event \in Events : began[a][event] = 0
    BY Typed DEF SecondaryInv, Placed, WorkerServe
  <1>2. /\ infos[primary] # <<>> /\ life' = "starting"
        /\ stages' = [s \in AllServers |-> IF s = FirstServer THEN "SERVING" ELSE "STOPPED"]
        /\ run_server' = [s \in AllServers |-> "none"] /\ to_start' = AllServers \ {FirstServer}
        /\ is_started' = {primary} /\ Call(primary, "init_before")
        /\ UNCHANGED <<primary, infos, listens, calls_stop>>
    BY DEF WorkerServe
  <1>3. FirstServer \in AllServers /\ FirstServer[1] = primary /\ FirstServer \in ServersOf(primary)
    <2>1. 1 \in DOMAIN infos[primary]
      BY <1>1, <1>2
    <2>2. FirstServer \in ServersOf(primary)
      BY <2>1 DEF FirstServer, ServersOf
    <2> QED BY <1>1, <2>2, ServersAre DEF FirstServer
  <1>4. AllServers' = AllServers /\ FirstServer' = FirstServer /\ \A a \in AppNames : ServersOf(a)' = ServersOf(a)
    BY <1>2, SameServers
  <1>5. "init_before" \in Events
    BY EventsAre
  <1>6. /\ began' \in [AppNames -> [Events -> Nat]]
        /\ \A a \in AppNames : \A e \in Events : began'[a][e] = began[a][e] + One(a = primary /\ e = "init_before")
    BY <1>1, <1>2, <1>5, CallIs
  <1>7. \A a \in AppNames : \A e \in Events : began'[a][e] = One(a = primary /\ e = "init_before")
    BY <1>1, <1>6 DEF One
  <1>8. SecondaryTypeOK'
    BY <1>1, <1>2, <1>3, <1>6 DEF SecondaryTypeOK
  <1>9. Placed'
    BY <1>2, <1>3, <1>4 DEF Placed
  <1>10. Begun'
    <2>1. \A t \in AllServers : stages'[t] = "SERVING" => t[1] = primary
      BY <1>2, <1>3
    <2>2. DOMAIN run_server' = AllServers /\ \A t \in AllServers : run_server'[t] = "none"
      BY <1>2
    <2>3. began'[primary]["init_before"] = 1
      BY <1>1, <1>5, <1>7 DEF One
    <2>4. \A a \in AppNames : began'[a]["init_before"] = 0 => a # primary
      BY <2>3
    <2>5. \A a \in AppNames : a # primary => \A e \in Events : began'[a][e] = 0
      BY <1>7 DEF One
    <2> QED BY <2>1, <2>2, <2>3, <2>4, <2>5, EventsAre DEF Begun
  <1>11. OnlyFirst'
    BY <1>1, <1>2 DEF OnlyFirst
  <1>12. ASSUME NEW a \in AppNames, NEW places, "none" \notin places PROVE Cardinality(Of(a, places)') = 0
    <2>1. Of(a, places)' = {}
      BY <1>2, <1>12 DEF Of
    <2> QED BY <2>1, FS_EmptySet
  <1>13. ASSUME NEW a \in AppNames, IsStopped(a)' PROVE a # primary
    <2>1. \A s \in ServersOf(a) : stages'[s] # "SERVING"
      BY <1>4, <1>13 DEF IsStopped
    <2>2. stages'[FirstServer] = "SERVING"
      BY <1>2, <1>3
    <2> QED BY <1>3, <2>1, <2>2
  <1>14. ASSUME NEW a \in AppNames PROVE Bounds(a)'
    <2>1. /\ Cardinality(Of(a, {"raised"})') = 0 /\ Cardinality(Of(a, {"init_before"})') = 0
          /\ Cardinality(Of(a, {"shutdown_before"} \cup Later)') = 0 /\ Cardinality(Of(a, Later)') = 0
      BY <1>12 DEF Later
    <2>2. /\ began'[a]["init_before"] = One(a = primary) /\ began'[a]["init_after"] = 0
          /\ began'[a]["shutdown_before"] = 0 /\ began'[a]["shutdown_after"] = 0
      BY <1>7, EventsAre DEF One
    <2>3. IsStopped(a)' => a # primary
      BY <1>13
    <2>4. life' = "starting" /\ primary' = primary
      BY <1>2
    <2> QED BY <2>1, <2>2, <2>3, <2>4 DEF Bounds, One
  <1>15. Counted'
    BY <1>14 DEF Counted, Bounds
  <1> QED BY <1>8, <1>9, <1>10, <1>11, <1>15 DEF SecondaryInv

\* A server listens, or does not.
LEMMA StartServerKeeps ==
    ASSUME SecondaryInv, NEW os_error \in BOOLEAN, StartServer(os_error)
    PROVE  SecondaryInv'
  <1>1. life = "starting" /\ UNCHANGED <<primary, infos, stages, is_started, calls_stop, began>>
    BY DEF StartServer
  <1>2. /\ SecondaryTypeOK /\ infos \in [AppNames -> Seq({1, 3})] /\ primary \in AppNames
        /\ DOMAIN stages = DOMAIN run_server /\ to_start \subseteq DOMAIN stages
    BY DEF SecondaryInv, SecondaryTypeOK
  <1>3. /\ DOMAIN run_server = AllServers /\ FirstServer \in AllServers
        /\ run_server[FirstServer] = "none" /\ stages[FirstServer] = "SERVING"
        /\ \A s \in to_start : s # FirstServer /\ run_server[s] = "none"
        /\ \A s \in AllServers :
               /\ run_server[s] \in {"shutdown_before", "shutdown_after", "over", "cancelled"} =>
                     life \in {"stopping", "closed"}
    BY <1>1 DEF SecondaryInv, Placed
  <1>4. AllServers' = AllServers /\ FirstServer' = FirstServer /\ \A a \in AppNames : ServersOf(a)' = ServersOf(a)
    BY <1>1, SameServers
  <1>5. PICK s \in to_start :
           IF infos[s[1]][s[2]] = 3
             THEN life' = "failed" /\ UNCHANGED <<to_start, listens, run_server>>
             ELSE /\ to_start' = to_start \ {s} /\ UNCHANGED life
                  /\ IF os_error THEN UNCHANGED <<listens, run_server>>
                     ELSE /\ listens' = listens \cup {s}
                          /\ run_server' = [run_server EXCEPT ![s] = "created"]
    BY DEF StartServer
  <1>6. s \in AllServers /\ run_server[s] = "none" /\ s # FirstServer
    BY <1>2, <1>3
  <1>7. /\ DOMAIN run_server' = AllServers
        /\ \A t \in AllServers : run_server'[t] = run_server[t] \/ (t = s /\ run_server'[t] = "created")
    BY <1>3, <1>5
  <1>8. life' = "starting" \/ (life' = "failed" /\ UNCHANGED <<to_start, listens, run_server>>)
    BY <1>1, <1>5
  <1>9. SecondaryTypeOK'
    <2>1. listens' \subseteq AllServers /\ to_start' \subseteq AllServers
      BY <1>2, <1>3, <1>5, <1>6 DEF SecondaryTypeOK
    <2> QED BY <1>1, <1>2, <1>3, <1>7, <1>8, <2>1 DEF SecondaryTypeOK
  <1>10. Placed'
    <2>1. \A t \in to_start' : t \in to_start /\ (t # s \/ run_server' = run_server)
      BY <1>5
    <2>2. \A t \in to_start' : t # FirstServer /\ run_server'[t] = "none"
      BY <1>2, <1>3, <1>7, <2>1
    <2>3. run_server'[FirstServer] = "none"
      BY <1>3, <1>6, <1>7
    <2>4. life' \in {"starting", "failed"}
      BY <1>8
    <2> QED BY <1>1, <1>3, <1>4, <1>7, <2>2, <2>3, <2>4 DEF Placed
  <1>11. Begun'
    <2>1. Begun
      BY DEF SecondaryInv
    <2> QED BY <1>1, <1>3, <1>7, <2>1, EventsAre DEF Begun
  <1>12. OnlyFirst'
    <2>1. OnlyFirst
      BY DEF SecondaryInv
    <2> QED BY <1>1, <1>4, <1>5, <2>1 DEF OnlyFirst
  <1>13. ASSUME NEW a \in AppNames, NEW places, "none" \notin places, "created" \notin places
         PROVE  Of(a, places)' = Of(a, places)
    <2>1. Of(a, places)' = {t \in ServersOf(a) \cap AllServers : run_server'[t] \in places}
      BY <1>4, <1>7 DEF Of
    <2>2. \A t \in AllServers : run_server'[t] \in places <=> run_server[t] \in places
      BY <1>6, <1>7, <1>13
    <2> QED BY <1>3, <2>1, <2>2 DEF Of
  <1>14. ASSUME NEW a \in AppNames PROVE Bounds(a)'
    <2>1. /\ Of(a, {"raised"})' = Of(a, {"raised"}) /\ Of(a, {"init_before"})' = Of(a, {"init_before"})
          /\ Of(a, {"shutdown_before"} \cup Later)' = Of(a, {"shutdown_before"} \cup Later)
          /\ Of(a, Later)' = Of(a, Later)
      BY <1>13 DEF Later
    <2>2. IsStopped(a)' = IsStopped(a)
      BY <1>1, <1>4 DEF IsStopped
    <2>3. /\ began[a]["init_before"] \in Nat /\ began[a]["init_after"] \in Nat
      BY <1>2, Typed, EventsAre
    <2>4. Cardinality(Of(a, {"init_before"})) \in Nat
      BY <1>2, OfCounts
    <2>5. Bounds(a)
      BY DEF SecondaryInv, Counted, Bounds
    <2> QED BY <1>1, <1>8, <2>1, <2>2, <2>3, <2>4, <2>5 DEF Bounds, One
  <1>15. Counted'
    BY <1>14 DEF Counted, Bounds
  <1> QED BY <1>9, <1>10, <1>11, <1>12, <1>15 DEF SecondaryInv

\* _start_servers returns.
LEMMA AllStartedKeeps ==
    ASSUME SecondaryInv, AllStarted
    PROVE  SecondaryInv'
  <1>1. /\ life = "starting" /\ to_start = {} /\ life' = "up" /\ listens' = listens \cup {FirstServer}
        /\ Call(primary, "init_after") /\ UNCHANGED <<primary, infos, stages, run_server, to_start, is_started, calls_stop>>
    BY DEF AllStarted
  <1>2. /\ SecondaryTypeOK /\ infos \in [AppNames -> Seq({1, 3})] /\ primary \in AppNames
        /\ DOMAIN stages = DOMAIN run_server /\ began \in [AppNames -> [Events -> Nat]]
        /\ \A a \in AppNames : \A event \in Events : began[a][event] \in Nat
    BY Typed DEF SecondaryInv
  <1>3. DOMAIN run_server = AllServers /\ FirstServer \in AllServers /\ stages[FirstServer] = "SERVING"
    BY <1>1 DEF SecondaryInv, Placed
  <1>4. AllServers' = AllServers /\ FirstServer' = FirstServer /\ \A a \in AppNames : ServersOf(a)' = ServersOf(a)
    BY <1>1, SameServers
  <1>5. /\ began' \in [AppNames -> [Events -> Nat]]
        /\ \A a \in AppNames : \A e \in Events : began'[a][e] = began[a][e] + One(a = primary /\ e = "init_after")
    BY <1>1, <1>2, CallIs, EventsAre
  <1>6. SecondaryTypeOK'
    BY <1>1, <1>2, <1>3, <1>5 DEF SecondaryTypeOK
  <1>7. Placed'
    BY <1>1, <1>4 DEF SecondaryInv, Placed
  <1>8. began[primary]["init_before"] # 0 /\ FirstServer[1] = primary
    BY <1>2, <1>3 DEF SecondaryInv, Begun, FirstServer
  <1>9. \A a \in AppNames : began'[a]["init_before"] = began[a]["init_before"]
    <2>1. ASSUME NEW a \in AppNames PROVE began'[a]["init_before"] = began[a]["init_before"]
      <3>1. \A e \in Events : began'[a][e] = began[a][e] + One(a = primary /\ e = "init_after")
        BY <1>5
      <3>2. /\ began'[a]["init_before"] = began[a]["init_before"] + One(a = primary /\ "init_before" = "init_after")
            /\ began'[a]["init_after"] = began[a]["init_after"] + One(a = primary /\ "init_after" = "init_after")
            /\ began'[a]["shutdown_before"] = began[a]["shutdown_before"] + One(a = primary /\ "shutdown_before" = "init_after")
            /\ began'[a]["shutdown_after"] = began[a]["shutdown_after"] + One(a = primary /\ "shutdown_after" = "init_after")
        BY <3>1, NamesAre
      <3>3. /\ began[a]["init_before"] \in Nat /\ began[a]["init_after"] \in Nat
            /\ began[a]["shutdown_before"] \in Nat /\ began[a]["shutdown_after"] \in Nat
        BY <1>2, NamesAre
      <3> QED BY <3>2, <3>3 DEF One
    <2> QED BY <2>1
  <1>10. Begun'
    <2>1. ASSUME NEW a \in AppNames, began'[a]["init_before"] = 0 PROVE \A e \in Events : began'[a][e] = 0
      <3>1. a # primary /\ \A e \in Events : began[a][e] = 0
        BY <1>8, <1>9, <2>1 DEF SecondaryInv, Begun
      <3> QED BY <1>5, <3>1 DEF One
    <2>2. ASSUME NEW t \in AllServers,
                 stages[t] = "SERVING" \/ run_server[t] \in Events \cup {"serve_forever", "over"}
          PROVE  began'[t[1]]["init_before"] # 0
      <3>1. began[t[1]]["init_before"] # 0 /\ t[1] \in AppNames
        BY <1>2, <1>3, <2>2, ServersAre DEF SecondaryInv, Begun
      <3> QED BY <1>9, <3>1
    <2> QED BY <1>1, <1>3, <2>1, <2>2 DEF Begun
  <1>11. OnlyFirst'
    BY <1>1, <1>4 DEF SecondaryInv, OnlyFirst
  <1>12. ASSUME NEW a \in AppNames PROVE Bounds(a)'
    <2>1. \A places : Of(a, places)' = Of(a, places)
      BY <1>1, <1>4 DEF Of
    <2>2. IsStopped(a)' = IsStopped(a)
      BY <1>1, <1>4 DEF IsStopped
    <2>3. Bounds(a)
      BY DEF SecondaryInv, Counted, Bounds
    <2>4. /\ began'[a]["init_before"] = began[a]["init_before"]
          /\ began'[a]["init_after"] = began[a]["init_after"] + One(a = primary)
          /\ began'[a]["shutdown_before"] = began[a]["shutdown_before"]
          /\ began'[a]["shutdown_after"] = began[a]["shutdown_after"]
      <3>1. \A e \in Events : began'[a][e] = began[a][e] + One(a = primary /\ e = "init_after")
        BY <1>5
      <3>2. /\ began'[a]["init_before"] = began[a]["init_before"] + One(a = primary /\ "init_before" = "init_after")
            /\ began'[a]["init_after"] = began[a]["init_after"] + One(a = primary /\ "init_after" = "init_after")
            /\ began'[a]["shutdown_before"] = began[a]["shutdown_before"] + One(a = primary /\ "shutdown_before" = "init_after")
            /\ began'[a]["shutdown_after"] = began[a]["shutdown_after"] + One(a = primary /\ "shutdown_after" = "init_after")
        BY <3>1, NamesAre
      <3>3. /\ began[a]["init_before"] \in Nat /\ began[a]["init_after"] \in Nat
            /\ began[a]["shutdown_before"] \in Nat /\ began[a]["shutdown_after"] \in Nat
        BY <1>2, NamesAre
      <3> QED BY <3>2, <3>3 DEF One
    <2>5. /\ Of(a, {"raised"})' = Of(a, {"raised"}) /\ Of(a, {"init_before"})' = Of(a, {"init_before"})
          /\ Of(a, {"shutdown_before"} \cup Later)' = Of(a, {"shutdown_before"} \cup Later)
          /\ Of(a, Later)' = Of(a, Later)
      BY <2>1
    <2>6. /\ Cardinality(Of(a, {"init_before"})) \in Nat
          /\ began[a]["init_before"] \in Nat /\ began[a]["init_after"] \in Nat
      BY <1>2, OfCounts, EventsAre
    <2> QED BY <1>1, <2>2, <2>3, <2>4, <2>5, <2>6 DEF Bounds, One
  <1>13. Counted'
    BY <1>12 DEF Counted, Bounds
  <1> QED BY <1>6, <1>7, <1>10, <1>11, <1>13 DEF SecondaryInv

\* The rest of the primary application's shutdown.
LEMMA EndLoopKeeps ==
    ASSUME SecondaryInv, EndLoop
    PROVE  SecondaryInv'
  <1>1. /\ life = "stopping" /\ life' = "closed" /\ listens' = {}
        /\ Call(primary, "shutdown_after")
        /\ UNCHANGED <<primary, infos, stages, run_server, to_start, is_started, calls_stop>>
    BY DEF EndLoop
  <1>2. /\ SecondaryTypeOK /\ infos \in [AppNames -> Seq({1, 3})] /\ primary \in AppNames
        /\ DOMAIN stages = DOMAIN run_server /\ began \in [AppNames -> [Events -> Nat]]
        /\ \A a \in AppNames : \A event \in Events : began[a][event] \in Nat
    BY Typed DEF SecondaryInv
  <1>3. DOMAIN run_server = AllServers /\ FirstServer \in AllServers /\ stages[FirstServer] = "SERVING"
    BY <1>1 DEF SecondaryInv, Placed
  <1>4. AllServers' = AllServers /\ FirstServer' = FirstServer /\ \A a \in AppNames : ServersOf(a)' = ServersOf(a)
    BY <1>1, SameServers
  <1>5. /\ began' \in [AppNames -> [Events -> Nat]]
        /\ \A a \in AppNames : \A e \in Events : began'[a][e] = began[a][e] + One(a = primary /\ e = "shutdown_after")
    BY <1>1, <1>2, CallIs, EventsAre
  <1>6. SecondaryTypeOK'
    BY <1>1, <1>2, <1>5 DEF SecondaryTypeOK
  <1>7. Placed'
    BY <1>1, <1>4 DEF SecondaryInv, Placed
  <1>8. began[primary]["init_before"] # 0 /\ FirstServer[1] = primary
    BY <1>2, <1>3 DEF SecondaryInv, Begun, FirstServer
  <1>9. \A a \in AppNames : began'[a]["init_before"] = began[a]["init_before"]
    <2>1. ASSUME NEW a \in AppNames PROVE began'[a]["init_before"] = began[a]["init_before"]
      <3>1. \A e \in Events : began'[a][e] = began[a][e] + One(a = primary /\ e = "shutdown_after")
        BY <1>5
      <3>2. /\ began'[a]["init_before"] = began[a]["init_before"] + One(a = primary /\ "init_before" = "shutdown_after")
            /\ began'[a]["init_after"] = began[a]["init_after"] + One(a = primary /\ "init_after" = "shutdown_after")
            /\ began'[a]["shutdown_before"] = began[a]["shutdown_before"] + One(a = primary /\ "shutdown_before" = "shutdown_after")
            /\ began'[a]["shutdown_after"] = began[a]["shutdown_after"] + One(a = primary /\ "shutdown_after" = "shutdown_after")
        BY <3>1, NamesAre
      <3>3. /\ began[a]["init_before"] \in Nat /\ began[a]["init_after"] \in Nat
            /\ began[a]["shutdown_before"] \in Nat /\ began[a]["shutdown_after"] \in Nat
        BY <1>2, NamesAre
      <3> QED BY <3>2, <3>3 DEF One
    <2> QED BY <2>1
  <1>10. Begun'
    <2>1. ASSUME NEW a \in AppNames, began'[a]["init_before"] = 0 PROVE \A e \in Events : began'[a][e] = 0
      <3>1. a # primary /\ \A e \in Events : began[a][e] = 0
        BY <1>8, <1>9, <2>1 DEF SecondaryInv, Begun
      <3> QED BY <1>5, <3>1 DEF One
    <2>2. ASSUME NEW t \in AllServers,
                 stages[t] = "SERVING" \/ run_server[t] \in Events \cup {"serve_forever", "over"}
          PROVE  began'[t[1]]["init_before"] # 0
      <3>1. began[t[1]]["init_before"] # 0 /\ t[1] \in AppNames
        BY <1>2, <1>3, <2>2, ServersAre DEF SecondaryInv, Begun
      <3> QED BY <1>9, <3>1
    <2> QED BY <1>1, <1>3, <2>1, <2>2 DEF Begun
  <1>11. OnlyFirst'
    BY <1>1 DEF OnlyFirst
  <1>12. ASSUME NEW a \in AppNames PROVE Bounds(a)'
    <2>1. \A places : Of(a, places)' = Of(a, places)
      BY <1>1, <1>4 DEF Of
    <2>2. Bounds(a)
      BY DEF SecondaryInv, Counted, Bounds
    <2>3. /\ began'[a]["init_before"] = began[a]["init_before"]
          /\ began'[a]["init_after"] = began[a]["init_after"]
          /\ began'[a]["shutdown_before"] = began[a]["shutdown_before"]
          /\ began'[a]["shutdown_after"] = began[a]["shutdown_after"] + One(a = primary)
      <3>1. \A e \in Events : began'[a][e] = began[a][e] + One(a = primary /\ e = "shutdown_after")
        BY <1>5
      <3>2. /\ began'[a]["init_before"] = began[a]["init_before"] + One(a = primary /\ "init_before" = "shutdown_after")
            /\ began'[a]["init_after"] = began[a]["init_after"] + One(a = primary /\ "init_after" = "shutdown_after")
            /\ began'[a]["shutdown_before"] = began[a]["shutdown_before"] + One(a = primary /\ "shutdown_before" = "shutdown_after")
            /\ began'[a]["shutdown_after"] = began[a]["shutdown_after"] + One(a = primary /\ "shutdown_after" = "shutdown_after")
        BY <3>1, NamesAre
      <3>3. /\ began[a]["init_before"] \in Nat /\ began[a]["init_after"] \in Nat
            /\ began[a]["shutdown_before"] \in Nat /\ began[a]["shutdown_after"] \in Nat
        BY <1>2, NamesAre
      <3> QED BY <3>2, <3>3 DEF One
    <2>4. /\ Of(a, {"raised"})' = Of(a, {"raised"}) /\ Of(a, {"init_before"})' = Of(a, {"init_before"})
          /\ Of(a, {"shutdown_before"} \cup Later)' = Of(a, {"shutdown_before"} \cup Later)
          /\ Of(a, Later)' = Of(a, Later)
      BY <2>1
    <2>5. /\ Cardinality(Of(a, Later)) \in Nat /\ Cardinality(Of(a, {"init_before"})) \in Nat
          /\ Cardinality(Of(a, {"shutdown_before"} \cup Later)) \in Nat
          /\ began[a]["shutdown_after"] \in Nat /\ began[a]["shutdown_before"] \in Nat
          /\ began[a]["init_before"] \in Nat /\ began[a]["init_after"] \in Nat
      BY <1>2, OfCounts, EventsAre
    <2> QED BY <1>1, <2>2, <2>3, <2>4, <2>5 DEF Bounds, One
  <1>13. Counted'
    BY <1>12 DEF Counted, Bounds
  <1> QED BY <1>6, <1>7, <1>10, <1>11, <1>13 DEF SecondaryInv

\* A RunServer task begins: it starts its application if nothing of that serves.
LEMMA RunServerKeeps ==
    ASSUME SecondaryInv, NEW s \in DOMAIN run_server, NEW raises \in BOOLEAN, RunServer(s, raises)
    PROVE  SecondaryInv'
  <1>1. /\ Turning /\ run_server[s] = "created" /\ UNCHANGED <<life, primary, infos, to_start, listens, calls_stop>>
    BY DEF RunServer
  <1>2. /\ SecondaryTypeOK /\ infos \in [AppNames -> Seq({1, 3})] /\ primary \in AppNames
        /\ DOMAIN stages = DOMAIN run_server /\ began \in [AppNames -> [Events -> Nat]]
        /\ \A a \in AppNames : \A event \in Events : began[a][event] \in Nat
    BY Typed DEF SecondaryInv
  <1>3. /\ DOMAIN run_server = AllServers /\ FirstServer \in AllServers
        /\ run_server[FirstServer] = "none" /\ stages[FirstServer] = "SERVING"
        /\ \A t \in to_start : t # FirstServer /\ run_server[t] = "none"
        /\ \A t \in AllServers :
               /\ run_server[t] \in {"shutdown_before", "shutdown_after", "over", "cancelled"} =>
                     life \in {"stopping", "closed"}
               /\ run_server[t] = "created" => life \in {"starting", "up", "failed"}
        /\ life \notin {"starting", "failed"} => to_start = {}
        /\ life \notin {"prepare", "run"}
    BY <1>1 DEF SecondaryInv, Placed, Turning
  <1>4. AllServers' = AllServers /\ FirstServer' = FirstServer /\ \A a \in AppNames : ServersOf(a)' = ServersOf(a)
    BY <1>1, SameServers
  <1>5. s \in AllServers /\ s[1] \in AppNames /\ s \in ServersOf(s[1]) /\ s # FirstServer /\ life \in {"starting", "up"}
    BY <1>1, <1>2, <1>3, ServersAre DEF Turning
  <1>6. Begun /\ \A a \in AppNames : Bounds(a)
    BY DEF SecondaryInv, Counted, Bounds
  <1>7. PICK to \in {"raised", "init_before", "serve_forever"} :
           /\ run_server' = [run_server EXCEPT ![s] = to]
           /\ \/ /\ to = "raised" /\ IsStopped(s[1]) /\ stages' = [stages EXCEPT ![s] = "STOPPED"]
                 /\ UNCHANGED <<is_started, began>>
              \/ /\ to = "init_before" /\ IsStopped(s[1]) /\ stages' = [stages EXCEPT ![s] = "SERVING"]
                 /\ is_started' = is_started \cup {s[1]} /\ Call(s[1], "init_before")
              \/ to = "serve_forever" /\ ~IsStopped(s[1]) /\ UNCHANGED <<stages, is_started, began>>
    BY DEF RunServer
  <1>8. /\ DOMAIN run_server' = AllServers
        /\ \A t \in AllServers : run_server'[t] = IF t = s THEN to ELSE run_server[t]
    BY <1>3, <1>5, <1>7
  <1>9. ASSUME NEW a \in AppNames, NEW places
        PROVE  /\ Cardinality(Of(a, places)') \in Nat /\ Cardinality(Of(a, places)) \in Nat
               /\ Cardinality(Of(a, places)') = Cardinality(Of(a, places)) + One(a = s[1] /\ to \in places)
                                                  - One(a = s[1] /\ "created" \in places)
    <2>1. GoesTo(s, to) /\ run_server[s] = "created"
      BY <1>1, <1>7 DEF GoesTo
    <2>2. /\ Cardinality(Of(a, places)') \in Nat
          /\ Cardinality(Of(a, places)') = Cardinality(Of(a, places)) + One(a = s[1] /\ to \in places)
                                             - One(a = s[1] /\ run_server[s] \in places)
      <3>1. infos \in [AppNames -> Seq({1, 3})] /\ DOMAIN run_server = AllServers /\ s \in AllServers
        BY <1>2, <1>3, <1>5
      <3> QED BY ONLY <2>1, <3>1, a \in AppNames, OneMoves
    <2> QED BY <1>2, <2>1, <2>2, OfCounts
  <1>10. ASSUME NEW a \in AppNames
         PROVE  /\ Cardinality(Of(a, {"raised"})') = Cardinality(Of(a, {"raised"})) + One(a = s[1] /\ to = "raised")
                /\ Cardinality(Of(a, {"init_before"})') =
                      Cardinality(Of(a, {"init_before"})) + One(a = s[1] /\ to = "init_before")
                /\ Cardinality(Of(a, {"shutdown_before"} \cup Later)') >= Cardinality(Of(a, {"shutdown_before"} \cup Later))
                /\ Cardinality(Of(a, Later)') >= Cardinality(Of(a, Later))
                /\ Cardinality(Of(a, {"raised"})) \in Nat /\ Cardinality(Of(a, {"init_before"})) \in Nat
                /\ Cardinality(Of(a, {"shutdown_before"} \cup Later)) \in Nat /\ Cardinality(Of(a, Later)) \in Nat
                /\ Cardinality(Of(a, {"shutdown_before"} \cup Later)') \in Nat /\ Cardinality(Of(a, Later)') \in Nat
    <2>1. /\ "created" \notin {"raised"} /\ "created" \notin {"init_before"}
          /\ "created" \notin {"shutdown_before"} \cup Later /\ "created" \notin Later
      BY DEF Later
    <2>2. Cardinality(Of(a, {"raised"})') = Cardinality(Of(a, {"raised"})) + One(a = s[1] /\ to = "raised")
      BY <1>9, <2>1 DEF One
    <2>3. Cardinality(Of(a, {"init_before"})') = Cardinality(Of(a, {"init_before"})) + One(a = s[1] /\ to = "init_before")
      BY <1>9, <2>1 DEF One
    <2>4. Cardinality(Of(a, {"shutdown_before"} \cup Later)') >= Cardinality(Of(a, {"shutdown_before"} \cup Later))
      BY <1>9, <2>1 DEF One
    <2>5. Cardinality(Of(a, Later)') >= Cardinality(Of(a, Later))
      BY <1>9, <2>1 DEF One
    <2> QED BY <1>9, <2>2, <2>3, <2>4, <2>5
  <1>11. /\ DOMAIN stages' = AllServers
         /\ \A t \in AllServers : stages'[t] = IF t = s /\ to = "raised" THEN "STOPPED"
                                               ELSE IF t = s /\ to = "init_before" THEN "SERVING" ELSE stages[t]
    BY <1>2, <1>3, <1>5, <1>7
  <1>12. /\ began' \in [AppNames -> [Events -> Nat]]
         /\ \A a \in AppNames : \A e \in Events :
               began'[a][e] = began[a][e] + One(a = s[1] /\ e = "init_before" /\ to = "init_before")
    <2>1. CASE to = "init_before"
      <3>1. Call(s[1], "init_before") /\ "init_before" \in Events
        BY <1>7, <2>1, EventsAre
      <3>2. /\ began' \in [AppNames -> [Events -> Nat]]
            /\ \A a \in AppNames : \A e \in Events :
                  began'[a][e] = began[a][e] + One(a = s[1] /\ e = "init_before")
        BY <1>2, <1>5, <3>1, CallIs
      <3> QED BY <2>1, <3>2 DEF One
    <2>2. CASE to # "init_before"
      <3>1. began' = began
        BY <1>7, <2>2
      <3> QED BY <1>2, <2>2, <3>1 DEF One
    <2> QED BY <2>1, <2>2
  <1>13. SecondaryTypeOK'
    <2>1. is_started' \subseteq AppNames
      BY <1>2, <1>5, <1>7 DEF SecondaryTypeOK
    <2>2. \A t \in AllServers :
             run_server'[t] \in Events \cup {"none", "created", "serve_forever", "raised", "over", "cancelled"}
      BY <1>2, <1>3, <1>7, <1>8, EventsAre DEF SecondaryTypeOK
    <2>3. \A t \in AllServers : stages'[t] \in {"STOPPED", "SERVING"}
      BY <1>2, <1>3, <1>11 DEF SecondaryTypeOK
    <2>4. listens' \subseteq AllServers /\ to_start' \subseteq AllServers
      BY <1>1, <1>2, <1>3 DEF SecondaryTypeOK
    <2>5. life' = life /\ primary' = primary /\ infos' = infos /\ calls_stop' = calls_stop
      BY <1>1
    <2> QED BY <1>2, <1>8, <1>11, <1>12, <2>1, <2>2, <2>3, <2>4, <2>5 DEF SecondaryTypeOK
  <1>14. Placed'
    <2>1. life' = life /\ to_start' = to_start
      BY <1>1
    <2>2. \A t \in to_start : t # s
      BY <1>1, <1>3
    <2>3. run_server'[FirstServer] = "none" /\ stages'[FirstServer] = "SERVING"
      BY <1>3, <1>5, <1>8, <1>11
    <2>4. \A t \in to_start : t # FirstServer /\ run_server'[t] = "none"
      BY <1>2, <1>3, <1>8, <2>2 DEF SecondaryTypeOK
    <2>5. \A t \in AllServers :
               /\ run_server'[t] \in {"shutdown_before", "shutdown_after", "over", "cancelled"} =>
                     life \in {"stopping", "closed"}
               /\ run_server'[t] = "created" => life \in {"starting", "up", "failed"}
      BY <1>3, <1>7, <1>8
    <2> QED BY <1>3, <1>4, <1>8, <2>1, <2>3, <2>4, <2>5 DEF Placed
  <1>15. OnlyFirst'
    BY <1>1, <1>4 DEF SecondaryInv, OnlyFirst
  <1>16. to # "raised" => began'[s[1]]["init_before"] # 0
    <2>1. began[s[1]]["init_before"] \in Nat
      BY <1>2, <1>5, EventsAre
    <2>2. CASE to = "init_before"
      <3>1. began'[s[1]]["init_before"] = began[s[1]]["init_before"] + 1
        BY <1>5, <1>12, <2>2, EventsAre DEF One
      <3> QED BY <2>1, <3>1
    <2>3. CASE to = "serve_forever"
      <3>1. PICK t \in ServersOf(s[1]) : stages[t] = "SERVING"
        BY <1>7, <2>3 DEF IsStopped
      <3>2. t \in AllServers /\ t[1] = s[1]
        BY <1>2, <1>5, ServersAre
      <3>3. began[s[1]]["init_before"] # 0
        BY <1>3, <1>6, <3>1, <3>2 DEF Begun
      <3>4. began' = began
        BY <1>7, <2>3
      <3> QED BY <3>3, <3>4
    <2> QED BY <1>7, <2>2, <2>3
  <1>17. Begun'
    <2>1. ASSUME NEW a \in AppNames, began'[a]["init_before"] = 0 PROVE \A e \in Events : began'[a][e] = 0
      <3>1. began[a]["init_before"] \in Nat
        BY <1>2, EventsAre
      <3>2. began[a]["init_before"] = 0 /\ ~(a = s[1] /\ to = "init_before")
        BY <1>12, <2>1, <3>1, EventsAre DEF One
      <3>3. \A e \in Events : began[a][e] = 0
        BY <1>6, <3>2 DEF Begun
      <3> QED BY <1>12, <3>2, <3>3 DEF One
    <2>2. ASSUME NEW t \in AllServers,
                 stages'[t] = "SERVING" \/ run_server'[t] \in Events \cup {"serve_forever", "over"}
          PROVE  began'[t[1]]["init_before"] # 0
      <3>1. t[1] \in AppNames
        BY <1>2, ServersAre
      <3>2. CASE t = s /\ to # "raised"
        BY <1>16, <3>2
      <3>3. CASE t = s /\ to = "raised"
        BY <1>8, <1>11, <2>2, <3>3, EventsAre
      <3>4. CASE t # s
        <4>1. began[t[1]]["init_before"] # 0
          BY <1>3, <1>6, <1>8, <1>11, <2>2, <3>4 DEF Begun
        <4>2. /\ began'[t[1]]["init_before"] = began[t[1]]["init_before"] + One(t[1] = s[1] /\ to = "init_before")
              /\ began[t[1]]["init_before"] \in Nat
          BY <1>2, <1>12, <3>1, EventsAre DEF One
        <4> QED BY <4>1, <4>2 DEF One
      <3> QED BY <3>2, <3>3, <3>4
    <2> QED BY <1>8, <2>1, <2>2 DEF Begun
  <1>18. ASSUME NEW a \in AppNames, IsStopped(a)', life \in {"starting", "up"}
         PROVE  began'[a]["init_before"] = began[a]["init_before"] /\ IsStopped(a)
    <2>1. \A t \in ServersOf(a) : stages'[t] # "SERVING"
      BY <1>4, <1>18 DEF IsStopped
    <2>2. \A t \in ServersOf(a) : t \in AllServers /\ t[1] = a
      BY <1>2, ServersAre
    <2>3. ~(a = s[1] /\ to = "init_before")
      BY <1>5, <1>11, <2>1
    <2>4. began'[a]["init_before"] = began[a]["init_before"]
      <3>1. \A e \in Events : began'[a][e] = began[a][e] + One(a = s[1] /\ e = "init_before" /\ to = "init_before")
        BY <1>12
      <3>2. /\ began'[a]["init_before"] = began[a]["init_before"] + One(a = s[1] /\ "init_before" = "init_before" /\ to = "init_before")
            /\ began'[a]["init_after"] = began[a]["init_after"] + One(a = s[1] /\ "init_after" = "init_before" /\ to = "init_before")
            /\ began'[a]["shutdown_before"] = began[a]["shutdown_before"] + One(a = s[1] /\ "shutdown_before" = "init_before" /\ to = "init_before")
            /\ began'[a]["shutdown_after"] = began[a]["shutdown_after"] + One(a = s[1] /\ "shutdown_after" = "init_before" /\ to = "init_before")
        BY <3>1, NamesAre
      <3>3. /\ began[a]["init_before"] \in Nat /\ began[a]["init_after"] \in Nat
            /\ began[a]["shutdown_before"] \in Nat /\ began[a]["shutdown_after"] \in Nat
        BY <1>2, NamesAre
      <3> QED BY <3>2, <3>3, <2>3 DEF One
    <2>5. CASE a = s[1] /\ to = "raised"
      BY <1>7, <2>4, <2>5
    <2>6. CASE ~(a = s[1] /\ to = "raised")
      BY <1>11, <2>1, <2>2, <2>3, <2>4, <2>6 DEF IsStopped
    <2> QED BY <2>5, <2>6
  <1>19. ASSUME NEW a \in AppNames PROVE Bounds(a)'
    <2>1. /\ began'[a]["init_before"] = began[a]["init_before"] + One(a = s[1] /\ to = "init_before")
          /\ began'[a]["init_after"] = began[a]["init_after"]
          /\ began'[a]["shutdown_before"] = began[a]["shutdown_before"]
          /\ began'[a]["shutdown_after"] = began[a]["shutdown_after"]
      <3>1. \A e \in Events : began'[a][e] = began[a][e] + One(a = s[1] /\ e = "init_before" /\ to = "init_before")
        BY <1>12
      <3>2. /\ began'[a]["init_before"] = began[a]["init_before"] + One(a = s[1] /\ "init_before" = "init_before" /\ to = "init_before")
            /\ began'[a]["init_after"] = began[a]["init_after"] + One(a = s[1] /\ "init_after" = "init_before" /\ to = "init_before")
            /\ began'[a]["shutdown_before"] = began[a]["shutdown_before"] + One(a = s[1] /\ "shutdown_before" = "init_before" /\ to = "init_before")
            /\ began'[a]["shutdown_after"] = began[a]["shutdown_after"] + One(a = s[1] /\ "shutdown_after" = "init_before" /\ to = "init_before")
        BY <3>1, NamesAre
      <3>3. /\ began[a]["init_before"] \in Nat /\ began[a]["init_after"] \in Nat
            /\ began[a]["shutdown_before"] \in Nat /\ began[a]["shutdown_after"] \in Nat
        BY <1>2, NamesAre
      <3> QED BY <3>2, <3>3 DEF One
    <2>2. /\ began[a]["shutdown_after"] \in Nat /\ began[a]["shutdown_before"] \in Nat
          /\ began[a]["init_before"] \in Nat /\ began[a]["init_after"] \in Nat
      BY <1>2, EventsAre
    <2>3. Bounds(a)
      BY <1>6
    <2>4. life' = life /\ primary' = primary
      BY <1>1
    <2>5. began'[a]["init_before"] <= 1 + Cardinality(Of(a, {"raised"})')
      <3>1. CASE a = s[1] /\ to = "init_before"
        <4>1. began[a]["init_before"] <= Cardinality(Of(a, {"raised"}))
          BY <1>5, <1>7, <2>3, <3>1 DEF Bounds
        <4> QED BY <1>10, <2>1, <2>2, <3>1, <4>1 DEF One
      <3>2. CASE ~(a = s[1] /\ to = "init_before")
        BY <1>10, <2>1, <2>2, <2>3, <3>2 DEF Bounds, One
      <3> QED BY <3>1, <3>2
    <2>6. life' \in {"starting", "up"} /\ IsStopped(a)' => began'[a]["init_before"] <= Cardinality(Of(a, {"raised"})')
      BY <1>10, <1>18, <2>2, <2>3, <2>4 DEF Bounds, One
    <2>7. began'[a]["init_after"] + Cardinality(Of(a, {"init_before"})')
             + One(a = primary /\ life = "starting") <= began'[a]["init_before"]
      BY <1>10, <2>1, <2>2, <2>3 DEF Bounds, One
    <2>8. began'[a]["shutdown_before"] <= Cardinality(Of(a, {"shutdown_before"} \cup Later)')
                                             + One(a = primary /\ life \in {"stopping", "closed"})
      <3>1. began[a]["shutdown_before"] <= Cardinality(Of(a, {"shutdown_before"} \cup Later))
                                             + One(a = primary /\ life \in {"stopping", "closed"})
        BY <2>3 DEF Bounds
      <3> DEFINE before == Cardinality(Of(a, {"shutdown_before"} \cup Later))
                 after  == Cardinality(Of(a, {"shutdown_before"} \cup Later)')
      <3>2. before \in Nat /\ after \in Nat /\ after >= before
        BY <1>10
      <3> HIDE DEF before, after
      <3>3. began[a]["shutdown_before"] <= before + One(a = primary /\ life \in {"stopping", "closed"})
        BY <3>1 DEF before
      <3>4. began'[a]["shutdown_before"] <= after + One(a = primary /\ life \in {"stopping", "closed"})
        BY <2>1, <2>2, <3>2, <3>3 DEF One
      <3> QED BY <3>4 DEF after
    <2>9. began'[a]["shutdown_after"] <= Cardinality(Of(a, Later)') + One(a = primary /\ life = "closed")
      BY <1>10, <2>1, <2>2, <2>3 DEF Bounds, One
    <2> QED BY <2>4, <2>5, <2>6, <2>7, <2>8, <2>9 DEF Bounds
  <1>20. Counted'
    BY <1>19 DEF Counted, Bounds
  <1> QED BY <1>13, <1>14, <1>15, <1>17, <1>20 DEF SecondaryInv

\* What a RunServer task awaits ends.
LEMMA EventEndsKeeps ==
    ASSUME SecondaryInv, NEW s \in DOMAIN run_server, NEW raises \in BOOLEAN, EventEnds(s, raises)
    PROVE  SecondaryInv'
  <1>1. Turning /\ run_server[s] \in Events /\ UNCHANGED <<life, primary, infos, to_start, is_started, calls_stop>>
    BY DEF EventEnds
  <1>2. /\ SecondaryTypeOK /\ infos \in [AppNames -> Seq({1, 3})] /\ primary \in AppNames
        /\ DOMAIN stages = DOMAIN run_server /\ began \in [AppNames -> [Events -> Nat]]
        /\ \A a \in AppNames : \A event \in Events : began[a][event] \in Nat
    BY Typed DEF SecondaryInv
  <1>3. /\ DOMAIN run_server = AllServers /\ FirstServer \in AllServers
        /\ run_server[FirstServer] = "none" /\ stages[FirstServer] = "SERVING"
        /\ \A t \in to_start : t # FirstServer /\ run_server[t] = "none"
        /\ \A t \in AllServers :
               /\ run_server[t] \in {"shutdown_before", "shutdown_after", "over", "cancelled"} =>
                     life \in {"stopping", "closed"}
               /\ run_server[t] = "created" => life \in {"starting", "up", "failed"}
        /\ life \notin {"starting", "failed"} => to_start = {}
        /\ life \notin {"prepare", "run"}
    BY <1>1 DEF SecondaryInv, Placed, Turning
  <1>4. AllServers' = AllServers /\ FirstServer' = FirstServer /\ \A a \in AppNames : ServersOf(a)' = ServersOf(a)
    BY <1>1, SameServers
  <1>5. s \in AllServers /\ s[1] \in AppNames /\ s \in ServersOf(s[1]) /\ s # FirstServer
    BY <1>1, <1>2, <1>3, ServersAre, EventsAre
  <1>6. Begun /\ \A a \in AppNames : Bounds(a)
    BY DEF SecondaryInv, Counted, Bounds
  <1>7. PICK next \in {"raised", "init_after", "serve_forever", "shutdown_after", "over"} :
           /\ run_server' = [run_server EXCEPT ![s] = next]
           /\ stages' = IF next \in {"raised", "over"} THEN [stages EXCEPT ![s] = "STOPPED"] ELSE stages
           /\ listens' \subseteq listens
           /\ IF next \in Events THEN Call(s[1], next) ELSE began' = began
           /\ \/ next = "raised"
              \/ run_server[s] = "init_before" /\ next = "init_after"
              \/ run_server[s] = "init_after" /\ next = "serve_forever"
              \/ run_server[s] = "shutdown_before" /\ next = "shutdown_after"
              \/ run_server[s] = "shutdown_after" /\ next = "over"
    <2> DEFINE after == IF raises THEN "raised" ELSE NextEvent[run_server[s]]
    <2>1. /\ run_server' = [run_server EXCEPT ![s] = after]
          /\ stages' = IF after \in {"raised", "over"} THEN [stages EXCEPT ![s] = "STOPPED"] ELSE stages
          /\ listens' = IF after = "shutdown_after" THEN listens \ {s} ELSE listens
          /\ IF after \in Events THEN Call(s[1], after) ELSE began' = began
      BY DEF EventEnds
    <2>2. \/ after = "raised"
          \/ run_server[s] = "init_before" /\ after = "init_after"
          \/ run_server[s] = "init_after" /\ after = "serve_forever"
          \/ run_server[s] = "shutdown_before" /\ after = "shutdown_after"
          \/ run_server[s] = "shutdown_after" /\ after = "over"
      BY <1>1, EventsAre DEF NextEvent
    <2>3. after \in {"raised", "init_after", "serve_forever", "shutdown_after", "over"}
      BY <2>2
    <2>4. listens' \subseteq listens
      BY <2>1
    <2> HIDE DEF after
    <2> WITNESS after \in {"raised", "init_after", "serve_forever", "shutdown_after", "over"}
    <2> QED BY <2>1, <2>2, <2>4
  <1>8. /\ DOMAIN run_server' = AllServers
        /\ \A t \in AllServers : run_server'[t] = IF t = s THEN next ELSE run_server[t]
    BY <1>3, <1>5, <1>7
  <1>9. ASSUME NEW a \in AppNames, NEW places
        PROVE  /\ Cardinality(Of(a, places)') \in Nat /\ Cardinality(Of(a, places)) \in Nat
               /\ Cardinality(Of(a, places)') = Cardinality(Of(a, places)) + One(a = s[1] /\ next \in places)
                                                  - One(a = s[1] /\ run_server[s] \in places)
    <2>1. GoesTo(s, next)
      BY <1>1, <1>7 DEF GoesTo
    <2>2. /\ Cardinality(Of(a, places)') \in Nat
          /\ Cardinality(Of(a, places)') = Cardinality(Of(a, places)) + One(a = s[1] /\ next \in places)
                                             - One(a = s[1] /\ run_server[s] \in places)
      <3>1. infos \in [AppNames -> Seq({1, 3})] /\ DOMAIN run_server = AllServers /\ s \in AllServers
        BY <1>2, <1>3, <1>5
      <3> QED BY ONLY <2>1, <3>1, a \in AppNames, OneMoves
    <2> QED BY <1>2, <2>2, OfCounts
  <1>10. ASSUME NEW a \in AppNames
         PROVE  /\ Cardinality(Of(a, {"raised"})') = Cardinality(Of(a, {"raised"})) + One(a = s[1] /\ next = "raised")
                /\ Cardinality(Of(a, {"init_before"})') =
                      Cardinality(Of(a, {"init_before"})) - One(a = s[1] /\ run_server[s] = "init_before")
                /\ Cardinality(Of(a, {"shutdown_before"} \cup Later)') >= Cardinality(Of(a, {"shutdown_before"} \cup Later))
                /\ Cardinality(Of(a, Later)') >= Cardinality(Of(a, Later)) + One(a = s[1] /\ next = "shutdown_after")
                /\ Cardinality(Of(a, {"raised"})) \in Nat /\ Cardinality(Of(a, {"init_before"})) \in Nat
                /\ Cardinality(Of(a, {"shutdown_before"} \cup Later)) \in Nat /\ Cardinality(Of(a, Later)) \in Nat
                /\ Cardinality(Of(a, {"shutdown_before"} \cup Later)') \in Nat /\ Cardinality(Of(a, Later)') \in Nat
                /\ Cardinality(Of(a, {"init_before"})') \in Nat
    <2>1. run_server[s] \in {"init_before", "init_after", "shutdown_before", "shutdown_after"}
      BY <1>1, EventsAre
    <2>2. Cardinality(Of(a, {"raised"})') = Cardinality(Of(a, {"raised"})) + One(a = s[1] /\ next = "raised")
      BY <1>9, <2>1 DEF One
    <2>3. Cardinality(Of(a, {"init_before"})') =
             Cardinality(Of(a, {"init_before"})) - One(a = s[1] /\ run_server[s] = "init_before")
      BY <1>7, <1>9, <2>1 DEF One
    <2>4. Cardinality(Of(a, {"shutdown_before"} \cup Later)') >= Cardinality(Of(a, {"shutdown_before"} \cup Later))
      <3>1. run_server[s] \in {"shutdown_before"} \cup Later => next \in {"shutdown_before"} \cup Later
        BY <1>7, <2>1 DEF Later
      <3> QED BY <1>9, <3>1 DEF One
    <2>5. Cardinality(Of(a, Later)') >= Cardinality(Of(a, Later)) + One(a = s[1] /\ next = "shutdown_after")
      <3>1. /\ run_server[s] \in Later => next \in Later /\ next # "shutdown_after"
            /\ next = "shutdown_after" => next \in Later
        BY <1>7, <2>1 DEF Later
      <3> QED BY <1>9, <3>1 DEF One
    <2> QED BY <1>9, <2>2, <2>3, <2>4, <2>5
  <1>11. /\ DOMAIN stages' = AllServers
         /\ \A t \in AllServers : stages'[t] = IF t = s /\ next \in {"raised", "over"} THEN "STOPPED" ELSE stages[t]
    BY <1>2, <1>3, <1>5, <1>7
  <1>12. /\ began' \in [AppNames -> [Events -> Nat]]
         /\ \A a \in AppNames : \A e \in Events : began'[a][e] = began[a][e] + One(a = s[1] /\ e = next)
    <2>1. CASE next \in Events
      <3>1. Call(s[1], next)
        BY <1>7, <2>1
      <3> QED BY <1>2, <1>5, <2>1, <3>1, CallIs
    <2>2. CASE next \notin Events
      <3>1. began' = began /\ \A e \in Events : e # next
        BY <1>7, <2>2
      <3> QED BY <1>2, <3>1 DEF One
    <2> QED BY <2>1, <2>2
  <1>13. SecondaryTypeOK'
    <2>1. listens' \subseteq AllServers /\ to_start' \subseteq AllServers
      BY <1>1, <1>2, <1>3, <1>7 DEF SecondaryTypeOK
    <2>2. \A t \in AllServers :
             run_server'[t] \in Events \cup {"none", "created", "serve_forever", "raised", "over", "cancelled"}
      BY <1>2, <1>3, <1>7, <1>8, EventsAre DEF SecondaryTypeOK
    <2>3. \A t \in AllServers : stages'[t] \in {"STOPPED", "SERVING"}
      BY <1>2, <1>3, <1>11 DEF SecondaryTypeOK
    <2>4. life' = life /\ primary' = primary /\ infos' = infos /\ calls_stop' = calls_stop /\ is_started' = is_started
      BY <1>1
    <2> QED BY <1>2, <1>8, <1>11, <1>12, <2>1, <2>2, <2>3, <2>4 DEF SecondaryTypeOK
  <1>14. Placed'
    <2>1. life' = life /\ to_start' = to_start
      BY <1>1
    <2>2. \A t \in to_start : t # s
      BY <1>1, <1>3, EventsAre
    <2>3. run_server'[FirstServer] = "none" /\ stages'[FirstServer] = "SERVING"
      BY <1>3, <1>5, <1>8, <1>11
    <2>4. \A t \in to_start : t # FirstServer /\ run_server'[t] = "none"
      BY <1>2, <1>3, <1>8, <2>2 DEF SecondaryTypeOK
    <2>5. \A t \in AllServers :
               /\ run_server'[t] \in {"shutdown_before", "shutdown_after", "over", "cancelled"} =>
                     life \in {"stopping", "closed"}
               /\ run_server'[t] = "created" => life \in {"starting", "up", "failed"}
      BY <1>3, <1>5, <1>7, <1>8
    <2> QED BY <1>3, <1>4, <1>8, <2>1, <2>3, <2>4, <2>5 DEF Placed
  <1>15. OnlyFirst'
    BY <1>1, <1>4, <1>7 DEF SecondaryInv, OnlyFirst
  <1>16. began[s[1]]["init_before"] # 0
    BY <1>1, <1>6 DEF Begun
  <1>17. \A a \in AppNames : began'[a]["init_before"] = began[a]["init_before"]
    <2>1. next # "init_before"
      BY <1>7
    <2>2. ASSUME NEW a \in AppNames PROVE began'[a]["init_before"] = began[a]["init_before"]
      <3>1. \A e \in Events : began'[a][e] = began[a][e] + One(a = s[1] /\ e = next)
        BY <1>12
      <3>2. /\ began'[a]["init_before"] = began[a]["init_before"] + One(a = s[1] /\ "init_before" = next)
            /\ began'[a]["init_after"] = began[a]["init_after"] + One(a = s[1] /\ "init_after" = next)
            /\ began'[a]["shutdown_before"] = began[a]["shutdown_before"] + One(a = s[1] /\ "shutdown_before" = next)
            /\ began'[a]["shutdown_after"] = began[a]["shutdown_after"] + One(a = s[1] /\ "shutdown_after" = next)
        BY <3>1, NamesAre
      <3>3. /\ began[a]["init_before"] \in Nat /\ began[a]["init_after"] \in Nat
            /\ began[a]["shutdown_before"] \in Nat /\ began[a]["shutdown_after"] \in Nat
        BY <1>2, NamesAre
      <3> QED BY <3>2, <3>3, <2>1 DEF One
    <2> QED BY <2>2
  <1>18. Begun'
    <2>1. ASSUME NEW a \in AppNames, began'[a]["init_before"] = 0 PROVE \A e \in Events : began'[a][e] = 0
      <3>1. a # s[1] /\ \A e \in Events : began[a][e] = 0
        BY <1>6, <1>16, <1>17, <2>1 DEF Begun
      <3> QED BY <1>12, <3>1 DEF One
    <2>2. ASSUME NEW t \in AllServers,
                 stages'[t] = "SERVING" \/ run_server'[t] \in Events \cup {"serve_forever", "over"}
          PROVE  began'[t[1]]["init_before"] # 0
      <3>1. t[1] \in AppNames
        BY <1>2, ServersAre
      <3>2. CASE t = s
        BY <1>5, <1>16, <1>17, <3>2
      <3>3. CASE t # s
        <4>1. began[t[1]]["init_before"] # 0
          BY <1>3, <1>6, <1>8, <1>11, <2>2, <3>3 DEF Begun
        <4> QED BY <1>17, <3>1, <4>1
      <3> QED BY <3>2, <3>3
    <2> QED BY <1>8, <2>1, <2>2 DEF Begun
  <1>19. ASSUME NEW a \in AppNames, IsStopped(a)', life \in {"starting", "up"}, ~(a = s[1] /\ next = "raised")
         PROVE  IsStopped(a)
    <2>1. \A t \in ServersOf(a) : stages'[t] # "SERVING"
      BY <1>4, <1>19 DEF IsStopped
    <2>2. \A t \in ServersOf(a) : t \in AllServers /\ t[1] = a
      BY <1>2, ServersAre
    <2>3. next # "over"
      BY <1>3, <1>5, <1>7, <1>19
    <2> QED BY <1>11, <1>19, <2>1, <2>2, <2>3 DEF IsStopped
  <1>20. ASSUME NEW a \in AppNames PROVE Bounds(a)'
    <2>1. /\ began'[a]["init_before"] = began[a]["init_before"]
          /\ began'[a]["init_after"] = began[a]["init_after"] + One(a = s[1] /\ next = "init_after")
          /\ began'[a]["shutdown_before"] = began[a]["shutdown_before"]
          /\ began'[a]["shutdown_after"] = began[a]["shutdown_after"] + One(a = s[1] /\ next = "shutdown_after")
      <3>1. \A e \in Events : began'[a][e] = began[a][e] + One(a = s[1] /\ e = next)
        BY <1>12
      <3>2. began'[a]["init_after"] = began[a]["init_after"] + One(a = s[1] /\ next = "init_after")
        BY <3>1, EventsAre DEF One
      <3>3. began'[a]["shutdown_after"] = began[a]["shutdown_after"] + One(a = s[1] /\ next = "shutdown_after")
        BY <3>1, EventsAre DEF One
      <3>4. began'[a]["shutdown_before"] = began[a]["shutdown_before"]
        BY <1>2, <1>7, <3>1, EventsAre DEF One
      <3> QED BY <1>17, <3>2, <3>3, <3>4
    <2>2. /\ began[a]["shutdown_after"] \in Nat /\ began[a]["shutdown_before"] \in Nat
          /\ began[a]["init_before"] \in Nat /\ began[a]["init_after"] \in Nat
      BY <1>2, EventsAre
    <2>3. /\ began[a]["init_before"] <= 1 + Cardinality(Of(a, {"raised"}))
          /\ life \in {"starting", "up"} /\ IsStopped(a) =>
                began[a]["init_before"] <= Cardinality(Of(a, {"raised"}))
          /\ began[a]["init_after"] + Cardinality(Of(a, {"init_before"}))
                + One(a = primary /\ life = "starting") <= began[a]["init_before"]
          /\ began[a]["shutdown_before"] <=
                Cardinality(Of(a, {"shutdown_before"} \cup Later)) + One(a = primary /\ life \in {"stopping", "closed"})
          /\ began[a]["shutdown_after"] <= Cardinality(Of(a, Later)) + One(a = primary /\ life = "closed")
      BY <1>6 DEF Bounds
    <2>4. life' = life /\ primary' = primary
      BY <1>1
    <2> DEFINE N1 == Cardinality(Of(a, {"raised"}))
               N2 == Cardinality(Of(a, {"init_before"}))
               N3 == Cardinality(Of(a, {"shutdown_before"} \cup Later))
               N4 == Cardinality(Of(a, Later))
               M1 == Cardinality(Of(a, {"raised"})')
               M2 == Cardinality(Of(a, {"init_before"})')
               M3 == Cardinality(Of(a, {"shutdown_before"} \cup Later)')
               M4 == Cardinality(Of(a, Later)')
    <2>5. /\ M1 = N1 + One(a = s[1] /\ next = "raised") /\ M2 = N2 - One(a = s[1] /\ run_server[s] = "init_before")
          /\ M3 >= N3 /\ M4 >= N4 + One(a = s[1] /\ next = "shutdown_after")
          /\ N1 \in Nat /\ N2 \in Nat /\ N3 \in Nat /\ N4 \in Nat /\ M2 \in Nat /\ M3 \in Nat /\ M4 \in Nat
      BY <1>10
    <2>6. /\ began[a]["init_before"] <= 1 + N1
          /\ life \in {"starting", "up"} /\ IsStopped(a) => began[a]["init_before"] <= N1
          /\ began[a]["init_after"] + N2 + One(a = primary /\ life = "starting") <= began[a]["init_before"]
          /\ began[a]["shutdown_before"] <= N3 + One(a = primary /\ life \in {"stopping", "closed"})
          /\ began[a]["shutdown_after"] <= N4 + One(a = primary /\ life = "closed")
      BY <2>3
    <2> SUFFICES /\ began'[a]["init_before"] <= 1 + M1
                 /\ life \in {"starting", "up"} /\ IsStopped(a)' => began'[a]["init_before"] <= M1
                 /\ began'[a]["init_after"] + M2 + One(a = primary /\ life = "starting") <= began'[a]["init_before"]
                 /\ began'[a]["shutdown_before"] <= M3 + One(a = primary /\ life \in {"stopping", "closed"})
                 /\ began'[a]["shutdown_after"] <= M4 + One(a = primary /\ life = "closed")
      BY <2>4 DEF Bounds
    <2> HIDE DEF N1, N2, N3, N4, M1, M2, M3, M4
    <2>7. began'[a]["init_before"] <= 1 + M1
      BY <2>1, <2>2, <2>5, <2>6 DEF One
    <2>8. life \in {"starting", "up"} /\ IsStopped(a)' => began'[a]["init_before"] <= M1
      <3>1. CASE a = s[1] /\ next = "raised"
        BY <2>1, <2>2, <2>5, <2>6, <3>1 DEF One
      <3>2. CASE ~(a = s[1] /\ next = "raised")
        BY <1>19, <2>1, <2>2, <2>5, <2>6, <3>2 DEF One
      <3> QED BY <3>1, <3>2
    <2>9. began'[a]["init_after"] + M2 + One(a = primary /\ life = "starting") <= began'[a]["init_before"]
      <3>1. next = "init_after" => run_server[s] = "init_before"
        BY <1>7
      <3> QED BY <2>1, <2>2, <2>5, <2>6, <3>1 DEF One
    <2>10. began'[a]["shutdown_before"] <= M3 + One(a = primary /\ life \in {"stopping", "closed"})
      BY <2>1, <2>2, <2>5, <2>6 DEF One
    <2>11. began'[a]["shutdown_after"] <= M4 + One(a = primary /\ life = "closed")
      BY <2>1, <2>2, <2>5, <2>6 DEF One
    <2> QED BY <2>7, <2>8, <2>9, <2>10, <2>11
  <1>21. Counted'
    BY <1>20 DEF Counted, Bounds
  <1> QED BY <1>13, <1>14, <1>15, <1>18, <1>21 DEF SecondaryInv

\* Where a cancelled task goes.
LEMMA CancelledIs ==
    ASSUME NEW place
    PROVE  /\ Cancelled(place) # "created" /\ Cancelled(place) \notin InitEvents \cup {"serve_forever"}
           /\ place = "none" => Cancelled(place) = "none"
           /\ Cancelled(place) = "shutdown_before" <=> place \in InitEvents \cup {"serve_forever"}
           /\ place \in Later => Cancelled(place) \in Later
           /\ Cancelled(place) \in Later => place \in {"shutdown_before"} \cup Later
           /\ place = "shutdown_before" => Cancelled(place) \in Later
           /\ place = "raised" => Cancelled(place) = "raised"
           /\ Cancelled(place) \in Events \cup {"serve_forever", "over"} =>
                 place \in Events \cup {"serve_forever", "over"}
           /\ place \in Events \cup {"none", "created", "serve_forever", "raised", "over", "cancelled"} =>
                 Cancelled(place) \in Events \cup {"none", "created", "serve_forever", "raised", "over", "cancelled"}
  BY EventsAre DEF Cancelled, Later

\* Every RunServer task is cancelled.
LEMMA StopAllKeeps ==
    ASSUME SecondaryInv, StopAll
    PROVE  SecondaryInv'
  <1> DEFINE New(a) == {t \in ServersOf(a) : /\ run_server'[t] = "shutdown_before"
                                             /\ run_server[t] # "shutdown_before"}
             more(a) == Cardinality(New(a)) + IF a = primary /\ life = "up" THEN 1 ELSE 0
  <1>1. /\ life \in {"up", "stopping"} /\ life' = "stopping" /\ calls_stop < MaxCalls /\ calls_stop' = calls_stop + 1
        /\ UNCHANGED <<primary, infos, to_start, listens, is_started>>
        /\ run_server' = [t \in AllServers |-> Cancelled(run_server[t])]
        /\ stages' = [t \in AllServers |-> IF run_server'[t] = "raised" THEN "STOPPED" ELSE stages[t]]
    BY DEF StopAll
  <1>2. /\ SecondaryTypeOK /\ infos \in [AppNames -> Seq({1, 3})] /\ primary \in AppNames
        /\ DOMAIN stages = DOMAIN run_server /\ began \in [AppNames -> [Events -> Nat]]
        /\ \A a \in AppNames : \A event \in Events : began[a][event] \in Nat
    BY Typed DEF SecondaryInv
  <1>3. /\ DOMAIN run_server = AllServers /\ FirstServer \in AllServers
        /\ run_server[FirstServer] = "none" /\ stages[FirstServer] = "SERVING" /\ to_start = {}
    BY <1>1 DEF SecondaryInv, Placed
  <1>4. AllServers' = AllServers /\ FirstServer' = FirstServer /\ \A a \in AppNames : ServersOf(a)' = ServersOf(a)
    BY <1>1, SameServers
  <1>5. Begun /\ \A a \in AppNames : Bounds(a)
    BY DEF SecondaryInv, Counted, Bounds
  <1>6. /\ DOMAIN run_server' = AllServers /\ DOMAIN stages' = AllServers
        /\ \A t \in AllServers : run_server'[t] = Cancelled(run_server[t])
        /\ \A t \in AllServers : stages'[t] = IF run_server'[t] = "raised" THEN "STOPPED" ELSE stages[t]
    BY <1>1
  <1>7. ASSUME NEW a \in AppNames
        PROVE  /\ IsFiniteSet(ServersOf(a)) /\ New(a) \subseteq ServersOf(a) /\ IsFiniteSet(New(a))
               /\ Cardinality(New(a)) \in Nat /\ more(a) \in Nat
               /\ \A t \in ServersOf(a) : t \in AllServers /\ t[1] = a
    <2>1. IsFiniteSet(ServersOf(a)) /\ \A t \in ServersOf(a) : t \in AllServers /\ t[1] = a
      BY <1>2, ServersAre
    <2>2. New(a) \subseteq ServersOf(a)
      OBVIOUS
    <2>3. IsFiniteSet(New(a)) /\ Cardinality(New(a)) \in Nat
      BY <2>1, <2>2, FS_Subset, FS_CardinalityType
    <2> QED BY <2>1, <2>2, <2>3
  <1>8. began' = [a \in AppNames |-> [began[a] EXCEPT !["shutdown_before"] = @ + Cardinality(New(a))
                                        + IF a = primary /\ life = "up" THEN 1 ELSE 0]]
    BY DEF StopAll
  <1>9. began' = [a \in AppNames |-> [began[a] EXCEPT !["shutdown_before"] = @ + more(a)]]
    <2>1. \A a \in AppNames :
             began[a]["shutdown_before"] + Cardinality(New(a)) + (IF a = primary /\ life = "up" THEN 1 ELSE 0) =
             began[a]["shutdown_before"] + more(a)
      <3>1. ASSUME NEW a \in AppNames
            PROVE  began[a]["shutdown_before"] + Cardinality(New(a)) + (IF a = primary /\ life = "up" THEN 1 ELSE 0) =
                   began[a]["shutdown_before"] + more(a)
        <4>1. began[a]["shutdown_before"] \in Nat /\ Cardinality(New(a)) \in Nat
          BY <1>2, <1>7, EventsAre
        <4> HIDE DEF New
        <4> QED BY <4>1
      <3> QED BY <3>1
    <2> HIDE DEF New, more
    <2>2. \A a \in AppNames :
             [began[a] EXCEPT !["shutdown_before"] = @ + Cardinality(New(a)) + IF a = primary /\ life = "up" THEN 1 ELSE 0] =
             [began[a] EXCEPT !["shutdown_before"] = @ + more(a)]
      BY <2>1
    <2> QED BY <1>8, <2>2
  <1> HIDE DEF New, more
  <1>10. /\ began' \in [AppNames -> [Events -> Nat]]
         /\ \A a \in AppNames : \A e \in Events :
               began'[a][e] = IF e = "shutdown_before" THEN began[a][e] + more(a) ELSE began[a][e]
    <2> DEFINE now(a) == [began[a] EXCEPT !["shutdown_before"] = @ + more(a)]
    <2>1. ASSUME NEW a \in AppNames
          PROVE  /\ now(a) \in [Events -> Nat]
                 /\ \A e \in Events : now(a)[e] = IF e = "shutdown_before" THEN began[a][e] + more(a) ELSE began[a][e]
      <3>1. began[a] \in [Events -> Nat] /\ began[a]["shutdown_before"] \in Nat /\ more(a) \in Nat
        BY <1>2, <1>7, EventsAre
      <3>2. began[a]["shutdown_before"] + more(a) \in Nat
        BY <3>1
      <3> QED BY <3>1, <3>2
    <2>2. began' = [a \in AppNames |-> now(a)]
      BY <1>9
    <2> HIDE DEF now
    <2> QED BY <2>1, <2>2
  <1>11. SecondaryTypeOK'
    <2>1. \A t \in AllServers :
             run_server'[t] \in Events \cup {"none", "created", "serve_forever", "raised", "over", "cancelled"}
      BY <1>2, <1>3, <1>6, CancelledIs DEF SecondaryTypeOK
    <2>2. \A t \in AllServers : stages'[t] \in {"STOPPED", "SERVING"}
      BY <1>2, <1>3, <1>6 DEF SecondaryTypeOK
    <2>3. listens' \subseteq AllServers /\ to_start' \subseteq AllServers
      BY <1>1, <1>2, <1>3 DEF SecondaryTypeOK
    <2>4. calls_stop' \in 0..MaxCalls
      BY <1>1, <1>2, SecondaryAssumption DEF SecondaryTypeOK, SecondaryAssumption
    <2>5. life' = "stopping" /\ primary' = primary /\ infos' = infos /\ is_started' = is_started
      BY <1>1
    <2> QED BY <1>2, <1>6, <1>10, <2>1, <2>2, <2>3, <2>4, <2>5 DEF SecondaryTypeOK
  <1>12. Placed'
    <2>1. run_server'[FirstServer] = "none" /\ stages'[FirstServer] = "SERVING"
      BY <1>3, <1>6, CancelledIs
    <2>2. \A t \in AllServers : run_server'[t] # "created"
      BY <1>6, CancelledIs
    <2>3. life' = "stopping" /\ to_start' = {}
      BY <1>1, <1>3
    <2> QED BY <1>3, <1>4, <1>6, <2>1, <2>2, <2>3 DEF Placed
  <1>13. OnlyFirst'
    BY <1>1, <1>4 DEF SecondaryInv, OnlyFirst
  <1>14. \A a \in AppNames : began'[a]["init_before"] = began[a]["init_before"]
    BY <1>10, EventsAre
  <1>15. began[primary]["init_before"] # 0
    BY <1>3, <1>5 DEF Begun, FirstServer
  <1>16. Begun'
    <2>1. ASSUME NEW a \in AppNames, began'[a]["init_before"] = 0 PROVE \A e \in Events : began'[a][e] = 0
      <3>1. a # primary /\ began[a]["init_before"] = 0 /\ \A e \in Events : began[a][e] = 0
        BY <1>5, <1>14, <1>15, <2>1 DEF Begun
      <3>2. ASSUME NEW t \in ServersOf(a) PROVE run_server'[t] # "shutdown_before"
        <4>1. t \in AllServers /\ t[1] = a
          BY <1>7
        <4>2. run_server[t] \notin Events \cup {"serve_forever", "over"}
          BY <1>3, <1>5, <3>1, <4>1 DEF Begun
        <4> QED BY <1>6, <4>1, <4>2, CancelledIs, EventsAre
      <3>3. New(a) = {}
        BY <3>2 DEF New
      <3>4. more(a) = 0
        BY <3>1, <3>3, FS_EmptySet DEF more
      <3> QED BY <1>10, <3>1, <3>4
    <2>2. ASSUME NEW t \in AllServers,
                 stages'[t] = "SERVING" \/ run_server'[t] \in Events \cup {"serve_forever", "over"}
          PROVE  began'[t[1]]["init_before"] # 0
      <3>1. stages[t] = "SERVING" \/ run_server[t] \in Events \cup {"serve_forever", "over"}
        BY <1>6, <2>2, CancelledIs
      <3>2. t[1] \in AppNames
        BY <1>2, ServersAre
      <3> QED BY <1>3, <1>5, <1>14, <3>1, <3>2 DEF Begun
    <2> QED BY <1>6, <2>1, <2>2 DEF Begun
  <1>17. ASSUME NEW a \in AppNames, NEW places
         PROVE  /\ Of(a, places)' = {t \in ServersOf(a) : Cancelled(run_server[t]) \in places}
                /\ Of(a, places) = {t \in ServersOf(a) : run_server[t] \in places}
    <2>1. /\ Of(a, places)' = {t \in ServersOf(a) \cap AllServers : run_server'[t] \in places}
          /\ Of(a, places) = {t \in ServersOf(a) \cap AllServers : run_server[t] \in places}
      BY <1>3, <1>4, <1>6 DEF Of
    <2> QED BY <1>6, <1>7, <2>1
  <1>18. ASSUME NEW a \in AppNames
         PROVE  /\ Cardinality(Of(a, {"raised"})') >= Cardinality(Of(a, {"raised"}))
                /\ Cardinality(Of(a, {"init_before"})') = 0
                /\ Cardinality(Of(a, {"shutdown_before"} \cup Later)') =
                      Cardinality(Of(a, {"shutdown_before"} \cup Later)) + Cardinality(New(a))
                /\ Cardinality(Of(a, Later)') >= Cardinality(Of(a, Later))
                /\ Cardinality(Of(a, {"raised"})) \in Nat /\ Cardinality(Of(a, {"init_before"})) \in Nat
                /\ Cardinality(Of(a, {"shutdown_before"} \cup Later)) \in Nat /\ Cardinality(Of(a, Later)) \in Nat
                /\ Cardinality(Of(a, {"raised"})') \in Nat /\ Cardinality(Of(a, Later)') \in Nat
    <2>1. ASSUME NEW places
          PROVE  /\ IsFiniteSet(Of(a, places)) /\ Cardinality(Of(a, places)) \in Nat
                 /\ IsFiniteSet(Of(a, places)') /\ Cardinality(Of(a, places)') \in Nat
      <3>1. Of(a, places) \subseteq ServersOf(a) /\ Of(a, places)' \subseteq ServersOf(a)
        BY <1>17
      <3> QED BY <1>7, <3>1, FS_Subset, FS_CardinalityType
    <2>2. Cardinality(Of(a, {"raised"})') >= Cardinality(Of(a, {"raised"}))
      <3>1. Of(a, {"raised"}) \subseteq Of(a, {"raised"})'
        BY <1>17, CancelledIs
      <3>2. Cardinality(Of(a, {"raised"})) <= Cardinality(Of(a, {"raised"})')
        BY <2>1, <3>1, FS_Subset
      <3> QED BY <2>1, <3>2
    <2>3. Cardinality(Of(a, Later)') >= Cardinality(Of(a, Later))
      <3>1. Of(a, Later) \subseteq Of(a, Later)'
        BY <1>17, CancelledIs
      <3>2. Cardinality(Of(a, Later)) <= Cardinality(Of(a, Later)')
        BY <2>1, <3>1, FS_Subset
      <3> QED BY <2>1, <3>2
    <2>4. Cardinality(Of(a, {"init_before"})') = 0
      <3>1. Of(a, {"init_before"})' = {}
        BY <1>17, CancelledIs, EventsAre
      <3> QED BY <3>1, FS_EmptySet
    <2>5. Cardinality(Of(a, {"shutdown_before"} \cup Later)') =
             Cardinality(Of(a, {"shutdown_before"} \cup Later)) + Cardinality(New(a))
      <3> DEFINE past == Of(a, {"shutdown_before"} \cup Later)
      <3>1. \A t \in ServersOf(a) : t \in New(a) <=> run_server[t] \in InitEvents \cup {"serve_forever"}
        <4>1. ASSUME NEW t \in ServersOf(a) PROVE t \in New(a) <=> run_server[t] \in InitEvents \cup {"serve_forever"}
          <5>1. t \in New(a) <=> Cancelled(run_server[t]) = "shutdown_before" /\ run_server[t] # "shutdown_before"
            BY <1>6, <1>7 DEF New
          <5> QED BY <5>1, CancelledIs, EventsAre
        <4> QED BY <4>1
      <3>2. \A t \in ServersOf(a) : Cancelled(run_server[t]) \in {"shutdown_before"} \cup Later <=>
               run_server[t] \in {"shutdown_before"} \cup Later \/ run_server[t] \in InitEvents \cup {"serve_forever"}
        BY CancelledIs DEF Later
      <3>3. Of(a, {"shutdown_before"} \cup Later)' = past \cup New(a)
        BY <1>7, <1>17, <3>1, <3>2
      <3>4. past \cap New(a) = {}
        <4>1. \A place \in InitEvents \cup {"serve_forever"} : place \notin {"shutdown_before"} \cup Later
          BY EventsAre DEF Later
        <4> QED BY <1>7, <1>17, <3>1, <4>1
      <3>5. IsFiniteSet(past) /\ IsFiniteSet(New(a)) /\ Cardinality(past) \in Nat /\ Cardinality(New(a)) \in Nat
        BY <1>7, <2>1
      <3> HIDE DEF past
      <3>6. Cardinality(past \cup New(a)) = Cardinality(past) + Cardinality(New(a)) - Cardinality(past \cap New(a))
        BY <3>5, FS_Union
      <3>7. Cardinality(past \cap New(a)) = 0
        BY <3>4, FS_EmptySet
      <3>8. Cardinality(past \cup New(a)) = Cardinality(past) + Cardinality(New(a))
        BY <3>5, <3>6, <3>7
      <3> QED BY <3>3, <3>8 DEF past
    <2> QED BY <2>1, <2>2, <2>3, <2>4, <2>5
  <1>19. ASSUME NEW a \in AppNames PROVE Bounds(a)'
    <2>1. /\ began'[a]["init_before"] = began[a]["init_before"]
          /\ began'[a]["init_after"] = began[a]["init_after"]
          /\ began'[a]["shutdown_before"] = began[a]["shutdown_before"] + more(a)
          /\ began'[a]["shutdown_after"] = began[a]["shutdown_after"]
      BY <1>10, EventsAre
    <2>2. /\ began[a]["shutdown_after"] \in Nat /\ began[a]["shutdown_before"] \in Nat
          /\ began[a]["init_before"] \in Nat /\ began[a]["init_after"] \in Nat
      BY <1>2, EventsAre
    <2> DEFINE N1 == Cardinality(Of(a, {"raised"}))
               N2 == Cardinality(Of(a, {"init_before"}))
               N3 == Cardinality(Of(a, {"shutdown_before"} \cup Later))
               N4 == Cardinality(Of(a, Later))
               M1 == Cardinality(Of(a, {"raised"})')
               M2 == Cardinality(Of(a, {"init_before"})')
               M3 == Cardinality(Of(a, {"shutdown_before"} \cup Later)')
               M4 == Cardinality(Of(a, Later)')
               n  == Cardinality(New(a))
    <2>3. /\ M1 >= N1 /\ M2 = 0 /\ M3 = N3 + n /\ M4 >= N4 /\ n \in Nat
          /\ N1 \in Nat /\ N2 \in Nat /\ N3 \in Nat /\ N4 \in Nat /\ M1 \in Nat /\ M4 \in Nat
      BY <1>7, <1>18
    <2>4. more(a) = n + One(a = primary /\ life = "up")
      BY DEF more, One
    <2>5. /\ began[a]["init_before"] <= 1 + N1
          /\ began[a]["init_after"] + N2 + One(a = primary /\ life = "starting") <= began[a]["init_before"]
          /\ began[a]["shutdown_before"] <= N3 + One(a = primary /\ life \in {"stopping", "closed"})
          /\ began[a]["shutdown_after"] <= N4 + One(a = primary /\ life = "closed")
      BY <1>5 DEF Bounds
    <2>6. life' = "stopping" /\ primary' = primary
      BY <1>1
    <2> SUFFICES /\ began'[a]["init_before"] <= 1 + M1
                 /\ began'[a]["init_after"] + M2 + One(FALSE) <= began'[a]["init_before"]
                 /\ began'[a]["shutdown_before"] <= M3 + One(a = primary)
                 /\ began'[a]["shutdown_after"] <= M4 + One(FALSE)
      BY <2>6 DEF Bounds, One
    <2> HIDE DEF N1, N2, N3, N4, M1, M2, M3, M4, n
    <2>7. began'[a]["init_before"] <= 1 + M1
      BY <2>1, <2>2, <2>3, <2>5
    <2>8. began'[a]["init_after"] + M2 + One(FALSE) <= began'[a]["init_before"]
      BY <2>1, <2>2, <2>3, <2>5 DEF One
    <2>9. began'[a]["shutdown_before"] <= M3 + One(a = primary)
      BY <1>1, <2>1, <2>2, <2>3, <2>4, <2>5 DEF One
    <2>10. began'[a]["shutdown_after"] <= M4 + One(FALSE)
      BY <1>1, <2>1, <2>2, <2>3, <2>5 DEF One
    <2> QED BY <2>7, <2>8, <2>9, <2>10
  <1>20. Counted'
    BY <1>19 DEF Counted, Bounds
  <1> QED BY <1>11, <1>12, <1>13, <1>16, <1>20 DEF SecondaryInv
-----------------------------------------------------------------------------
LEMMA SecondaryStarts == SecondaryInit => SecondaryInv
  <1> SUFFICES ASSUME SecondaryInit PROVE SecondaryInv
    OBVIOUS
  <1>1. /\ life = "prepare" /\ primary \in AppNames /\ infos = [app \in AppNames |-> <<>>]
        /\ stages = <<>> /\ run_server = <<>> /\ to_start = {} /\ listens = {} /\ is_started = {}
        /\ calls_stop = 0 /\ began = [app \in AppNames |-> [event \in Events |-> 0]]
    BY DEF SecondaryInit
  <1>2. SecondaryTypeOK
    BY <1>1, SecondaryAssumption DEF SecondaryTypeOK, SecondaryAssumption
  <1>3. \A app \in AppNames : \A event \in Events : began[app][event] = 0
    BY <1>1
  <1>4. Placed /\ Begun /\ OnlyFirst
    BY <1>1, <1>3 DEF Placed, Begun, OnlyFirst
  <1>5. ASSUME NEW a \in AppNames PROVE Bounds(a)
    <2>1. \A places : Of(a, places) = {}
      BY <1>1 DEF Of
    <2>2. Cardinality({}) = 0
      BY FS_EmptySet
    <2>3. /\ Cardinality(Of(a, {"raised"})) = 0 /\ Cardinality(Of(a, {"init_before"})) = 0
          /\ Cardinality(Of(a, {"shutdown_before"} \cup Later)) = 0 /\ Cardinality(Of(a, Later)) = 0
      BY <2>1, <2>2
    <2>4. /\ began[a]["init_before"] = 0 /\ began[a]["init_after"] = 0
          /\ began[a]["shutdown_before"] = 0 /\ began[a]["shutdown_after"] = 0
      BY <1>3, EventsAre
    <2> QED BY <1>1, <2>3, <2>4 DEF Bounds, One
  <1>6. Counted
    BY <1>5 DEF Counted, Bounds
  <1> QED BY <1>2, <1>4, <1>6 DEF SecondaryInv

\* Every step keeps the invariant.
LEMMA SecondarySteps == SecondaryInv /\ [SecondaryNext]_secondary_vars => SecondaryInv'
  <1> SUFFICES ASSUME SecondaryInv, [SecondaryNext]_secondary_vars PROVE SecondaryInv'
    OBVIOUS
  <1>1. CASE UNCHANGED secondary_vars
    <2>1. UNCHANGED <<life, primary, infos, stages, run_server, to_start, listens, is_started, calls_stop, began>>
      BY <1>1 DEF secondary_vars
    <2>2. AllServers' = AllServers /\ FirstServer' = FirstServer /\ \A a \in AppNames : ServersOf(a)' = ServersOf(a)
      BY <2>1, SameServers
    <2>3. SecondaryTypeOK'
      BY <2>1 DEF SecondaryInv, SecondaryTypeOK
    <2>4. Placed'
      BY <2>1, <2>2 DEF SecondaryInv, Placed
    <2>5. Begun'
      BY <2>1 DEF SecondaryInv, Begun
    <2>6. OnlyFirst'
      BY <2>1, <2>2 DEF SecondaryInv, OnlyFirst
    <2>7. ASSUME NEW a \in AppNames PROVE Bounds(a)'
      <3>1. \A places : Of(a, places)' = Of(a, places)
        BY <2>1, <2>2 DEF Of
      <3>2. IsStopped(a)' = IsStopped(a)
        BY <2>1, <2>2 DEF IsStopped
      <3>3. /\ Of(a, {"raised"})' = Of(a, {"raised"}) /\ Of(a, {"init_before"})' = Of(a, {"init_before"})
            /\ Of(a, {"shutdown_before"} \cup Later)' = Of(a, {"shutdown_before"} \cup Later)
            /\ Of(a, Later)' = Of(a, Later)
        BY <3>1
      <3>4. Bounds(a)
        BY DEF SecondaryInv, Counted, Bounds
      <3> QED BY <2>1, <3>2, <3>3, <3>4 DEF Bounds
    <2>8. Counted'
      BY <2>7 DEF Counted, Bounds
    <2> QED BY <2>3, <2>4, <2>5, <2>6, <2>8 DEF SecondaryInv
  <1>2. CASE \E version \in {1, 3} : Run(version)
    <2>1. PICK version \in {1, 3} : Prepare(primary, version) /\ life' = "run"
      BY <1>2 DEF Run
    <2>2. primary \in AppNames
      BY Typed DEF SecondaryInv
    <2> QED BY <2>1, <2>2, PrepareKeeps
  <1>3. CASE \E version \in {1, 3}, app \in AppNames : PrepareOnly(app, version)
    <2>1. PICK version \in {1, 3}, app \in AppNames : Prepare(app, version) /\ life' = life
      BY <1>3 DEF PrepareOnly
    <2> QED BY <2>1, PrepareKeeps
  <1>4. CASE WorkerServe
    BY <1>4, WorkerServeKeeps
  <1>5. CASE AllStarted
    BY <1>5, AllStartedKeeps
  <1>6. CASE StopAll
    BY <1>6, StopAllKeeps
  <1>7. CASE EndLoop
    BY <1>7, EndLoopKeeps
  <1>8. CASE \E os_error \in BOOLEAN : StartServer(os_error)
    BY <1>8, StartServerKeeps
  <1>9. CASE \E s \in DOMAIN run_server, raises \in BOOLEAN : RunServer(s, raises)
    BY <1>9, RunServerKeeps
  <1>10. CASE \E s \in DOMAIN run_server, raises \in BOOLEAN : EventEnds(s, raises)
    BY <1>10, EventEndsKeeps
  <1> QED BY <1>1, <1>2, <1>3, <1>4, <1>5, <1>6, <1>7, <1>8, <1>9, <1>10 DEF SecondaryNext

\* What the invariant says of the listeners that were called.
LEMMA SecondaryMeans == SecondaryInv => SecondariesInStep
  <1> SUFFICES ASSUME SecondaryInv PROVE SecondariesInStep
    OBVIOUS
  <1>1. /\ infos \in [AppNames -> Seq({1, 3})] /\ primary \in AppNames
        /\ \A a \in AppNames : \A event \in Events : began[a][event] \in Nat
    BY Typed DEF SecondaryInv
  <1>2. ASSUME NEW app \in AppNames, NEW places, "none" \notin places
        PROVE  /\ Cardinality(Of(app, places)) <= Len(infos[app])
               /\ app = primary /\ life \in {"stopping", "closed"} =>
                     Cardinality(Of(app, places)) + 1 <= Len(infos[app])
    <2>1. /\ IsFiniteSet(ServersOf(app)) /\ Cardinality(ServersOf(app)) <= Len(infos[app])
          /\ Cardinality(ServersOf(app)) \in Nat /\ Len(infos[app]) \in Nat
      BY <1>1, ServersAre, FS_CardinalityType
    <2>2. /\ IsFiniteSet(Of(app, places)) /\ Cardinality(Of(app, places)) \in Nat
          /\ Cardinality(Of(app, places)) <= Len(infos[app]) /\ Of(app, places) \subseteq ServersOf(app)
      BY <1>1, OfCounts
    <2>3. ASSUME app = primary, life \in {"stopping", "closed"}
          PROVE  Cardinality(Of(app, places)) + 1 <= Len(infos[app])
      <3>1. FirstServer \in AllServers /\ run_server[FirstServer] = "none"
        BY <1>2, <2>3 DEF SecondaryInv, Placed
      <3>2. FirstServer \in ServersOf(app)
        BY <1>1, <2>3, <3>1, ServersAre DEF FirstServer
      <3>3. Of(app, places) \subseteq ServersOf(app) \ {FirstServer}
        BY <1>2, <2>2, <3>1 DEF Of
      <3>4. /\ Cardinality(ServersOf(app) \ {FirstServer}) = Cardinality(ServersOf(app)) - 1
            /\ IsFiniteSet(ServersOf(app) \ {FirstServer})
        BY <2>1, <3>2, FS_RemoveElement
      <3>5. Cardinality(Of(app, places)) <= Cardinality(ServersOf(app) \ {FirstServer})
        BY <3>3, <3>4, FS_Subset
      <3> QED BY <2>1, <2>2, <3>4, <3>5
    <2> QED BY <2>2, <2>3
  <1>3. ASSUME NEW app \in AppNames
        PROVE  LET failed == {s \in ServersOf(app) \cap DOMAIN run_server : run_server[s] = "raised"}
               IN  /\ began[app]["init_before"] <= 1 + Cardinality(failed)
                   /\ began[app]["init_after"] <= began[app]["init_before"]
                   /\ \A event \in {"shutdown_before", "shutdown_after"} : began[app][event] <= Len(infos[app])
                   /\ began[app]["init_before"] = 0 => \A event \in Events : began[app][event] = 0
    <2>1. {s \in ServersOf(app) \cap DOMAIN run_server : run_server[s] = "raised"} = Of(app, {"raised"})
      BY DEF Of
    <2>2. /\ began[app]["init_before"] <= 1 + Cardinality(Of(app, {"raised"}))
          /\ began[app]["init_after"] + Cardinality(Of(app, {"init_before"}))
                + One(app = primary /\ life = "starting") <= began[app]["init_before"]
          /\ began[app]["shutdown_before"] <= Cardinality(Of(app, {"shutdown_before"} \cup Later))
                                                 + One(app = primary /\ life \in {"stopping", "closed"})
          /\ began[app]["shutdown_after"] <= Cardinality(Of(app, Later)) + One(app = primary /\ life = "closed")
          /\ began[app]["init_before"] = 0 => \A event \in Events : began[app][event] = 0
      BY DEF SecondaryInv, Counted, Begun
    <2>3. /\ began[app]["init_before"] \in Nat /\ began[app]["init_after"] \in Nat
          /\ began[app]["shutdown_before"] \in Nat /\ began[app]["shutdown_after"] \in Nat
      BY <1>1, EventsAre
    <2>4. \A places : Cardinality(Of(app, places)) \in Nat /\ Len(infos[app]) \in Nat
      <3>1. ASSUME NEW places PROVE Cardinality(Of(app, places)) \in Nat /\ Len(infos[app]) \in Nat
        BY <1>1, OfCounts
      <3> QED BY <3>1
    <2>5. began[app]["init_after"] <= began[app]["init_before"]
      <3> DEFINE n == Cardinality(Of(app, {"init_before"}))
      <3>1. n \in Nat
        BY <2>4
      <3>2. began[app]["init_after"] + n + One(app = primary /\ life = "starting") <= began[app]["init_before"]
        BY <2>2
      <3> HIDE DEF n
      <3> QED BY <2>3, <3>1, <3>2 DEF One
    <2>6. began[app]["shutdown_before"] <= Len(infos[app])
      <3> DEFINE n == Cardinality(Of(app, {"shutdown_before"} \cup Later))
                 m == Len(infos[app])
      <3>1. n <= m /\ (app = primary /\ life \in {"stopping", "closed"} => n + 1 <= m)
        BY <1>2 DEF Later
      <3>2. began[app]["shutdown_before"] <= n + One(app = primary /\ life \in {"stopping", "closed"})
        BY <2>2
      <3>3. n \in Nat /\ m \in Nat
        BY <2>4
      <3> HIDE DEF n, m
      <3>4. began[app]["shutdown_before"] <= m
        BY <2>3, <3>1, <3>2, <3>3 DEF One
      <3> QED BY <3>4 DEF m
    <2>7. began[app]["shutdown_after"] <= Len(infos[app])
      <3> DEFINE n == Cardinality(Of(app, Later))
                 m == Len(infos[app])
      <3>1. n <= m /\ (app = primary /\ life \in {"stopping", "closed"} => n + 1 <= m)
        BY <1>2 DEF Later
      <3>2. began[app]["shutdown_after"] <= n + One(app = primary /\ life = "closed")
        BY <2>2
      <3>3. n \in Nat /\ m \in Nat
        BY <2>4
      <3> HIDE DEF n, m
      <3>4. began[app]["shutdown_after"] <= m
        BY <2>3, <3>1, <3>2, <3>3 DEF One
      <3> QED BY <3>4 DEF m
    <2> QED BY <2>1, <2>2, <2>5, <2>6, <2>7
  <1>4. \A s \in listens : infos[s[1]][s[2]] = 3 => s = FirstServer
    BY DEF SecondaryInv, OnlyFirst
  <1> QED BY <1>3, <1>4 DEF SecondariesInStep

\* However the tasks that run the further servers interleave, with each other and with a stop(), an
\* application starts once, or once more for each of its servers that failed; its shutdown listeners
\* are called at most once for each of its servers, and never unless it has started; and HTTP/3 is
\* only served by the first server of the primary application.
THEOREM SecondariesKeepStep == SecondarySpec => []SecondariesInStep
  <1>1. SecondaryInv => SecondariesInStep
    BY SecondaryMeans
  <1> QED BY <1>1, SecondaryStarts, SecondarySteps, PTL DEF SecondarySpec
-----------------------------------------------------------------------------
(* The reloader *)

ReloadTyped ==
    /\ disk \in [Files -> Nat] /\ mtimes \in [Files -> Nat] /\ loaded \in [Files -> Nat]
    /\ messages \in Nat /\ unread \subseteq Files /\ changed \subseteq Files
    /\ unloaded \subseteq Files /\ watched \subseteq Files

Seen == \A f \in watched : mtimes[f] # 0

ReloadInv == ReloadTyped /\ Seen /\ ChangeOnItsWay
-----------------------------------------------------------------------------
\* Nothing is watched at the start.
LEMMA ReloadStarts == ReloadInit => ReloadInv
  <1> SUFFICES ASSUME ReloadInit PROVE ReloadInv
    OBVIOUS
  <1>1. 0 \in Nat /\ Zero \in [Files -> Nat]
    BY DEF Zero
  <1>2. disk \in [Files -> {0, 1}]
    BY DEF ReloadInit
  <1> QED BY <1>1, <1>2 DEF ReloadInit, ReloadInv, ReloadTyped, Seen, ChangeOnItsWay

\* A file that is written is later than the reloader knows, or not watched.
LEMMA ModifyKeeps ==
    ASSUME ReloadInv, NEW f \in Files, NEW time \in Nat, Modify(f, time)
    PROVE  ReloadInv'
  <1> USE DEF ReloadInv, Modify
  <1>1. ReloadTyped'
    BY DEF ReloadTyped
  <1>2. Seen'
    BY DEF ReloadTyped, Seen
  <1>3. ChangeOnItsWay'
    <2> SUFFICES ASSUME NEW g \in watched'
                 PROVE  \/ loaded'[g] = disk'[g] \/ disk'[g] > mtimes'[g] \/ g \in changed'
                        \/ messages' > 0 \/ g \in unloaded'
      BY DEF ChangeOnItsWay
    <2>1. CASE g = f
      BY <2>1 DEF ReloadTyped
    <2>2. CASE g # f
      <3>1. g \in watched /\ disk'[g] = disk[g]
        BY <2>2 DEF ReloadTyped
      <3> QED BY <3>1 DEF ChangeOnItsWay
    <2> QED BY <2>1, <2>2
  <1> QED BY <1>1, <1>2, <1>3

\* What the reloader finds later than it knew is among the changed.
LEMMA CheckFileKeeps ==
    ASSUME ReloadInv, NEW f \in Files, CheckFile(f)
    PROVE  ReloadInv'
  <1> USE DEF ReloadInv, CheckFile
  <1>1. ReloadTyped'
    BY DEF ReloadTyped
  <1>2. Seen'
    BY DEF ReloadTyped, Seen
  <1>3. ChangeOnItsWay'
    BY DEF ReloadTyped, Seen, ChangeOnItsWay
  <1> QED BY <1>1, <1>2, <1>3

\* What was among the changed is a message then, unless the reloader fails and keeps it.
LEMMA TellingKeeps ==
    ASSUME ReloadInv, Trigger \/ ListenerFails
    PROVE  ReloadInv'
  <1> USE DEF ReloadInv, Trigger, ListenerFails
  <1>1. ReloadTyped'
    BY DEF ReloadTyped
  <1>2. Seen'
    BY DEF Seen
  <1>3. ChangeOnItsWay'
    BY DEF ReloadTyped, ChangeOnItsWay
  <1> QED BY <1>1, <1>2, <1>3

\* A restarted worker has yet to load everything, and loads what is there.
LEMMA WorkerKeeps ==
    ASSUME ReloadInv, RestartWorker \/ \E f \in Files : LoadFile(f)
    PROVE  ReloadInv'
  <1> USE DEF ReloadInv, RestartWorker, LoadFile
  <1>1. ReloadTyped'
    BY DEF ReloadTyped
  <1>2. Seen'
    BY DEF Seen
  <1>3. ChangeOnItsWay'
    BY DEF ReloadTyped, ChangeOnItsWay
  <1> QED BY <1>1, <1>2, <1>3

\* The invariant is kept by every step.
LEMMA ReloadKept == ReloadInv /\ [ReloadNext]_reload_vars => ReloadInv'
  <1> SUFFICES ASSUME ReloadInv, [ReloadNext]_reload_vars PROVE ReloadInv'
    OBVIOUS
  <1>1. CASE StartReloader \/ Pass \/ StopReloader \/ ReloaderStops
    BY <1>1 DEF StartReloader, Pass, StopReloader, ReloaderStops, ReloadInv, ReloadTyped, Seen,
                ChangeOnItsWay
  <1>2. CASE Trigger \/ ListenerFails
    BY <1>2, TellingKeeps
  <1>3. CASE \E f \in Files : CheckFile(f)
    BY <1>3, CheckFileKeeps
  <1>4. CASE RestartWorker \/ \E f \in Files : LoadFile(f)
    BY <1>4, WorkerKeeps
  <1>5. CASE \E f \in Files : \E time \in 0..MaxTime : Modify(f, time)
    BY <1>5, ModifyKeeps, ReloadingAssumption DEF ReloadingAssumption
  <1>6. CASE UNCHANGED reload_vars
    BY <1>6 DEF reload_vars, ReloadInv, ReloadTyped, Seen, ChangeOnItsWay
  <1> QED BY <1>1, <1>2, <1>3, <1>4, <1>5, <1>6 DEF ReloadNext, ReloaderStep

\* A change of a file that the reloader has seen is never lost on its way to the workers: it is
\* later than the reloader knows, noticed, asked for, yet to be loaded, or loaded - in whatever
\* order files are written, looked at and loaded, and workers are restarted.
\* (Reloader.check_file, Reloader.__call__)
THEOREM NoChangeLost == ReloadSpec => []ChangeOnItsWay
  <1>1. ReloadInv => ChangeOnItsWay
    BY DEF ReloadInv
  <1> QED BY <1>1, ReloadStarts, ReloadKept, PTL DEF ReloadSpec

\* Every message has been due to a time that the reloader did not know before: it has sent no more
\* than there are times of files.
Known == {k \in Files \X (1..MaxTime) : k[2] <= mtimes[k[1]]}
Asked == messages + Cardinality(changed) <= Cardinality(Known)

ReloadTypes == ReloadTypeOK /\ Asked

LEMMA ReloadSets ==
    ASSUME ReloadTypeOK
    PROVE  /\ disk \in [Files -> 0..MaxTime] /\ mtimes \in [Files -> 0..MaxTime] /\ loaded \in [Files -> 0..MaxTime]
           /\ unread \subseteq Files /\ changed \subseteq Files /\ unloaded \subseteq Files /\ watched \subseteq Files
           /\ messages \in Nat /\ reloader \in {"starting", "running", "stopping", "over"}
           /\ IsFiniteSet(Files) /\ MaxTime \in Nat /\ MaxTime # 0
           /\ IsFiniteSet(changed) /\ Cardinality(changed) \in Nat
           /\ IsFiniteSet(Known) /\ Cardinality(Known) \in Nat
           /\ Cardinality(Known) <= MaxTime * Cardinality(Files)
           /\ Cardinality(Files) \in Nat /\ MaxTime * Cardinality(Files) \in Nat
  <1>1. IsFiniteSet(Files) /\ MaxTime \in Nat /\ MaxTime # 0
    BY ReloadingAssumption DEF ReloadingAssumption
  <1>2. /\ disk \in [Files -> 0..MaxTime] /\ mtimes \in [Files -> 0..MaxTime] /\ loaded \in [Files -> 0..MaxTime]
        /\ unread \subseteq Files /\ changed \subseteq Files /\ unloaded \subseteq Files /\ watched \subseteq Files
        /\ messages \in 0..(MaxTime * Cardinality(Files)) /\ reloader \in {"starting", "running", "stopping", "over"}
    BY DEF ReloadTypeOK
  <1>3. Cardinality(Files) \in Nat
    BY <1>1, FS_CardinalityType
  <1>4. IsFiniteSet(changed) /\ Cardinality(changed) \in Nat
    BY <1>1, <1>2, FS_Subset, FS_CardinalityType
  <1>5. IsFiniteSet(1..MaxTime) /\ Cardinality(1..MaxTime) = MaxTime
    <2>1. 1 \in Int /\ MaxTime \in Int
      BY <1>1
    <2>2. IsFiniteSet(1..MaxTime) /\ Cardinality(1..MaxTime) = IF 1 > MaxTime THEN 0 ELSE MaxTime - 1 + 1
      BY <2>1, FS_Interval
    <2> QED BY <1>1, <2>2
  <1>6. /\ IsFiniteSet(Files \X (1..MaxTime))
        /\ Cardinality(Files \X (1..MaxTime)) = Cardinality(Files) * MaxTime
    <2>1. /\ IsFiniteSet(Files \X (1..MaxTime))
          /\ Cardinality(Files \X (1..MaxTime)) = Cardinality(Files) * Cardinality(1..MaxTime)
      BY <1>1, <1>5, FS_Product
    <2> QED BY <1>5, <2>1
  <1>7. Known \subseteq Files \X (1..MaxTime)
    BY DEF Known
  <1>8. IsFiniteSet(Known) /\ Cardinality(Known) <= Cardinality(Files \X (1..MaxTime))
    BY <1>6, <1>7, FS_Subset
  <1>9. Cardinality(Known) \in Nat
    BY <1>8, FS_CardinalityType
  <1>10. Cardinality(Files) * MaxTime = MaxTime * Cardinality(Files) /\ MaxTime * Cardinality(Files) \in Nat
    <2> DEFINE n == Cardinality(Files)
    <2>1. n \in Nat
      BY <1>3
    <2> HIDE DEF n
    <2>2. n * MaxTime = MaxTime * n /\ MaxTime * n \in Nat
      BY <1>1, <2>1
    <2> QED BY <2>2 DEF n
  <1>11. messages \in Nat
    BY <1>2, <1>10
  <1> QED BY <1>1, <1>2, <1>3, <1>4, <1>6, <1>8, <1>9, <1>10, <1>11

\* What Asked counts is within the bound of the type.
LEMMA ReloadAsked ==
    ASSUME disk' \in [Files -> 0..MaxTime], mtimes' \in [Files -> 0..MaxTime], loaded' \in [Files -> 0..MaxTime],
           unread' \subseteq Files, changed' \subseteq Files, unloaded' \subseteq Files, watched' \subseteq Files,
           reloader' \in {"starting", "running", "stopping", "over"}, messages' \in Nat,
           messages' + Cardinality(changed') <= Cardinality(Known)', ReloadTypeOK
    PROVE  ReloadTypes'
  <1>1. IsFiniteSet(Files) /\ MaxTime \in Nat /\ Cardinality(Files) \in Nat /\ MaxTime * Cardinality(Files) \in Nat
    BY ReloadSets
  <1>2. IsFiniteSet(changed') /\ Cardinality(changed') \in Nat
    BY <1>1, FS_Subset, FS_CardinalityType
  <1>3. IsFiniteSet(Files \X (1..MaxTime)) /\ Cardinality(Files \X (1..MaxTime)) = MaxTime * Cardinality(Files)
    <2>1. 1 \in Int /\ MaxTime \in Int
      BY <1>1
    <2>2. IsFiniteSet(1..MaxTime) /\ Cardinality(1..MaxTime) = IF 1 > MaxTime THEN 0 ELSE MaxTime - 1 + 1
      BY <2>1, FS_Interval
    <2>3. /\ IsFiniteSet(Files \X (1..MaxTime))
          /\ Cardinality(Files \X (1..MaxTime)) = Cardinality(Files) * Cardinality(1..MaxTime)
      BY <1>1, <2>2, FS_Product
    <2>4. Cardinality(1..MaxTime) = MaxTime
      BY <1>1, <2>2
    <2> DEFINE n == Cardinality(Files)
    <2>5. n \in Nat /\ Cardinality(Files \X (1..MaxTime)) = n * MaxTime
      BY <1>1, <2>3, <2>4
    <2> HIDE DEF n
    <2>6. n * MaxTime = MaxTime * n
      BY <1>1, <2>5
    <2> QED BY <2>3, <2>5, <2>6 DEF n
  <1>4. Cardinality(Known)' <= MaxTime * Cardinality(Files) /\ Cardinality(Known)' \in Nat
    <2>1. Known' \subseteq Files \X (1..MaxTime)
      BY DEF Known
    <2>2. IsFiniteSet(Known') /\ Cardinality(Known') <= Cardinality(Files \X (1..MaxTime))
      BY <1>3, <2>1, FS_Subset
    <2> QED BY <1>3, <2>2, FS_CardinalityType
  <1>5. messages' \in 0..(MaxTime * Cardinality(Files))
    <2> DEFINE n == Cardinality(changed')
               k == Cardinality(Known)'
               m == MaxTime * Cardinality(Files)
    <2>1. n \in Nat /\ k \in Nat /\ m \in Nat /\ messages' + n <= k /\ k <= m
      BY <1>1, <1>2, <1>4
    <2> HIDE DEF n, k, m
    <2>2. \A c, i, j, l \in Nat : c + i <= j /\ j <= l => c \in 0..l
      OBVIOUS
    <2>3. messages' \in Nat
      OBVIOUS
    <2>4. messages' \in 0..m
      BY ONLY <2>1, <2>2, <2>3
    <2> QED BY <2>4 DEF m
  <1>6. ReloadTypeOK'
    BY <1>5 DEF ReloadTypeOK
  <1> QED BY <1>6 DEF ReloadTypes, Asked

LEMMA ReloadTypesStart == ReloadInit \/ ReloadOff => ReloadTypes
  <1> SUFFICES ASSUME ReloadInit \/ ReloadOff PROVE ReloadTypes
    OBVIOUS
  <1>1. IsFiniteSet(Files) /\ MaxTime \in Nat /\ MaxTime # 0
    BY ReloadingAssumption DEF ReloadingAssumption
  <1>2. Cardinality(Files) \in Nat
    BY <1>1, FS_CardinalityType
  <1>3. messages = 0 /\ changed = {}
    BY DEF ReloadInit, ReloadOff
  <1>4. 0 \in 0..(MaxTime * Cardinality(Files))
    <2> DEFINE n == Cardinality(Files)
    <2>1. n \in Nat
      BY <1>2
    <2> HIDE DEF n
    <2>2. \A i, j \in Nat : i * j \in Nat
      OBVIOUS
    <2>3. \A m \in Nat : 0 \in 0..m
      OBVIOUS
    <2>4. 0 \in 0..(MaxTime * n)
      <3>1. MaxTime * n \in Nat
        BY <1>1, <2>1, <2>2
      <3> QED BY <2>3, <3>1
    <2> QED BY <2>4 DEF n
  <1>5. disk \in [Files -> 0..MaxTime] /\ mtimes \in [Files -> 0..MaxTime] /\ loaded \in [Files -> 0..MaxTime]
    <2>1. CASE ReloadInit
      <3>1. {0, 1} \subseteq 0..MaxTime /\ Zero \in [Files -> 0..MaxTime]
        BY <1>1 DEF Zero
      <3> QED BY <2>1, <3>1 DEF ReloadInit
    <2>2. CASE ReloadOff
      BY <1>1, <2>2 DEF ReloadOff
    <2> QED BY <2>1, <2>2
  <1>6. /\ {unread, changed, unloaded, watched} \subseteq SUBSET Files
        /\ reloader \in {"starting", "running", "stopping", "over"}
    BY DEF ReloadInit, ReloadOff
  <1>7. ReloadTypeOK
    BY <1>3, <1>4, <1>5, <1>6 DEF ReloadTypeOK
  <1>8. Asked
    <2>1. Cardinality(Known) \in Nat
      BY <1>7, ReloadSets
    <2>2. Cardinality(changed) = 0
      BY <1>3, FS_EmptySet
    <2> QED BY <1>3, <2>1, <2>2 DEF Asked
  <1> QED BY <1>7, <1>8 DEF ReloadTypes

\* A file is found later: its time is one more that the reloader knows.
LEMMA CheckFileTypes ==
    ASSUME ReloadTypes, NEW f \in Files, CheckFile(f)
    PROVE  ReloadTypes'
  <1>1. ReloadTypeOK /\ Asked
    BY DEF ReloadTypes
  <1>2. /\ disk \in [Files -> 0..MaxTime] /\ mtimes \in [Files -> 0..MaxTime] /\ loaded \in [Files -> 0..MaxTime]
        /\ unread \subseteq Files /\ changed \subseteq Files /\ unloaded \subseteq Files /\ watched \subseteq Files
        /\ messages \in Nat /\ reloader \in {"starting", "running", "stopping", "over"} /\ MaxTime \in Nat
        /\ IsFiniteSet(changed) /\ Cardinality(changed) \in Nat /\ IsFiniteSet(Known) /\ Cardinality(Known) \in Nat
        /\ IsFiniteSet(Files)
    BY <1>1, ReloadSets
  <1>3. /\ unread' = unread \ {f}
        /\ mtimes' = IF mtimes[f] = 0 \/ disk[f] > mtimes[f] THEN [mtimes EXCEPT ![f] = disk[f]] ELSE mtimes
        /\ changed' = IF mtimes[f] # 0 /\ disk[f] > mtimes[f] THEN changed \cup {f} ELSE changed
        /\ UNCHANGED <<disk, messages, loaded, unloaded, watched, reloader>>
    BY DEF CheckFile
  <1>4. mtimes' \in [Files -> 0..MaxTime] /\ \A g \in Files : mtimes'[g] >= mtimes[g]
    BY <1>2, <1>3
  <1>5. Known \subseteq Known'
    <2>1. ASSUME NEW k \in Known PROVE k \in Known'
      <3>1. k \in Files \X (1..MaxTime) /\ k[2] <= mtimes[k[1]] /\ k[1] \in Files /\ k[2] \in 1..MaxTime
        BY DEF Known
      <3>2. mtimes[k[1]] \in 0..MaxTime /\ mtimes'[k[1]] \in 0..MaxTime /\ mtimes'[k[1]] >= mtimes[k[1]]
        BY <1>2, <1>4, <3>1
      <3>3. k[2] <= mtimes'[k[1]]
        BY <1>2, <3>1, <3>2
      <3> QED BY <3>1, <3>3 DEF Known
    <2> QED BY <2>1
  <1>6. IsFiniteSet(Known') /\ Cardinality(Known)' \in Nat
    <2>1. IsFiniteSet(1..MaxTime)
      <3>1. 1 \in Int /\ MaxTime \in Int
        BY <1>2
      <3> QED BY <3>1, FS_Interval
    <2>2. IsFiniteSet(Files \X (1..MaxTime))
      BY <1>2, <2>1, FS_Product
    <2>3. Known' \subseteq Files \X (1..MaxTime)
      BY DEF Known
    <2> QED BY <2>2, <2>3, FS_Subset, FS_CardinalityType
  <1>7. messages' + Cardinality(changed') <= Cardinality(Known)'
    <2>1. CASE mtimes[f] # 0 /\ disk[f] > mtimes[f]
      <3> DEFINE k == <<f, disk[f]>>
      <3>1. k \in Known'
        BY <1>2, <1>3, <2>1 DEF Known
      <3>2. k \notin Known
        BY <1>2, <2>1 DEF Known
      <3>3. Cardinality(Known \cup {k}) = Cardinality(Known) + 1 /\ Known \cup {k} \subseteq Known'
        BY <1>2, <1>5, <3>1, <3>2, FS_AddElement
      <3>4. Cardinality(Known \cup {k}) <= Cardinality(Known')
        BY <1>6, <3>3, FS_Subset
      <3>5. changed' = changed \cup {f}
        BY <1>3, <2>1
      <3>6. Cardinality(changed \cup {f}) = IF f \in changed THEN Cardinality(changed) ELSE Cardinality(changed) + 1
        BY <1>2, FS_AddElement
      <3> HIDE DEF k
      <3>7. Cardinality(changed') <= Cardinality(changed) + 1 /\ Cardinality(changed') \in Nat
        BY <1>2, <3>5, <3>6
      <3> QED BY <1>1, <1>2, <1>3, <1>6, <3>3, <3>4, <3>7 DEF Asked
    <2>2. CASE ~(mtimes[f] # 0 /\ disk[f] > mtimes[f])
      <3>1. changed' = changed /\ messages' = messages
        BY <1>3, <2>2
      <3>2. Cardinality(Known) <= Cardinality(Known')
        BY <1>5, <1>6, FS_Subset
      <3> QED BY <1>1, <1>2, <1>6, <3>1, <3>2 DEF Asked
    <2> QED BY <2>1, <2>2
  <1>8. changed' \subseteq Files /\ unread' \subseteq Files
    BY <1>2, <1>3
  <1> QED BY <1>1, <1>2, <1>3, <1>4, <1>7, <1>8, ReloadAsked

\* Every other step sends a message for what has changed, or sends none.
LEMMA ReloadTypesStep == ReloadTypes /\ [ReloadNext]_reload_vars => ReloadTypes'
  <1> SUFFICES ASSUME ReloadTypes, [ReloadNext]_reload_vars PROVE ReloadTypes'
    OBVIOUS
  <1>1. ReloadTypeOK /\ Asked
    BY DEF ReloadTypes
  <1>2. /\ disk \in [Files -> 0..MaxTime] /\ mtimes \in [Files -> 0..MaxTime] /\ loaded \in [Files -> 0..MaxTime]
        /\ unread \subseteq Files /\ changed \subseteq Files /\ unloaded \subseteq Files /\ watched \subseteq Files
        /\ messages \in Nat /\ reloader \in {"starting", "running", "stopping", "over"} /\ MaxTime \in Nat
        /\ IsFiniteSet(changed) /\ Cardinality(changed) \in Nat /\ IsFiniteSet(Known) /\ Cardinality(Known) \in Nat
    BY <1>1, ReloadSets
  <1>3. messages + Cardinality(changed) <= Cardinality(Known)
    BY <1>1 DEF Asked
  <1>4. CASE \E f \in Files : CheckFile(f)
    BY <1>4, CheckFileTypes
  <1>5. ASSUME UNCHANGED mtimes,
               \/ messages' = messages /\ changed' = changed
               \/ messages' = messages + 1 /\ changed # {} /\ changed' = {}
               \/ messages > 0 /\ messages' = messages - 1 /\ changed' = changed
        PROVE  /\ messages' + Cardinality(changed') <= Cardinality(Known)' /\ messages' \in Nat
               /\ changed' \subseteq Files /\ mtimes' \in [Files -> 0..MaxTime]
    <2>1. Known' = Known
      BY <1>5 DEF Known
    <2>2. Cardinality({}) = 0 /\ (changed # {} => Cardinality(changed) # 0)
      BY <1>2, FS_EmptySet
    <2> DEFINE n == Cardinality(changed)
               k == Cardinality(Known)
    <2>3. n \in Nat /\ k \in Nat /\ messages \in Nat /\ messages + n <= k
      BY <1>2, <1>3
    <2>4. \/ messages' = messages /\ Cardinality(changed') = n
          \/ messages' = messages + 1 /\ n # 0 /\ Cardinality(changed') = 0
          \/ messages > 0 /\ messages' = messages - 1 /\ Cardinality(changed') = n
      BY <1>5, <2>2
    <2>5. changed' \subseteq Files /\ mtimes' \in [Files -> 0..MaxTime]
      BY <1>2, <1>5
    <2> HIDE DEF n, k
    <2>6. messages' + Cardinality(changed') <= k /\ messages' \in Nat
      BY <2>3, <2>4
    <2> QED BY <2>1, <2>5, <2>6 DEF k
  <1>6. CASE Trigger \/ ListenerFails
    <2>1. /\ UNCHANGED <<mtimes, disk, unread, loaded, unloaded, watched>>
          /\ reloader' \in {"starting", "running", "stopping", "over"}
          /\ \/ messages' = messages /\ changed' = changed
             \/ messages' = messages + 1 /\ changed # {} /\ changed' = {}
      BY <1>2, <1>6 DEF Trigger, ListenerFails
    <2>2. /\ messages' + Cardinality(changed') <= Cardinality(Known)' /\ messages' \in Nat
          /\ changed' \subseteq Files /\ mtimes' \in [Files -> 0..MaxTime]
      BY <1>5, <2>1
    <2> QED BY <1>1, <1>2, <2>1, <2>2, ReloadAsked
  <1>7. CASE StartReloader \/ Pass \/ StopReloader \/ ReloaderStops
    <2>1. /\ UNCHANGED <<mtimes, disk, messages, changed, loaded, unloaded, watched>>
          /\ reloader' \in {"starting", "running", "stopping", "over"} /\ unread' \subseteq Files
      BY <1>2, <1>7 DEF StartReloader, Pass, StopReloader, ReloaderStops
    <2>2. /\ messages' + Cardinality(changed') <= Cardinality(Known)' /\ messages' \in Nat
          /\ changed' \subseteq Files /\ mtimes' \in [Files -> 0..MaxTime]
      BY <1>5, <2>1
    <2> QED BY <1>1, <1>2, <2>1, <2>2, ReloadAsked
  <1>8. CASE RestartWorker \/ \E f \in Files : LoadFile(f)
    <2>1. /\ UNCHANGED <<mtimes, disk, changed, unread, watched, reloader>>
          /\ messages' = messages \/ (messages > 0 /\ messages' = messages - 1)
          /\ unloaded' \subseteq Files /\ loaded' \in [Files -> 0..MaxTime]
      BY <1>2, <1>8 DEF RestartWorker, LoadFile
    <2>2. /\ messages' + Cardinality(changed') <= Cardinality(Known)' /\ messages' \in Nat
          /\ changed' \subseteq Files /\ mtimes' \in [Files -> 0..MaxTime]
      BY <1>5, <2>1
    <2> QED BY <1>1, <1>2, <2>1, <2>2, ReloadAsked
  <1>9. CASE \E f \in Files : \E time \in 0..MaxTime : Modify(f, time)
    <2>1. /\ UNCHANGED <<mtimes, messages, changed, unread, loaded, unloaded, reloader>>
          /\ disk' \in [Files -> 0..MaxTime] /\ watched' \subseteq Files
      BY <1>2, <1>9 DEF Modify
    <2>2. /\ messages' + Cardinality(changed') <= Cardinality(Known)' /\ messages' \in Nat
          /\ changed' \subseteq Files /\ mtimes' \in [Files -> 0..MaxTime]
      BY <1>5, <2>1
    <2> QED BY <1>1, <1>2, <2>1, <2>2, ReloadAsked
  <1>10. CASE UNCHANGED reload_vars
    <2>1. UNCHANGED <<disk, mtimes, unread, changed, messages, loaded, unloaded, watched, reloader>>
      BY <1>10 DEF reload_vars
    <2>2. /\ messages' + Cardinality(changed') <= Cardinality(Known)' /\ messages' \in Nat
          /\ changed' \subseteq Files /\ mtimes' \in [Files -> 0..MaxTime]
      BY <1>5, <2>1
    <2> QED BY <1>1, <1>2, <2>1, <2>2, ReloadAsked
  <1> QED BY <1>4, <1>6, <1>7, <1>8, <1>9, <1>10 DEF ReloadNext, ReloaderStep
-----------------------------------------------------------------------------
(* Daemon launches *)

Locked == {"locked", "detached", "serving", "stopping", "stopped", "unlisted"}

OpenFiles ==
    \A p \in Launches :
        /\ fd[p] # NoFile <=> launch[p] \in Locked \cup {"opened"}
        /\ p \in holding <=> launch[p] \in Locked

Exclusive == \A p, q \in holding : fd[p] = fd[q] => p = q
OneFile   == ~disturbed => \A p \in Launches : fd[p] # NoFile => fd[p] = lockfile
Listed    == ~disturbed => \A p \in Launches : launch[p] \in {"serving", "stopping"} => pidfile = p

DaemonInv == DaemonTypeOK /\ OpenFiles /\ Exclusive /\ OneFile /\ Listed

USE DEF Living, Detached, Exiting, Steps
-----------------------------------------------------------------------------
\* The initial states have nothing open and nothing listed.
LEMMA DaemonStarts == DaemonInit => DaemonInv
  <1> SUFFICES ASSUME DaemonInit PROVE DaemonInv
    OBVIOUS
  <1>1. command \in [Commands -> [name : {"stop", "kill", "status"}, step : Steps,
                                  pid : Launches \cup {NoFile}]]
    BY DEF DaemonInit
  <1>2. DaemonTypeOK
    BY <1>1 DEF DaemonInit, DaemonTypeOK
  <1>3. OpenFiles /\ Exclusive /\ OneFile /\ Listed
    BY DEF DaemonInit, OpenFiles, Exclusive, OneFile, Listed, Locked
  <1> QED BY <1>2, <1>3 DEF DaemonInv

\* Undisturbed, a launch past the lock is alone with it.
LEMMA Alone ==
    ASSUME DaemonInv, ~disturbed, NEW p \in holding, NEW q \in holding
    PROVE  p = q
  <1>1. p \in Launches /\ q \in Launches  BY DEF DaemonInv, DaemonTypeOK
  <1>2. fd[p] # NoFile /\ fd[q] # NoFile  BY <1>1 DEF DaemonInv, OpenFiles
  <1>3. fd[p] = lockfile /\ fd[q] = lockfile  BY <1>1, <1>2 DEF DaemonInv, OneFile
  <1> QED BY <1>3 DEF DaemonInv, Exclusive

\* A launch that goes, or is refused, leaves the rest as it was.
LEMMA ExitKeeps ==
    ASSUME DaemonInv, NEW p \in Launches,
           NEW where \in {"refused", "released", "gone"}, CloseFiles(p, where),
           UNCHANGED <<lockfile, pidfile, command, disturbed>>
    PROVE  DaemonInv'
  <1> USE DaemonAssumption DEF CloseFiles
  <1>1. DaemonTypeOK'  BY DEF DaemonInv, DaemonTypeOK
  <1>2. OpenFiles'  BY DEF DaemonInv, DaemonTypeOK, OpenFiles, Locked
  <1>3. Exclusive'  BY DEF DaemonInv, DaemonTypeOK, Exclusive
  <1>4. OneFile'  BY DEF DaemonInv, DaemonTypeOK, OneFile
  <1>5. Listed'  BY DEF DaemonInv, DaemonTypeOK, Listed
  <1> QED BY <1>1, <1>2, <1>3, <1>4, <1>5 DEF DaemonInv

\* Every step of a launch keeps the invariant.
LEMMA LaunchKeeps ==
    ASSUME DaemonInv, NEW p \in Launches,
           \/ Validate(p) \/ OpenLockfile(p) \/ AcquireLockfile(p) \/ Detach(p) \/ WritePidfile(p)
           \/ Hangup(p) \/ EndServing(p) \/ RemovePidfile(p) \/ ReleaseLockfile(p)
           \/ UnlinkLockfile(p) \/ Crash(p)
    PROVE  DaemonInv'
  <1> USE DaemonAssumption
  <1>1. CASE Validate(p)
    <2>1. CASE LaunchAlive(pidfile)  BY <1>1, <2>1, ExitKeeps DEF Validate
    <2>2. CASE ~LaunchAlive(pidfile)
      BY <1>1, <2>2 DEF Validate, DaemonInv, DaemonTypeOK, OpenFiles, Exclusive, OneFile, Listed, Locked
    <2> QED BY <2>1, <2>2
  <1>2. CASE OpenLockfile(p)
    <2> USE <1>2 DEF OpenLockfile
    <2>1. DaemonTypeOK'  BY DEF DaemonInv, DaemonTypeOK
    <2>2. OpenFiles'  BY DEF DaemonInv, DaemonTypeOK, OpenFiles, Locked
    <2>3. p \notin holding  BY DEF DaemonInv, OpenFiles, Locked
    <2>4. Exclusive'  BY <2>3 DEF DaemonInv, DaemonTypeOK, Exclusive
    <2>5. OneFile'  BY DEF DaemonInv, DaemonTypeOK, OneFile
    <2>6. Listed'  BY DEF DaemonInv, DaemonTypeOK, Listed
    <2> QED BY <2>1, <2>2, <2>4, <2>5, <2>6 DEF DaemonInv
  <1>3. CASE AcquireLockfile(p)
    <2>1. CASE \E q \in holding : fd[q] = fd[p]
      BY <1>3, <2>1, ExitKeeps DEF AcquireLockfile
    <2>2. CASE ~\E q \in holding : fd[q] = fd[p]
      BY <1>3, <2>2
      DEF AcquireLockfile, DaemonInv, DaemonTypeOK, OpenFiles, Exclusive, OneFile, Listed, Locked
    <2> QED BY <2>1, <2>2
  <1>4. CASE Detach(p)
    BY <1>4 DEF Detach, DaemonInv, DaemonTypeOK, OpenFiles, Exclusive, OneFile, Listed, Locked
  <1>5. CASE WritePidfile(p)
    <2> USE <1>5 DEF WritePidfile
    <2>1. DaemonTypeOK' /\ OpenFiles' /\ Exclusive' /\ OneFile'
      BY DEF DaemonInv, DaemonTypeOK, OpenFiles, Exclusive, OneFile, Locked
    <2>2. p \in holding  BY DEF DaemonInv, OpenFiles, Locked
    <2>3. \A q \in Launches : ~disturbed /\ launch[q] \in {"serving", "stopping"} => q = p
      BY <2>2, Alone DEF DaemonInv, OpenFiles, Locked
    <2>4. Listed'  BY <2>3 DEF DaemonInv, DaemonTypeOK, Listed
    <2> QED BY <2>1, <2>4 DEF DaemonInv
  <1>6. CASE Hangup(p)
    BY <1>6 DEF Hangup, DaemonInv, DaemonTypeOK, OpenFiles, Exclusive, OneFile, Listed
  <1>7. CASE EndServing(p)
    BY <1>7 DEF EndServing, DaemonInv, DaemonTypeOK, OpenFiles, Exclusive, OneFile, Listed, Locked
  <1>8. CASE RemovePidfile(p)
    <2> USE <1>8 DEF RemovePidfile
    <2>1. DaemonTypeOK' /\ OpenFiles' /\ Exclusive' /\ OneFile'
      BY DEF DaemonInv, DaemonTypeOK, OpenFiles, Exclusive, OneFile, Locked
    <2>2. p \in holding  BY DEF DaemonInv, OpenFiles, Locked
    <2>3. \A q \in Launches : ~disturbed => launch[q] \notin {"serving", "stopping"}
      BY <2>2, Alone DEF DaemonInv, OpenFiles, Locked
    <2>4. Listed'  BY <2>3 DEF DaemonInv, DaemonTypeOK, Listed
    <2> QED BY <2>1, <2>4 DEF DaemonInv
  <1>9. CASE ReleaseLockfile(p)
    BY <1>9, ExitKeeps DEF ReleaseLockfile
  <1>10. CASE UnlinkLockfile(p)
    <2> USE <1>10 DEF UnlinkLockfile, CloseFiles
    <2>1. DaemonTypeOK'  BY DEF DaemonInv, DaemonTypeOK
    <2>2. OpenFiles' /\ Exclusive'  BY DEF DaemonInv, DaemonTypeOK, OpenFiles, Exclusive, Locked
    <2>3. OneFile'  BY DEF DaemonInv, DaemonTypeOK, OneFile
    <2>4. Listed'  BY DEF DaemonInv, DaemonTypeOK, Listed
    <2> QED BY <2>1, <2>2, <2>3, <2>4 DEF DaemonInv
  <1>11. CASE Crash(p)
    BY <1>11, ExitKeeps DEF Crash, Die
  <1> QED BY <1>1, <1>2, <1>3, <1>4, <1>5, <1>6, <1>7, <1>8, <1>9, <1>10, <1>11

\* A command keeps it, too: what it takes from a living daemon it is blamed for.
LEMMA CommandKeeps ==
    ASSUME DaemonInv, NEW c \in Commands, Resolve(c) \/ SignalDaemon(c) \/ Unlist(c) \/ Unlock(c)
    PROVE  DaemonInv'
  <1> USE DaemonAssumption
  <1>1. CASE Resolve(c)
    BY <1>1 DEF Resolve, DaemonInv, DaemonTypeOK, OpenFiles, Exclusive, OneFile, Listed
  <1>2. CASE SignalDaemon(c)
    <2> DEFINE p == command[c].pid
    <2> USE <1>2 DEF SignalDaemon, To
    <2>1. DaemonTypeOK'
      BY DEF DaemonInv, DaemonTypeOK, Die, CloseFiles, LaunchAlive
    <2>2. CASE UNCHANGED <<launch, fd, holding>>
      BY <2>1, <2>2 DEF DaemonInv, OpenFiles, Exclusive, OneFile, Listed
    <2>3. CASE Die(p)
      <3> USE <2>3 DEF Die, CloseFiles, LaunchAlive
      <3>1. p \in Launches  BY DEF DaemonInv, DaemonTypeOK
      <3>2. OpenFiles'  BY <3>1 DEF DaemonInv, DaemonTypeOK, OpenFiles, Locked
      <3>3. Exclusive' /\ OneFile'  BY <3>1 DEF DaemonInv, DaemonTypeOK, Exclusive, OneFile
      <3>4. Listed'  BY <3>1 DEF DaemonInv, DaemonTypeOK, Listed
      <3> QED BY <2>1, <3>2, <3>3, <3>4 DEF DaemonInv
    <2>4. CASE /\ launch' = [launch EXCEPT ![p] = IF @ = "serving" THEN "stopping" ELSE @]
               /\ UNCHANGED <<fd, holding>>
      BY <2>1, <2>4 DEF DaemonInv, DaemonTypeOK, OpenFiles, Exclusive, OneFile, Listed, Locked
    <2> QED BY <2>2, <2>3, <2>4
  <1>3. CASE Unlist(c)
    <2> USE <1>3 DEF Unlist
    <2>1. command' \in [Commands -> [name : {"stop", "kill", "status"}, step : Steps,
                                    pid : Launches \cup {NoFile}]]
      BY DEF To, DaemonInv, DaemonTypeOK
    <2>2. DaemonTypeOK'  BY <2>1 DEF DaemonInv, DaemonTypeOK
    <2>3. OpenFiles' /\ Exclusive' /\ OneFile'
      BY DEF DaemonInv, DaemonTypeOK, OpenFiles, Exclusive, OneFile
    <2>4. Listed'  BY DEF LaunchAlive, DaemonInv, DaemonTypeOK, Listed
    <2> QED BY <2>2, <2>3, <2>4 DEF DaemonInv
  <1>4. CASE Unlock(c)
    <2> USE <1>4 DEF Unlock
    <2>1. command' \in [Commands -> [name : {"stop", "kill", "status"}, step : Steps,
                                    pid : Launches \cup {NoFile}]]
      BY DEF To, DaemonInv, DaemonTypeOK
    <2>2. DaemonTypeOK'  BY <2>1 DEF DaemonInv, DaemonTypeOK
    <2>3. OpenFiles' /\ Exclusive' /\ Listed'
      BY DEF DaemonInv, DaemonTypeOK, OpenFiles, Exclusive, Listed
    <2>4. OneFile'  BY DEF DaemonInv, DaemonTypeOK, OneFile
    <2> QED BY <2>2, <2>3, <2>4 DEF DaemonInv
  <1> QED BY <1>1, <1>2, <1>3, <1>4

\* The invariant is inductive.
LEMMA DaemonKept == DaemonInv /\ [DaemonNext]_daemon_vars => DaemonInv'
  <1> SUFFICES ASSUME DaemonInv, [DaemonNext]_daemon_vars PROVE DaemonInv'
    OBVIOUS
  <1>1. CASE UNCHANGED daemon_vars
    BY <1>1 DEF daemon_vars, DaemonInv, DaemonTypeOK, OpenFiles, Exclusive, OneFile, Listed
  <1>2. CASE DaemonNext
    BY <1>2, LaunchKeeps, CommandKeeps DEF DaemonNext
  <1> QED BY <1>1, <1>2

\* The variables keep their types, and the invariant holds.
LEMMA DaemonAlways == DaemonSpec => []DaemonInv
  <1> QED BY DaemonStarts, DaemonKept, PTL DEF DaemonSpec
-----------------------------------------------------------------------------
\* However many launches and commands there are: as long as nobody takes a file from a
\* daemon that is alive, at most one launch is past the lock, and the PID file is that
\* of the daemon that serves.
THEOREM AtMostOneDaemon == DaemonSpec => []OneDaemon
  <1>1. DaemonInv => OneDaemon
    BY Alone DEF OneDaemon, DaemonInv, OpenFiles, Listed, Locked
  <1> QED BY <1>1, DaemonAlways, PTL

\* No launch is refused but for another one that is alive, whatever a crash or a command
\* has left behind.
THEOREM NeverRefusedForNothing == DaemonSpec => RefusedForAnother
  <1> DEFINE Another(p) == \E q \in Launches \ {p} : launch[q] \in Living
             Justified  == \A p \in Launches :
                 launch[p] # "refused" /\ launch'[p] = "refused" => Another(p)
  <1>1. DaemonInv /\ [DaemonNext]_daemon_vars => [Justified]_daemon_vars
    <2> SUFFICES ASSUME DaemonInv, DaemonNext, NEW p \in Launches,
                        launch[p] # "refused", launch'[p] = "refused"
                 PROVE  Another(p)
      OBVIOUS
    <2> USE DaemonAssumption
    <2>1. launch \in [Launches -> {"new", "refused", "gone"} \cup Living]
      BY DEF DaemonInv, DaemonTypeOK
    <2>2. CASE \E q \in Launches : Validate(q)
      <3>1. PICK q \in Launches : Validate(q)  BY <2>2
      <3>2. q = p /\ launch[p] = "new" /\ LaunchAlive(pidfile)
        BY <2>1, <3>1 DEF Validate, CloseFiles
      <3>3. pidfile \in Launches \ {p} /\ launch[pidfile] \in Living
        BY <3>2 DEF LaunchAlive, DaemonInv, DaemonTypeOK
      <3> QED BY <3>3
    <2>3. CASE \E q \in Launches : AcquireLockfile(q)
      <3>1. PICK q \in Launches : AcquireLockfile(q)  BY <2>3
      <3>2. q = p /\ launch[p] = "opened" /\ \E r \in holding : fd[r] = fd[p]
        BY <2>1, <3>1 DEF AcquireLockfile, CloseFiles
      <3>3. PICK r \in holding : fd[r] = fd[p]  BY <3>2
      <3>4. r \in Launches /\ launch[r] \in Locked
        BY DEF DaemonInv, DaemonTypeOK, OpenFiles
      <3>5. r # p  BY <3>2, <3>4 DEF Locked
      <3> QED BY <3>4, <3>5 DEF Locked
    <2>4. CASE \E q \in Launches :
                 \/ OpenLockfile(q) \/ Detach(q) \/ WritePidfile(q) \/ Hangup(q) \/ EndServing(q)
                 \/ RemovePidfile(q)
      BY <2>1, <2>4 DEF OpenLockfile, Detach, WritePidfile, Hangup, EndServing, RemovePidfile
    <2>5. CASE \E q \in Launches : ReleaseLockfile(q) \/ UnlinkLockfile(q) \/ Crash(q)
      BY <2>1, <2>5 DEF ReleaseLockfile, UnlinkLockfile, Crash, Die, CloseFiles
    <2>6. CASE \E c \in Commands : Resolve(c) \/ SignalDaemon(c) \/ Unlist(c) \/ Unlock(c)
      BY <2>1, <2>6 DEF Resolve, SignalDaemon, Unlist, Unlock, Die, CloseFiles
    <2> QED BY <2>2, <2>3, <2>4, <2>5, <2>6 DEF DaemonNext
  <1>2. [][Justified]_daemon_vars => RefusedForAnother
    BY DEF RefusedForAnother
  <1> QED BY <1>1, <1>2, DaemonAlways, PTL DEF DaemonSpec

HIDE DEF Living, Detached, Exiting, Steps
-----------------------------------------------------------------------------
(* All of them *)

\* Who is not there has its types, too.
LEMMA OffTyped ==
    /\ LifeOff => LifeTypeOK
    /\ SecondaryOff => SecondaryTypeOK
    /\ DaemonOff => DaemonInv
  <1>1. LifeOff => LifeTypeOK
    BY RestTyped DEF LifeOff, Stages
  <1>2. ASSUME SecondaryOff PROVE SecondaryTypeOK
    <2>1. Head(Apps) \in AppNames
      BY SecondaryAssumption, HeadTailProperties DEF SecondaryAssumption, AppNames
    <2>2. /\ infos \in [AppNames -> Seq({1, 3})] /\ began \in [AppNames -> [Events -> Nat]]
          /\ calls_stop \in 0..MaxCalls
      BY <1>2, SecondaryAssumption DEF SecondaryOff, SecondaryAssumption
    <2> QED BY <1>2, <2>1, <2>2 DEF SecondaryOff, SecondaryTypeOK
  <1>3. ASSUME DaemonOff PROVE DaemonInv
    <2>1. command \in [Commands -> [name : {"stop", "kill", "status"}, step : Steps, pid : Launches \cup {NoFile}]]
      BY <1>3 DEF DaemonOff, Steps
    <2>2. DaemonTypeOK
      BY <1>3, <2>1 DEF DaemonOff, DaemonTypeOK
    <2>3. OpenFiles /\ Exclusive /\ OneFile /\ Listed
      BY <1>3 DEF DaemonOff, OpenFiles, Exclusive, OneFile, Listed, Locked
    <2> QED BY <2>2, <2>3 DEF DaemonInv
  <1> QED BY <1>1, <1>2, <1>3

\* A worker that is not there takes no step.
LEMMA OffStays == SecondaryOff /\ [SecondaryNext]_secondary_vars => SecondaryOff'
  <1> SUFFICES ASSUME SecondaryOff, [SecondaryNext]_secondary_vars PROVE SecondaryOff'
    OBVIOUS
  <1>1. life = "closed"
    BY DEF SecondaryOff
  <1>2. ~SecondaryNext
    BY <1>1 DEF SecondaryNext, Run, PrepareOnly, Prepare, WorkerServe, AllStarted, StopAll, EndLoop, StartServer,
                RunServer, EventEnds, Turning
  <1>3. UNCHANGED secondary_vars
    BY <1>2
  <1> QED BY <1>3 DEF SecondaryOff, secondary_vars

\* Every step is one of each process, or nothing to it.
LEMMA OneGoes ==
    ASSUME [ProcessesNext]_<<life_vars, main_vars, secondary_vars, reload_vars, daemon_vars>>
    PROVE  /\ [LifeNext]_life_vars /\ [MainNext]_main_vars /\ [SecondaryNext]_secondary_vars
           /\ [ReloadNext]_reload_vars /\ [DaemonNext]_daemon_vars
  BY DEF ProcessesNext

\* The variables of all processes keep their types, for any number of connections, tasks, listeners,
\* instances, workers, applications, servers, files, launches and commands: no counter leaves its
\* bound, nobody is where the code has no such place, and the reloader asks for no more restarts
\* than there are times of files.
THEOREM ProcessesTyped == ProcessesSpec => []ProcessesTypeOK
  <1> DEFINE vars == <<life_vars, main_vars, secondary_vars, reload_vars, daemon_vars>>
             All == LifeTypeOK /\ MainInv /\ (SecondaryOff \/ SecondaryInv) /\ ReloadTypes /\ DaemonInv
  <1>1. ProcessesInit => All
    <2> SUFFICES ASSUME ProcessesInit PROVE All
      OBVIOUS
    <2>1. LifeTypeOK
      BY TypedAtStart, OffTyped DEF ProcessesInit
    <2>2. MainInv
      BY MainStarts DEF ProcessesInit
    <2>3. SecondaryOff \/ SecondaryInv
      BY SecondaryStarts DEF ProcessesInit
    <2>4. ReloadTypes
      BY ReloadTypesStart DEF ProcessesInit
    <2>5. DaemonInv
      BY DaemonStarts, OffTyped DEF ProcessesInit
    <2> QED BY <2>1, <2>2, <2>3, <2>4, <2>5
  <1>2. All /\ [ProcessesNext]_vars => All'
    <2> SUFFICES ASSUME All, [ProcessesNext]_vars PROVE All'
      OBVIOUS
    <2>1. /\ [LifeNext]_life_vars /\ [MainNext]_main_vars /\ [SecondaryNext]_secondary_vars
          /\ [ReloadNext]_reload_vars /\ [DaemonNext]_daemon_vars
      BY OneGoes
    <2>2. LifeTypeOK'
      BY <2>1, StepTyped
    <2>3. MainInv'
      BY <2>1, MainSteps
    <2>4. (SecondaryOff \/ SecondaryInv)'
      BY <2>1, SecondarySteps, OffStays
    <2>5. ReloadTypes'
      BY <2>1, ReloadTypesStep
    <2>6. DaemonInv'
      BY <2>1, DaemonKept
    <2> QED BY <2>2, <2>3, <2>4, <2>5, <2>6
  <1>3. All => ProcessesTypeOK
    <2>1. SecondaryInv => SecondaryTypeOK
      BY DEF SecondaryInv
    <2>2. MainInv => MainTypeOK
      BY MainMeans
    <2> QED BY <2>1, <2>2, OffTyped DEF ProcessesTypeOK, ReloadTypes, DaemonInv
  <1> QED BY <1>1, <1>2, <1>3, PTL DEF ProcessesSpec
=================================================================================
