------------------------ MODULE FrameAssembler_proofs ------------------------
(***************************************************************************)
(* Type correctness of FrameAssembler and, for handlers that end when they *)
(* are cancelled, the absence of its failsafe errors, of a transport that  *)
(* stays paused, and of messages lost, repeated or out of order (it        *)
(* implements MessageChannel), for any number of frames and any burst.     *)
(***************************************************************************)
EXTENDS FrameAssembler, SequenceTheorems, TLAPS

LEMMA GetTyped ==
    /\ <<>> \in Frames /\ NoGet \in GetTask
    /\ \A timeout \in {"none", "zero", "some"} :
          NewGet(timeout) = [at |-> "start", timeout |-> timeout, result |-> <<>>]
    /\ \A timeout \in {"none", "zero", "some"} : NewGet(timeout) \in GetTask
<1>1. <<>> \in Frames
  BY DEF Frames
<1>2. NoGet = [at |-> "none", timeout |-> "none", result |-> <<>>] /\ NoGet \in GetTask
  BY <1>1 DEF NoGet, GetTask
<1>3. ASSUME NEW timeout \in {"none", "zero", "some"}
      PROVE  NewGet(timeout) = [at |-> "start", timeout |-> timeout, result |-> <<>>]
  BY DEF NewGet
<1>4. ASSUME NEW timeout \in {"none", "zero", "some"}
      PROVE  NewGet(timeout) \in GetTask
  BY <1>1, <1>3 DEF GetTask
<1> QED BY <1>1, <1>2, <1>3, <1>4

LEMMA FramesTyped ==
    ASSUME NEW s \in Frames
    PROVE  /\ \A t \in Frames : s \o t \in Frames
           /\ \A frame \in DataFrame : Append(s, frame) \in Frames
           /\ s # <<>> => Head(s) \in DataFrame /\ Tail(s) \in Frames
BY DEF Frames

LEMMA InitTyped == Init => TypeOK
<1> SUFFICES ASSUME Init PROVE TypeOK
  OBVIOUS
<1>1. <<>> \in Events /\ Len(<<>>) <= MaxFrames
  BY AssemblerAssumption DEF Events
<1> QED BY <1>1, GetTyped DEF Init, TypeOK

LEMMA LeaveTyped ==
    ASSUME NEW next \in {"idle", "ended"}, Leave(next)
    PROVE  /\ handler' = next /\ recv_cancel' = "none" /\ can_pause' = TRUE
           /\ messages' = <<>> /\ messages' \in Frames
           /\ get' = NoGet /\ get' \in GetTask
BY GetTyped DEF Leave

\* The types in two parts.
Data  == /\ sent \in Frames /\ Len(sent) <= MaxFrames /\ read \in Frames /\ events \in Events
         /\ chunks \in Frames /\ messages \in Frames /\ get \in GetTask
         /\ state \in {"OPEN", "CLOSING", "CLOSED"}
         /\ handler \in {"idle", "recv", "burst", "sleep", "stream", "ended"}
         /\ recv_cancel \in {"none", "pending", "done"}
Flags == /\ reading \in BOOLEAN /\ can_pause \in BOOLEAN /\ streaming \in BOOLEAN /\ sentinel \in BOOLEAN
         /\ message_complete \in BOOLEAN /\ message_fetched \in BOOLEAN /\ get_in_progress \in BOOLEAN
         /\ paused \in BOOLEAN /\ putting \in BOOLEAN /\ failsafe \in BOOLEAN

LEMMA TwoParts == TypeOK <=> Data /\ Flags
BY DEF TypeOK, Data, Flags

\* A call that is cancelled keeps the types.
LEMMA CancelledTyped ==
    ASSUME TypeOK, NEW next \in {"idle", "ended"}, Cancelled(next)
    PROVE  TypeOK'
<1>1. Data /\ Flags  BY TwoParts
<1>2. Leave(next) /\ UNCHANGED <<wire, events, assembler, putting, failsafe, read>>  BY DEF Cancelled
<1>3. Data'  BY <1>1, <1>2, LeaveTyped DEF Data, wire, assembler
<1>4. Flags'  BY <1>1, <1>2, LeaveTyped DEF Flags, wire, assembler
<1> QED BY <1>3, <1>4 DEF TypeOK, Data, Flags

\* Every variable keeps its type, whatever the client sends and the handler calls.
LEMMA StepTyped == TypeOK /\ [Next]_vars => TypeOK'
<1> SUFFICES ASSUME TypeOK, [Next]_vars PROVE TypeOK'
  OBVIOUS
<1> USE AssemblerAssumption
<1>1. CASE Receive
  <2>1. PICK fin \in BOOLEAN :
          /\ sent' = Append(sent, [n |-> Len(sent) + 1, fin |-> fin])
          /\ events' = Append(events, [n |-> Len(sent) + 1, fin |-> fin])
    BY <1>1 DEF Receive
  <2>2. [n |-> Len(sent) + 1, fin |-> fin] \in DataFrame
    BY <1>1 DEF Receive, TypeOK, DataFrame, Frames
  <2>3. /\ sent' \in Frames /\ Len(sent') <= MaxFrames
        /\ events' \in Events
    BY <1>1, <2>1, <2>2 DEF Receive, TypeOK, Frames, Events
  <2> QED BY <1>1, <2>3 DEF Receive, TypeOK, assembler, call
<1>2. CASE ReceiveClose
  <2>1. events' \in Events
    BY <1>2 DEF ReceiveClose, TypeOK, Events
  <2> QED BY <1>2, <2>1 DEF ReceiveClose, TypeOK, assembler, call
<1>3. CASE EofReceived
  BY <1>3 DEF EofReceived, CancelRecv, TypeOK, assembler
<1>4. CASE ConnectionLost
  BY <1>4, LeaveTyped DEF ConnectionLost, TypeOK, assembler
<1>5. CASE Worker
  <2>1. CASE ProcessEvent
    <3> DEFINE frame == Head(events)
    <3>1. frame \in DataFrame \cup {Close} /\ events' \in Events
      BY <2>1 DEF ProcessEvent, TypeOK, Events
    <3> HIDE DEF frame
    <3>2. CASE ProcessClose(frame)
      BY <3>1, <3>2 DEF ProcessClose, CancelRecv, TypeOK, wire, assembler
    <3>3. CASE PutPart(frame)
      <4>1. chunks' \in Frames
        BY <3>1, <3>3, FramesTyped DEF PutPart, TypeOK
      <4> QED BY <3>1, <3>3, <4>1 DEF PutPart, TypeOK, wire, call
    <3>4. CASE PutLast(frame)
      <4>1. chunks' \in Frames
        BY <3>1, <3>4, FramesTyped DEF PutLast, TypeOK
      <4> QED BY <3>1, <3>4, <4>1 DEF PutLast, PauseFrames, TypeOK, call
    <3> QED BY <2>1, <3>2, <3>3, <3>4 DEF ProcessEvent, frame
  <2>2. CASE PutFetched
    <3>1. /\ UNCHANGED <<sent, state, reading, events, chunks, streaming, sentinel>>
          /\ UNCHANGED <<message_complete, get_in_progress, paused, failsafe>>
          /\ UNCHANGED <<read, handler, recv_cancel, messages, can_pause, get>>
          /\ putting' = FALSE /\ message_fetched' = FALSE
      BY <2>2 DEF PutFetched, wire, call
    <3>2. Data /\ Flags  BY TwoParts
    <3>3. Data'  BY <3>1, <3>2 DEF Data
    <3>4. Flags'  BY <3>1, <3>2 DEF Flags
    <3> QED BY <3>3, <3>4 DEF TypeOK, Data, Flags
  <2> QED BY <1>5, <2>1, <2>2 DEF Worker
<1>6. CASE Getter
  <2>1. ASSUME NEW wrong \in BOOLEAN, GetEnds(wrong)
        PROVE  /\ reading' \in BOOLEAN /\ paused' \in BOOLEAN
               /\ chunks' \in Frames
               /\ streaming' \in BOOLEAN /\ sentinel' \in BOOLEAN
               /\ message_complete' \in BOOLEAN /\ message_fetched' \in BOOLEAN
               /\ get_in_progress' \in BOOLEAN /\ failsafe' \in BOOLEAN
               /\ get' \in GetTask
    <3>1. \A at \in {"done", "wait", "raised"}, result \in Frames :
             [get EXCEPT !.at = at, !.result = result] \in GetTask
      BY DEF TypeOK, GetTask
    <3>2. [get EXCEPT !.at = "done"] \in GetTask
      BY DEF TypeOK, GetTask
    <3> QED BY <2>1, <3>1, <3>2, GetTyped DEF GetEnds, Fetch, ResumeFrames, TypeOK
  <2>2. CASE GetStart
    <3>1. [get EXCEPT !.at = "done"] \in GetTask /\ [get EXCEPT !.at = "wait"] \in GetTask
          /\ [get EXCEPT !.at = "raised"] \in GetTask
      BY DEF TypeOK, GetTask
    <3>2. UNCHANGED <<sent, state, events, putting, read, handler, recv_cancel,
                      messages, can_pause>>
      BY <2>2 DEF GetStart
    <3>3. CASE GetEnds(FALSE)
      BY <2>1, <3>2, <3>3 DEF TypeOK
    <3>4. CASE ~GetEnds(FALSE)
      <4>1. /\ UNCHANGED <<reading, chunks, streaming, sentinel, message_complete,
                            message_fetched, paused>>
            /\ get_in_progress' \in BOOLEAN /\ failsafe' \in BOOLEAN /\ get' \in GetTask
        BY <2>2, <3>1, <3>4 DEF GetStart, TypeOK, assembler
      <4> QED BY <3>2, <4>1 DEF TypeOK
    <3> QED BY <3>3, <3>4
  <2>3. CASE GetWakes
    <3>1. GetEnds(~get_in_progress) /\ (~get_in_progress) \in BOOLEAN
      BY <2>3 DEF GetWakes, TypeOK
    <3> QED BY <2>1, <2>3, <3>1 DEF GetWakes, TypeOK
  <2>4. CASE GetTimesOut
    <3>1. GetEnds(~get_in_progress) /\ (~get_in_progress) \in BOOLEAN
      BY <2>4 DEF GetTimesOut, TypeOK
    <3> QED BY <2>1, <2>4, <3>1 DEF GetTimesOut, TypeOK
  <2> QED BY <1>6, <2>2, <2>3, <2>4 DEF Getter
<1>7. CASE Handler
  <2>1. CASE CallClosed
    BY <2>1 DEF CallClosed, TypeOK, wire, assembler
  <2>2. CASE CallRecv
    <3>1. Data /\ Flags  BY TwoParts
    <3>2. get' \in GetTask  BY <2>2, GetTyped DEF CallRecv
    <3>3. Data'  BY <2>2, <3>1, <3>2 DEF CallRecv, Data, wire, assembler
    <3>4. Flags'  BY <2>2, <3>1 DEF CallRecv, Flags, wire, assembler
    <3> QED BY <3>3, <3>4 DEF TypeOK, Data, Flags
  <2>3. CASE CallBurst
    BY <2>3, GetTyped DEF CallBurst, TypeOK, wire, assembler
  <2>4. CASE CallStreaming
    <3>1. Data /\ Flags  BY TwoParts
    <3>2. Data'  BY <2>4, <3>1 DEF CallStreaming, Data, wire, assembler
    <3>3. Flags'  BY <2>4, <3>1 DEF CallStreaming, Flags, wire, assembler
    <3> QED BY <3>2, <3>3 DEF TypeOK, Data, Flags
  <2>5. CASE RecvReturns
    <3>1. read' \in Frames
      BY <2>5, FramesTyped DEF RecvReturns, TypeOK, GetTask
    <3>2. Data /\ Flags  BY TwoParts
    <3>3. Leave(CallOver) /\ CallOver \in {"idle", "ended"}  BY <2>5 DEF RecvReturns, CallOver
    <3>4. Data'  BY <2>5, <3>1, <3>2, <3>3, LeaveTyped DEF RecvReturns, Data, wire, assembler
    <3>5. Flags'  BY <2>5, <3>2, <3>3, LeaveTyped DEF RecvReturns, Flags, wire, assembler
    <3> QED BY <3>4, <3>5 DEF TypeOK, Data, Flags
  <2>6. CASE BurstReturns
    <3>1. read' \in Frames
      BY <2>6, FramesTyped DEF BurstReturns, TypeOK, GetTask
    <3>2. Data /\ Flags  BY TwoParts
    <3>3. Leave(CallOver) /\ CallOver \in {"idle", "ended"}  BY <2>6 DEF BurstReturns, CallOver
    <3>4. Data'  BY <2>6, <3>1, <3>2, <3>3, LeaveTyped DEF BurstReturns, Data, wire, assembler
    <3>5. Flags'  BY <2>6, <3>2, <3>3, LeaveTyped DEF BurstReturns, Flags, wire, assembler
    <3> QED BY <3>4, <3>5 DEF TypeOK, Data, Flags
  <2>7. CASE BurstSleeps
    <3>1. messages' \in Frames
      BY <2>7, FramesTyped DEF BurstSleeps, TypeOK, GetTask
    <3> QED BY <2>7, <3>1, GetTyped DEF BurstSleeps, TypeOK, wire, assembler
  <2>8. CASE BurstGoesOn
    <3>1. Data /\ Flags  BY TwoParts
    <3>2. get' \in GetTask  BY <2>8, GetTyped DEF BurstGoesOn
    <3>3. Data'  BY <2>8, <3>1, <3>2 DEF BurstGoesOn, Data, wire, assembler
    <3>4. Flags'  BY <2>8, <3>1 DEF BurstGoesOn, Flags, wire, assembler
    <3> QED BY <3>3, <3>4 DEF TypeOK, Data, Flags
  <2>9. CASE StreamYields
    <3>1. read' \in Frames /\ chunks' \in Frames
      BY <2>9, FramesTyped DEF StreamYields, TypeOK
    <3>2. Data /\ Flags  BY TwoParts
    <3>3. Data'  BY <2>9, <3>1, <3>2 DEF StreamYields, Data, wire
    <3>4. Flags'  BY <2>9, <3>2 DEF StreamYields, Flags, wire
    <3> QED BY <3>3, <3>4 DEF TypeOK, Data, Flags
  <2>10. CASE StreamEnds
    BY <2>10, LeaveTyped, GetTyped DEF StreamEnds, Fetch, ResumeFrames, TypeOK
  <2>11. CASE RecvCancelled
    BY <2>11, CancelledTyped DEF RecvCancelled
  <2> QED BY <1>7, <2>1, <2>2, <2>3, <2>4, <2>5, <2>6, <2>7, <2>8, <2>9,
             <2>10, <2>11 DEF Handler
<1>8. CASE Interrupted
  BY <1>8, CancelledTyped DEF Interrupted
<1>9. CASE UNCHANGED vars
  BY <1>9 DEF vars, wire, assembler, call, TypeOK
<1> QED BY <1>1, <1>2, <1>3, <1>4, <1>5, <1>6, <1>7, <1>8, <1>9 DEF Next

\* The variables of the assembler and of the calls keep their types, for every
\* client, every handler and every bound.
THEOREM AssemblerTyped == Spec => []TypeOK
BY InitTyped, StepTyped, PTL DEF Spec
-----------------------------------------------------------------------------
(***************************************************************************)
(* The failsafe errors.  Safe is inductive.                                *)
(***************************************************************************)
Safe == NoFailsafe /\ PausedForMessage /\ Handshake

LEMMA InitSafe == Init => Safe
BY DEF Init, Safe, NoFailsafe, PausedForMessage, Handshake, NoGet

\* A call that ends, between messages or with its handler, leaves no reader behind.
LEMMA LeaveSafe ==
    ASSUME TypeOK, Safe, NEW next \in {"idle", "ended"}, Leave(next),
           UNCHANGED <<reading, message_complete, message_fetched, sentinel,
                       get_in_progress, paused, putting, failsafe>>,
           next = "idle" => ~get_in_progress
    PROVE  Safe'
<1>1. handler' = next /\ get'.at = "none"
  BY DEF Leave, NoGet
<1>2. get_in_progress' => handler' = "ended"
  BY <1>1
<1> QED BY <1>1, <1>2 DEF Safe, NoFailsafe, PausedForMessage, Handshake

\* A get() that ends resumes the transport and hands the put() over, if any.
LEMMA GetEndsSafe ==
    ASSUME TypeOK, Safe, NEW wrong \in BOOLEAN, ~wrong, GetEnds(wrong),
           get.at \in {"start", "wait"}, UNCHANGED <<putting, handler>>
    PROVE  Safe'
<1>1. /\ get'.at = "done" /\ get_in_progress' = FALSE /\ paused' = FALSE /\ reading' = TRUE
  BY DEF GetEnds, ResumeFrames, TypeOK, GetTask, Safe, PausedForMessage
<1>2. CASE message_complete
  <2>1. /\ failsafe' = FALSE /\ message_complete' = FALSE /\ message_fetched' = TRUE
        /\ sentinel' = FALSE /\ putting' = TRUE
    BY <1>2 DEF GetEnds, Fetch, Safe, NoFailsafe, Handshake, TypeOK
  <2> QED BY <1>1, <2>1 DEF Safe, NoFailsafe, PausedForMessage, Handshake
<1>3. CASE ~message_complete
  <2>1. /\ failsafe' = FALSE
        /\ UNCHANGED <<message_complete, message_fetched, sentinel, putting>>
    BY <1>3 DEF GetEnds, Safe, NoFailsafe
  <2> QED BY <1>1, <1>3, <2>1 DEF Safe, NoFailsafe, PausedForMessage, Handshake
<1> QED BY <1>2, <1>3

LEMMA StepSafe ==
    ASSUME AfterCancel \subseteq {"ended"}, TypeOK, Safe, [Next]_vars
    PROVE  Safe'
<1>1. CASE Receive
  BY <1>1 DEF Receive, Safe, NoFailsafe, PausedForMessage, Handshake, assembler, call
<1>2. CASE ReceiveClose
  BY <1>2 DEF ReceiveClose, Safe, NoFailsafe, PausedForMessage, Handshake, assembler, call
<1>3. CASE EofReceived
  BY <1>3 DEF EofReceived, Safe, NoFailsafe, PausedForMessage, Handshake, assembler
<1>4. CASE ConnectionLost
  BY <1>4, LeaveSafe DEF ConnectionLost, assembler
<1>5. CASE Worker
  <2>1. ASSUME NEW frame, ProcessClose(frame) PROVE Safe'
    BY <2>1 DEF ProcessClose, Safe, NoFailsafe, PausedForMessage, Handshake, wire, assembler
  <2>2. ASSUME NEW frame, PutPart(frame) PROVE Safe'
    BY <2>2 DEF PutPart, Safe, NoFailsafe, PausedForMessage, Handshake, wire, call
  <2>3. ASSUME NEW frame, PutLast(frame), ~putting PROVE Safe'
    <3>1. ~message_complete /\ ~message_fetched /\ ~paused /\ reading /\ ~failsafe
      BY <2>3 DEF Safe, NoFailsafe, PausedForMessage, Handshake
    <3>2. /\ failsafe' = FALSE /\ message_complete' = TRUE /\ putting' = TRUE
          /\ message_fetched' = FALSE
      BY <2>3, <3>1 DEF PutLast, TypeOK
    <3>3. paused' <=> ~reading'
      BY <2>3, <3>1 DEF PutLast, PauseFrames, TypeOK
    <3>4. UNCHANGED <<get_in_progress, handler, get>>
      BY <2>3 DEF PutLast, call
    <3> QED BY <3>2, <3>3, <3>4 DEF Safe, NoFailsafe, PausedForMessage, Handshake
  <2>4. CASE PutFetched
    BY <2>4 DEF PutFetched, Safe, NoFailsafe, PausedForMessage, Handshake, wire, call
  <2> QED BY <1>5, <2>1, <2>2, <2>3, <2>4 DEF Worker, ProcessEvent
<1>6. CASE Getter
  <2>1. CASE GetStart
    <3>1. ~get_in_progress
      BY <2>1 DEF GetStart, Safe, Handshake
    <3>2. UNCHANGED <<putting, handler>> /\ get.at = "start"
      BY <2>1 DEF GetStart
    <3>3. CASE GetEnds(FALSE)
      BY <3>2, <3>3, GetEndsSafe
    <3>4. CASE get' = [get EXCEPT !.at = "done"] /\ UNCHANGED <<reading, assembler, failsafe>>
      BY <3>1, <3>2, <3>4
      DEF assembler, Safe, NoFailsafe, PausedForMessage, Handshake, TypeOK, GetTask
    <3>5. CASE /\ get.timeout # "zero" /\ get_in_progress' = TRUE
               /\ get' = [get EXCEPT !.at = "wait"]
               /\ UNCHANGED <<reading, chunks, streaming, sentinel, message_complete,
                              message_fetched, paused, failsafe>>
      BY <3>1, <3>2, <3>5
      DEF Safe, NoFailsafe, PausedForMessage, Handshake, TypeOK, GetTask
    <3> QED BY <2>1, <3>1, <3>3, <3>4, <3>5 DEF GetStart
  <2>2. CASE GetWakes \/ GetTimesOut
    <3>1. get.at = "wait" /\ GetEnds(~get_in_progress) /\ UNCHANGED <<putting, handler>>
      BY <2>2 DEF GetWakes, GetTimesOut
    <3>2. get_in_progress = TRUE
      BY <3>1 DEF Safe, Handshake, TypeOK
    <3>3. GetEnds(FALSE)
      BY <3>1, <3>2
    <3> QED BY <3>1, <3>3, GetEndsSafe
  <2> QED BY <1>6, <2>1, <2>2 DEF Getter
<1>7. CASE Handler
  <2>1. CASE CallClosed
    BY <2>1 DEF CallClosed, Safe, NoFailsafe, PausedForMessage, Handshake, wire, assembler
  <2>2. CASE CallRecv
    BY <2>2, GetTyped
    DEF CallRecv, Safe, NoFailsafe, PausedForMessage, Handshake, wire, assembler
  <2>3. CASE CallBurst
    BY <2>3, GetTyped
    DEF CallBurst, Safe, NoFailsafe, PausedForMessage, Handshake, wire, assembler
  <2>4. CASE CallStreaming
    <3>1. ~get_in_progress /\ get.at = "none"
      BY <2>4 DEF CallStreaming, Safe, Handshake, TypeOK, GetTask
    <3> QED BY <2>4, <3>1
      DEF CallStreaming, Safe, NoFailsafe, PausedForMessage, Handshake, wire
  <2>5. CASE RecvReturns \/ BurstReturns
    <3>1. Leave(CallOver) /\ CallOver \in {"idle", "ended"} /\ ~get_in_progress
      BY <2>5 DEF RecvReturns, BurstReturns, GetOver, CallOver, Safe, Handshake
    <3> QED BY <2>5, <3>1, LeaveSafe DEF RecvReturns, BurstReturns, wire, assembler
  <2>6. CASE BurstSleeps
    BY <2>6, GetTyped
    DEF BurstSleeps, NoGet, Safe, NoFailsafe, PausedForMessage, Handshake, wire, assembler
  <2>7. CASE BurstGoesOn
    <3>1. ~get_in_progress
      BY <2>7 DEF BurstGoesOn, Safe, Handshake
    <3> QED BY <2>7, <3>1, GetTyped
      DEF BurstGoesOn, Safe, NoFailsafe, PausedForMessage, Handshake, wire, assembler
  <2>8. CASE StreamYields
    BY <2>8 DEF StreamYields, Safe, NoFailsafe, PausedForMessage, Handshake, wire
  <2>9. CASE StreamEnds
    <3>1. message_complete = TRUE /\ get_in_progress = TRUE /\ message_fetched = FALSE
          /\ putting = TRUE /\ failsafe = FALSE
      BY <2>9 DEF StreamEnds, Safe, NoFailsafe, Handshake, TypeOK
    <3>2. /\ failsafe' = FALSE /\ message_complete' = FALSE /\ message_fetched' = TRUE
          /\ sentinel' = FALSE /\ get_in_progress' = FALSE /\ putting' = TRUE
      BY <2>9, <3>1 DEF StreamEnds, Fetch
    <3>3. paused' = FALSE /\ reading' = TRUE
      BY <2>9 DEF StreamEnds, ResumeFrames, Safe, PausedForMessage, TypeOK
    <3>4. get'.at = "none" /\ handler' = "idle"
      BY <2>9, LeaveTyped DEF StreamEnds, NoGet
    <3> QED BY <3>2, <3>3, <3>4 DEF Safe, NoFailsafe, PausedForMessage, Handshake
  <2>10. CASE RecvCancelled
    BY <2>10, LeaveSafe DEF RecvCancelled, Cancelled, wire, assembler
  <2> QED BY <1>7, <2>1, <2>2, <2>3, <2>4, <2>5, <2>6, <2>7, <2>8, <2>9, <2>10
          DEF Handler
<1>8. CASE Interrupted
  BY <1>8, LeaveSafe DEF Interrupted, Cancelled, wire, assembler
<1>9. CASE UNCHANGED vars
  BY <1>9 DEF vars, wire, assembler, call, Safe, NoFailsafe, PausedForMessage, Handshake
<1> QED BY <1>1, <1>2, <1>3, <1>4, <1>5, <1>6, <1>7, <1>8, <1>9 DEF Next

\* When a handler that is cancelled in the middle of a call ends, no failsafe
\* error of the assembler is ever raised.
THEOREM NeverFailsafe ==
    ASSUME AfterCancel \subseteq {"ended"}
    PROVE  Spec => []NoFailsafe
<1>1. TypeOK /\ Safe /\ [Next]_vars => Safe'
  BY StepSafe
<1>2. Safe => NoFailsafe
  BY DEF Safe
<1> QED BY <1>1, <1>2, InitSafe, AssemblerTyped, PTL DEF Spec

\* Then, too, the transport is paused only for a message that waits.
THEOREM NeverLeftPaused ==
    ASSUME AfterCancel \subseteq {"ended"}
    PROVE  Spec => []PausedForMessage
<1>1. TypeOK /\ Safe /\ [Next]_vars => Safe'
  BY StepSafe
<1>2. Safe => PausedForMessage
  BY DEF Safe
<1> QED BY <1>1, <1>2, InitSafe, AssemblerTyped, PTL DEF Spec
-----------------------------------------------------------------------------
(***************************************************************************)
(* The channel.  What is between the client and the handler is a tape: the *)
(* frames that were read, the messages of a burst, the result of the get() *)
(* that is over, the chunks of the assembler and the events are the frames *)
(* that were sent, one after the other.                                    *)
(***************************************************************************)
Lies(s, place, w) == \A i \in 1..Len(s) : s[i] = w[place + i]

\* the frames w in five pieces; a CLOSE frame may be the last event, when no more may come
Tape(w, r, m, g, c, e, open) ==
    LET d == Len(r) + Len(m) + Len(g) + Len(c)
    IN /\ Lies(r, 0, w) /\ Lies(m, Len(r), w)
       /\ Lies(g, Len(r) + Len(m), w) /\ Lies(c, Len(r) + Len(m) + Len(g), w)
       /\ d <= Len(w)
       /\ \A i \in 1 .. Len(w) - d : e[i] = w[d + i]
       /\ \/ Len(e) = Len(w) - d
          \/ Len(e) = Len(w) - d + 1 /\ e[Len(e)] = Close /\ ~open

OnItsWay == Tape(sent, read, messages, get.result, chunks, events, state = "OPEN")

Final(s)        == s[Len(s)].fin
BetweenMessages == read = <<>> \/ Final(read)

\* What leaves the assembler for a recv() or a burst are whole messages.
Whole ==
    /\ get.at # "raised"
    /\ messages # <<>> => Final(messages) /\ handler \in {"burst", "sleep"}
    /\ get.result # <<>> => Final(get.result) /\ get.at = "done"
    /\ handler # "stream" => BetweenMessages
    /\ message_complete =>
          IF chunks = <<>> THEN handler = "stream" /\ BetweenMessages ELSE Final(chunks)

InOrder == handler # "ended" => OnItsWay /\ Whole

\* A CLOSE frame is not a frame with data.
LEMMA CloseIsNoData == Close \notin DataFrame
BY DEF Close, DataFrame

\* What lies among the frames still does when there is one more.
LEMMA LiesOn ==
    ASSUME NEW w \in Frames, NEW f \in DataFrame, NEW s \in Frames, NEW place \in Nat,
           place + Len(s) <= Len(w), Lies(s, place, w)
    PROVE  Lies(s, place, Append(w, f))
<1> SUFFICES ASSUME NEW i \in 1..Len(s) PROVE s[i] = Append(w, f)[place + i]
  BY DEF Lies
<1>1. place + i \in 1..Len(w)
  BY DEF Frames
<1>2. Append(w, f)[place + i] = w[place + i]
  BY <1>1 DEF Frames
<1> QED BY <1>2 DEF Lies

\* A frame arrives.
LEMMA TapeArrive ==
    ASSUME NEW w \in Frames, NEW r \in Frames, NEW m \in Frames, NEW g \in Frames, NEW c \in Frames,
           NEW e \in Events, NEW f \in DataFrame, Tape(w, r, m, g, c, e, TRUE)
    PROVE  Tape(Append(w, f), r, m, g, c, Append(e, f), TRUE)
<1> DEFINE d == Len(r) + Len(m) + Len(g) + Len(c)
           v == Append(w, f)
           x == Append(e, f)
<1>1. Len(r) \in Nat /\ Len(m) \in Nat /\ Len(g) \in Nat /\ Len(c) \in Nat /\ Len(w) \in Nat
  BY DEF Frames
<1>2. d \in Nat /\ d <= Len(w) /\ Len(e) = Len(w) - d
  BY <1>1 DEF Tape
<1>3. \A i \in 1 .. Len(w) - d : e[i] = w[d + i]
  BY DEF Tape
<1>4. /\ Len(r) <= Len(w) /\ Len(r) + Len(m) <= Len(w)
      /\ Len(r) + Len(m) + Len(g) <= Len(w) /\ Len(r) + Len(m) + Len(g) + Len(c) <= Len(w)
      /\ Len(r) + Len(m) \in Nat /\ Len(r) + Len(m) + Len(g) \in Nat
  BY <1>1, <1>2
<1>5. /\ Len(v) = Len(w) + 1 /\ v[Len(w) + 1] = f
      /\ \A i \in 1 .. Len(w) : v[i] = w[i]
  BY DEF Frames
<1>6. /\ Len(x) = Len(e) + 1 /\ x[Len(e) + 1] = f
      /\ \A i \in 1 .. Len(e) : x[i] = e[i]
  BY DEF Events
<1>7. Lies(r, 0, v)
  BY <1>4, LiesOn DEF Tape
<1>8. Lies(m, Len(r), v)
  BY <1>1, <1>4, LiesOn DEF Tape
<1>9. Lies(g, Len(r) + Len(m), v)
  BY <1>4, LiesOn DEF Tape
<1>10. Lies(c, Len(r) + Len(m) + Len(g), v)
  BY <1>4, LiesOn DEF Tape
<1> HIDE DEF v, x
<1> HIDE DEF d
<1>11. \A i \in 1 .. Len(v) - d : x[i] = v[d + i]
  <2> TAKE i \in 1 .. Len(v) - d
  <2>1. CASE i = Len(v) - d
    BY <1>1, <1>2, <1>5, <1>6, <2>1
  <2>2. CASE i # Len(v) - d
    <3>1. i \in 1 .. Len(w) - d /\ d + i \in 1 .. Len(w) /\ i \in 1 .. Len(e)
      <4>1. Len(v) = Len(w) + 1  BY <1>5
      <4>2. i \in Nat /\ 1 <= i /\ i <= Len(w) - d  BY <1>1, <1>2, <2>2, <4>1
      <4> QED BY <1>1, <1>2, <4>2
    <3> QED BY <1>3, <1>5, <1>6, <3>1
  <2> QED BY <2>1, <2>2
<1>12. Len(x) = Len(v) - d /\ d <= Len(v)
  BY <1>1, <1>2, <1>5, <1>6
<1> QED BY <1>7, <1>8, <1>9, <1>10, <1>11, <1>12 DEF Tape, d, v, x

\* The client closes.
LEMMA TapeClose ==
    ASSUME NEW w \in Frames, NEW r \in Frames, NEW m \in Frames, NEW g \in Frames, NEW c \in Frames,
           NEW e \in Events, Tape(w, r, m, g, c, e, TRUE)
    PROVE  Tape(w, r, m, g, c, Append(e, Close), FALSE)
BY DEF Tape, Lies, Frames, Events

\* Closing forgets nothing.
LEMMA TapeShut ==
    ASSUME NEW w, NEW r, NEW m, NEW g, NEW c, NEW e, NEW open, NEW shut, shut => open,
           Tape(w, r, m, g, c, e, open)
    PROVE  Tape(w, r, m, g, c, e, shut)
BY DEF Tape

\* The CLOSE frame is the last event.
LEMMA TapeClosed ==
    ASSUME NEW w \in Frames, NEW r \in Frames, NEW m \in Frames, NEW g \in Frames, NEW c \in Frames,
           NEW e \in Events, NEW open, e # <<>>, Head(e) = Close, Tape(w, r, m, g, c, e, open)
    PROVE  Tape(w, r, m, g, c, Tail(e), open)
<1> DEFINE d == Len(r) + Len(m) + Len(g) + Len(c)
<1>1. d \in Nat /\ Len(w) \in Nat /\ d <= Len(w)
  BY DEF Tape, Frames
<1>2. Len(w) = d
  <2> SUFFICES ASSUME Len(w) # d PROVE FALSE
    OBVIOUS
  <2>1. 1 \in 1 .. Len(w) - d /\ d + 1 \in 1..Len(w)
    BY <1>1
  <2>2. Head(e) = w[d + 1] /\ w[d + 1] \in DataFrame
    BY <2>1 DEF Tape, Frames, Events
  <2> QED BY <2>2, CloseIsNoData
<1>3. Len(Tail(e)) = 0
  BY <1>1, <1>2 DEF Tape, Events
<1> QED BY <1>1, <1>2, <1>3 DEF Tape

\* The first event is put into the assembler.
LEMMA TapePut ==
    ASSUME NEW w \in Frames, NEW r \in Frames, NEW m \in Frames, NEW g \in Frames, NEW c \in Frames,
           NEW e \in Events, NEW open, e # <<>>, Head(e) # Close, Tape(w, r, m, g, c, e, open)
    PROVE  Tape(w, r, m, g, Append(c, Head(e)), Tail(e), open)
<1> DEFINE d == Len(r) + Len(m) + Len(g) + Len(c)
<1>1. d \in Nat /\ Len(w) \in Nat /\ d <= Len(w) /\ Len(e) \in Nat \ {0}
  BY DEF Tape, Frames, Events
<1>2. d < Len(w)
  <2> SUFFICES ASSUME Len(w) = d PROVE FALSE
    BY <1>1
  <2>1. Len(e) = 1 /\ e[Len(e)] = Close
    BY <1>1 DEF Tape
  <2> QED BY <2>1 DEF Events
<1>3. Head(e) = w[d + 1]
  <2>1. 1 \in 1 .. Len(w) - d /\ Head(e) = e[1]
    BY <1>1, <1>2 DEF Events
  <2>2. \A i \in 1 .. Len(w) - d : e[i] = w[d + i]
    BY DEF Tape
  <2> HIDE DEF d
  <2> QED BY <2>1, <2>2
<1>4. /\ Len(Append(c, Head(e))) = Len(c) + 1 /\ Len(Tail(e)) = Len(e) - 1
      /\ \A i \in 1 .. Len(e) - 1 : Tail(e)[i] = e[i + 1]
      /\ \A i \in 1 .. Len(c) : Append(c, Head(e))[i] = c[i]
      /\ Append(c, Head(e))[Len(c) + 1] = Head(e)
  BY DEF Frames, Events
<1>5. Lies(Append(c, Head(e)), Len(r) + Len(m) + Len(g), w)
  <2> DEFINE place == Len(r) + Len(m) + Len(g)
             s == Append(c, Head(e))
  <2>1. Len(c) \in Nat /\ Len(s) = Len(c) + 1 /\ s[Len(c) + 1] = Head(e) /\ \A i \in 1 .. Len(c) : s[i] = c[i]
    BY <1>4 DEF Frames
  <2>2. Lies(c, place, w)  BY DEF Tape
  <2>3. d + 1 = place + (Len(c) + 1)
    BY DEF Frames
  <2> HIDE DEF place, s
  <2>4. ASSUME NEW i \in 1 .. Len(s) PROVE s[i] = w[place + i]
    <3>1. CASE i = Len(c) + 1  BY <1>3, <2>1, <2>3, <3>1
    <3>2. CASE i # Len(c) + 1
      <4>1. i \in 1 .. Len(c)  BY <2>1, <3>2
      <4> QED BY <2>1, <2>2, <4>1 DEF Lies
    <3> QED BY <3>1, <3>2
  <2>5. Lies(s, place, w)  BY <2>4 DEF Lies
  <2> QED BY <2>5 DEF s, place
<1>6. \A i \in 1 .. Len(w) - (d + 1) : Tail(e)[i] = w[d + 1 + i]
  BY <1>1, <1>2, <1>4 DEF Tape
<1>7. \/ Len(Tail(e)) = Len(w) - (d + 1)
      \/ Len(Tail(e)) = Len(w) - (d + 1) + 1 /\ Tail(e)[Len(Tail(e))] = Close /\ ~open
  BY <1>1, <1>2, <1>4 DEF Tape
<1>8. Len(r) + Len(m) + Len(g) + Len(Append(c, Head(e))) = d + 1
  BY <1>4 DEF Frames
<1> HIDE DEF d
<1> QED BY <1>1, <1>2, <1>5, <1>6, <1>7, <1>8 DEF Tape

\* get() takes the chunks.
LEMMA TapeFetch ==
    ASSUME NEW w \in Frames, NEW r \in Frames, NEW m \in Frames, NEW c \in Frames,
           NEW e \in Events, NEW open, Tape(w, r, m, <<>>, c, e, open)
    PROVE  Tape(w, r, m, c, <<>>, e, open)
BY DEF Tape, Lies, Frames

\* A burst keeps what get() returned.
LEMMA TapeKeep ==
    ASSUME NEW w \in Frames, NEW r \in Frames, NEW m \in Frames, NEW g \in Frames, NEW c \in Frames,
           NEW e \in Events, NEW open, Tape(w, r, m, g, c, e, open)
    PROVE  Tape(w, r, m \o g, <<>>, c, e, open)
<1>1. /\ Len(m \o g) = Len(m) + Len(g) /\ Len(m) \in Nat /\ Len(g) \in Nat /\ Len(r) \in Nat
      /\ \A i \in 1 .. Len(m) : (m \o g)[i] = m[i]
      /\ \A i \in 1 .. Len(g) : (m \o g)[Len(m) + i] = g[i]
  BY DEF Frames
<1>2. ASSUME NEW i \in 1 .. Len(m \o g) PROVE (m \o g)[i] = w[Len(r) + i]
  <2>1. CASE i <= Len(m)
    BY <1>1, <2>1 DEF Tape, Lies
  <2>2. CASE i > Len(m)
    <3>1. i - Len(m) \in 1 .. Len(g) /\ Len(m) + (i - Len(m)) = i
      BY <1>1, <2>2
    <3>2. (m \o g)[i] = g[i - Len(m)]
      BY <1>1, <3>1
    <3>3. g[i - Len(m)] = w[Len(r) + Len(m) + (i - Len(m))]
      BY <3>1 DEF Tape, Lies
    <3> QED BY <1>1, <3>2, <3>3
  <2> QED BY <1>1, <2>1, <2>2
<1>3. Len(<<>>) = 0 /\ Lies(<<>>, Len(r) + Len(m \o g), w)
  BY DEF Lies
<1>4. /\ Len(r) + Len(m \o g) + Len(<<>>) = Len(r) + Len(m) + Len(g)
      /\ Lies(m \o g, Len(r), w)
  BY <1>1, <1>2, <1>3 DEF Lies
<1> QED BY <1>3, <1>4 DEF Tape

\* The handler is given all of it.
LEMMA TapeRead ==
    ASSUME NEW w \in Frames, NEW r \in Frames, NEW m \in Frames, NEW c \in Frames,
           NEW e \in Events, NEW open, Tape(w, r, m, <<>>, c, e, open)
    PROVE  Tape(w, r \o m, <<>>, <<>>, c, e, open)
<1>1. /\ Len(r \o m) = Len(r) + Len(m) /\ Len(m) \in Nat /\ Len(r) \in Nat
      /\ \A i \in 1 .. Len(r) : (r \o m)[i] = r[i]
      /\ \A i \in 1 .. Len(m) : (r \o m)[Len(r) + i] = m[i]
  BY DEF Frames
<1>2. ASSUME NEW i \in 1 .. Len(r \o m) PROVE (r \o m)[i] = w[0 + i]
  <2>1. CASE i <= Len(r)
    BY <1>1, <2>1 DEF Tape, Lies
  <2>2. CASE i > Len(r)
    <3>1. i - Len(r) \in 1 .. Len(m) /\ Len(r) + (i - Len(r)) = i
      BY <1>1, <2>2
    <3>2. (r \o m)[i] = m[i - Len(r)]
      BY <1>1, <3>1
    <3>3. m[i - Len(r)] = w[Len(r) + (i - Len(r))]
      BY <3>1 DEF Tape, Lies
    <3> QED BY <1>1, <3>2, <3>3
  <2> QED BY <1>1, <2>1, <2>2
<1>3. Len(<<>>) = 0 /\ \A place : Lies(<<>>, place, w)
  BY DEF Lies
<1>4. /\ Len(r \o m) + Len(<<>>) + Len(<<>>) = Len(r) + Len(m) + Len(<<>>)
      /\ Len(r \o m) + Len(<<>>) = Len(r) + Len(m)
      /\ Lies(r \o m, 0, w)
  BY <1>1, <1>2, <1>3 DEF Lies
<1> QED BY <1>3, <1>4 DEF Tape

\* A stream yields a chunk.
LEMMA TapeYield ==
    ASSUME NEW w \in Frames, NEW r \in Frames, NEW c \in Frames, NEW e \in Events, NEW open,
           c # <<>>, Tape(w, r, <<>>, <<>>, c, e, open)
    PROVE  Tape(w, Append(r, Head(c)), <<>>, <<>>, Tail(c), e, open)
<1>1. /\ Len(Append(r, Head(c))) = Len(r) + 1 /\ Len(Tail(c)) = Len(c) - 1
      /\ Len(r) \in Nat /\ Len(c) \in Nat \ {0} /\ Len(<<>>) = 0
      /\ \A i \in 1 .. Len(c) - 1 : Tail(c)[i] = c[i + 1]
      /\ \A i \in 1 .. Len(r) : Append(r, Head(c))[i] = r[i]
      /\ Append(r, Head(c))[Len(r) + 1] = c[1]
  BY DEF Frames
<1>2. c[1] = w[Len(r) + 1]
  BY <1>1 DEF Tape, Lies
<1>3. Lies(Append(r, Head(c)), 0, w)
  BY <1>1, <1>2 DEF Tape, Lies
<1>4. Lies(Tail(c), Len(r) + 1, w)
  BY <1>1 DEF Tape, Lies
<1>5. \A place : Lies(<<>>, place, w)
  BY DEF Lies
<1>6. Len(Append(r, Head(c))) + Len(<<>>) + Len(<<>>) + Len(Tail(c)) = Len(r) + Len(<<>>) + Len(<<>>) + Len(c)
  BY <1>1
<1>7. Len(Append(r, Head(c))) + Len(<<>>) + Len(<<>>) = Len(r) + 1
  BY <1>1
<1>8. Lies(Tail(c), Len(Append(r, Head(c))) + Len(<<>>) + Len(<<>>), w)
  BY <1>4, <1>7
<1>9. /\ Len(r) + Len(<<>>) + Len(<<>>) + Len(c) <= Len(w)
      /\ \A i \in 1 .. Len(w) - (Len(r) + Len(<<>>) + Len(<<>>) + Len(c)) :
            e[i] = w[Len(r) + Len(<<>>) + Len(<<>>) + Len(c) + i]
      /\ \/ Len(e) = Len(w) - (Len(r) + Len(<<>>) + Len(<<>>) + Len(c))
         \/ /\ Len(e) = Len(w) - (Len(r) + Len(<<>>) + Len(<<>>) + Len(c)) + 1
            /\ e[Len(e)] = Close /\ ~open
  BY DEF Tape
<1> QED BY <1>3, <1>5, <1>6, <1>8, <1>9 DEF Tape

\* What was read are the first of the frames that were sent.
LEMMA ReadIsPrefix ==
    ASSUME NEW w \in Frames, NEW r \in Frames, Lies(r, 0, w), Len(r) <= Len(w)
    PROVE  r = SubSeq(w, 1, Len(r))
<1>1. SubSeq(w, 1, Len(r)) \in Frames /\ Len(SubSeq(w, 1, Len(r))) = Len(r)
  BY DEF Frames
<1>2. \A i \in 1 .. Len(r) : SubSeq(w, 1, Len(r))[i] = r[i]
  BY DEF Frames, Lies
<1> QED BY <1>1, <1>2, SeqEqual DEF Frames
-----------------------------------------------------------------------------
ChannelMoves == [Channel!Next]_(Channel!vars)

\* Before anything was sent.
LEMMA InitInOrder == Init => InOrder
<1> SUFFICES ASSUME Init PROVE OnItsWay /\ Whole
  BY DEF InOrder
<1>1. OnItsWay
  <2>1. Len(<<>>) = 0 /\ \A place, w : Lies(<<>>, place, w)
    BY DEF Lies
  <2>2. ASSUME NEW w, Len(w) = 0 PROVE Tape(w, w, w, w, w, w, TRUE)
    BY <2>2 DEF Tape, Lies
  <2>3. /\ sent = <<>> /\ read = <<>> /\ messages = <<>> /\ get.result = <<>>
        /\ chunks = <<>> /\ events = <<>>
    BY DEF Init, NoGet
  <2> QED BY <2>1, <2>2, <2>3, TapeShut DEF OnItsWay
<1>2. Whole
  BY DEF Init, Whole, BetweenMessages, NoGet
<1> QED BY <1>1, <1>2

\* The pieces of the tape are sequences of frames.
LEMMA PiecesTyped ==
    ASSUME TypeOK
    PROVE  /\ sent \in Frames /\ read \in Frames /\ messages \in Frames /\ get.result \in Frames
           /\ chunks \in Frames /\ events \in Events /\ <<>> \in Frames
<1>1. get.result \in Frames
  BY DEF TypeOK, GetTask
<1> QED BY <1>1, GetTyped DEF TypeOK

\* A handler that is no longer there is promised nothing.
LEMMA EndInOrder ==
    ASSUME handler # "ended", handler' = "ended", UNCHANGED <<sent, read>>
    PROVE  InOrder' /\ ChannelMoves
<1>1. Channel!End
  BY DEF Channel!End
<1> QED BY <1>1 DEF InOrder, ChannelMoves, Channel!Next

\* Nothing moves on the tape, and no call begins or ends to stream.
LEMMA QuietInOrder ==
    ASSUME InOrder, handler # "ended", UNCHANGED <<sent, read, messages, chunks, events>>,
           get'.result = get.result, get'.at = get.at \/ get.result = <<>>, get'.at # "raised",
           state' = "OPEN" => state = "OPEN", message_complete' => message_complete,
           handler' = handler \/ (handler \in {"idle", "sleep"} /\ handler' \in {"recv", "burst"}),
           messages # <<>> => handler' \in {"burst", "sleep"}
    PROVE  InOrder' /\ ChannelMoves
<1>1. OnItsWay'
  BY TapeShut DEF InOrder, OnItsWay
<1>2. Whole'
  BY DEF InOrder, Whole, BetweenMessages
<1>3. ChannelMoves
  BY DEF ChannelMoves, Channel!vars
<1> QED BY <1>1, <1>2, <1>3 DEF InOrder

\* A frame arrives, or the CLOSE frame does.
LEMMA ReceiveInOrder ==
    ASSUME TypeOK, InOrder, Receive \/ ReceiveClose
    PROVE  InOrder' /\ ChannelMoves
<1>1. state = "OPEN" /\ UNCHANGED <<read, messages, chunks, get, handler, message_complete>>
  BY DEF Receive, ReceiveClose, assembler, call
<1>2. handler # "ended" => Tape(sent, read, messages, get.result, chunks, events, TRUE)
  BY <1>1, TapeShut DEF InOrder, OnItsWay
<1>3. handler # "ended" => Whole'
  BY <1>1 DEF InOrder, Whole, BetweenMessages
<1>4. CASE Receive
  <2>1. PICK fin \in BOOLEAN :
          /\ sent' = Append(sent, [n |-> Len(sent) + 1, fin |-> fin])
          /\ events' = Append(events, [n |-> Len(sent) + 1, fin |-> fin])
    BY <1>4 DEF Receive
  <2>2. [n |-> Len(sent) + 1, fin |-> fin] \in DataFrame
    BY <1>4, AssemblerAssumption DEF Receive, TypeOK, DataFrame, Frames
  <2>3. handler # "ended" => Tape(sent', read, messages, get.result, chunks, events', TRUE)
    BY <1>2, <2>1, <2>2, PiecesTyped, TapeArrive
  <2>4. state' = "OPEN"
    BY <1>1, <1>4 DEF Receive
  <2>5. handler # "ended" => OnItsWay'
    BY <1>1, <2>3, <2>4, TapeShut DEF OnItsWay
  <2>6. Channel!Arrive
    BY <1>1, <2>1 DEF Channel!Arrive
  <2> QED BY <1>1, <1>3, <2>5, <2>6 DEF InOrder, ChannelMoves, Channel!Next
<1>5. CASE ReceiveClose
  <2>1. events' = Append(events, Close) /\ sent' = sent /\ state' = "CLOSING"
    BY <1>5 DEF ReceiveClose
  <2>2. handler # "ended" => Tape(sent', read, messages, get.result, chunks, events', FALSE)
    BY <1>2, <2>1, PiecesTyped, TapeClose
  <2>3. handler # "ended" => OnItsWay'
    BY <1>1, <2>1, <2>2, TapeShut DEF OnItsWay
  <2> QED BY <1>1, <1>3, <2>1, <2>3 DEF InOrder, ChannelMoves, Channel!vars
<1> QED BY <1>4, <1>5

\* process_events takes the first event, and puts it if it is a frame with data.
LEMMA ProcessInOrder ==
    ASSUME TypeOK, Safe, InOrder, ProcessEvent
    PROVE  InOrder' /\ ChannelMoves
<1> DEFINE frame == Head(events)
<1>1. /\ events # <<>> /\ events' = Tail(events) /\ ~putting
      /\ ProcessClose(frame) \/ PutPart(frame) \/ PutLast(frame)
  BY DEF ProcessEvent
<1>2. ~message_complete
  BY <1>1 DEF Safe, Handshake
<1>3. UNCHANGED <<sent, read, messages, get, handler, state>>
  BY <1>1 DEF ProcessClose, PutPart, PutLast, wire, call
<1>4. handler # "ended" => OnItsWay'
  <2>1. CASE ProcessClose(frame)
    <3>1. Head(events) = Close /\ chunks' = chunks
      BY <2>1 DEF ProcessClose, assembler
    <3> QED BY <1>1, <1>3, <3>1, PiecesTyped, TapeClosed DEF InOrder, OnItsWay
  <2>2. CASE PutPart(frame) \/ PutLast(frame)
    <3>1. Head(events) # Close /\ chunks' = Append(chunks, Head(events))
      BY <2>2 DEF PutPart, PutLast
    <3> QED BY <1>1, <1>3, <3>1, PiecesTyped, TapePut DEF InOrder, OnItsWay
  <2> QED BY <1>1, <2>1, <2>2
<1>5. handler # "ended" => Whole'
  <2>1. CASE ~message_complete'
    BY <1>3, <2>1 DEF InOrder, Whole, BetweenMessages
  <2>2. CASE message_complete'
    <3>1. frame.fin /\ chunks' = Append(chunks, frame)
      BY <1>1, <1>2, <2>2 DEF ProcessClose, PutPart, PutLast, assembler
    <3>2. chunks' # <<>> /\ Final(chunks')
      <4> PICK c : c = chunks  OBVIOUS
      <4>1. c \in Frames /\ chunks' = Append(c, frame)  BY <3>1, PiecesTyped
      <4>2. /\ Append(c, frame) # <<>> /\ Len(Append(c, frame)) = Len(c) + 1
            /\ Append(c, frame)[Len(c) + 1] = frame
        BY <4>1 DEF Frames
      <4> QED BY <3>1, <4>1, <4>2 DEF Final
    <3> QED BY <1>3, <3>2 DEF InOrder, Whole, BetweenMessages
  <2> QED BY <2>1, <2>2
<1> QED BY <1>3, <1>4, <1>5 DEF InOrder, ChannelMoves, Channel!vars

\* get() waits, returns None or a whole message.
LEMMA GetterInOrder ==
    ASSUME TypeOK, Safe, Safe', InOrder, Getter
    PROVE  InOrder' /\ ChannelMoves
<1>1. /\ get.at \in {"start", "wait"}
      /\ UNCHANGED <<sent, state, events, read, handler, messages>>
  BY DEF Getter, GetStart, GetWakes, GetTimesOut
<1>2. handler \in {"recv", "burst"} /\ get.result = <<>>
  BY <1>1 DEF Safe, Handshake, InOrder, Whole
<1>3. ASSUME NEW wrong, GetEnds(wrong), message_complete PROVE InOrder' /\ ChannelMoves
  <2>1. chunks # <<>> /\ Final(chunks)
    BY <1>2, <1>3 DEF InOrder, Whole
  <2>2. chunks' = <<>> /\ message_complete' = FALSE
    BY <1>3 DEF GetEnds, Fetch
  <2>3. get'.at = "done" /\ get'.result = chunks
    BY <1>3 DEF GetEnds, TypeOK, GetTask
  <2>4. Tape(sent, read, messages, <<>>, chunks, events, state = "OPEN")
    BY <1>2 DEF InOrder, OnItsWay
  <2>5. OnItsWay'
    BY <1>1, <2>2, <2>3, <2>4, PiecesTyped, TapeFetch DEF OnItsWay
  <2>6. Whole'
    BY <1>1, <1>2, <2>1, <2>2, <2>3 DEF InOrder, Whole, BetweenMessages, Final
  <2> QED BY <1>1, <2>5, <2>6 DEF InOrder, ChannelMoves, Channel!vars
<1>4. CASE /\ UNCHANGED <<chunks, message_complete>>
           /\ get'.result = get.result /\ get'.at # "raised"
  BY <1>1, <1>2, <1>4, QuietInOrder DEF InOrder, Whole
<1>5. CASE GetStart
  <2>1. failsafe' # TRUE
    BY DEF Safe, NoFailsafe
  <2>2. CASE /\ get' = [get EXCEPT !.at = "done"] \/ get' = [get EXCEPT !.at = "wait"]
             /\ UNCHANGED <<chunks, message_complete>>
    <3>1. get'.result = get.result /\ get'.at # "raised"
      BY <2>2 DEF TypeOK, GetTask
    <3> QED BY <1>4, <2>2, <3>1
  <2>3. CASE message_complete /\ GetEnds(FALSE)
    BY <1>3, <2>3
  <2> QED BY <1>5, <2>1, <2>2, <2>3 DEF GetStart, assembler
<1>6. CASE GetWakes
  BY <1>3, <1>6 DEF GetWakes
<1>7. CASE GetTimesOut
  <2>1. UNCHANGED <<chunks, message_complete>> /\ get' = [get EXCEPT !.at = "done"]
    BY <1>7 DEF GetTimesOut, GetEnds
  <2>2. get'.result = get.result /\ get'.at # "raised"
    BY <2>1 DEF TypeOK, GetTask
  <2> QED BY <1>4, <2>1, <2>2
<1> QED BY <1>5, <1>6, <1>7 DEF Getter

\* Sequences of frames that are joined.
LEMMA JoinThree ==
    ASSUME NEW a \in Frames, NEW b \in Frames, NEW c \in Frames
    PROVE  (a \o b) \o c = a \o (b \o c)
<1> DEFINE x == (a \o b) \o c
           y == a \o (b \o c)
<1>1. a \o b \in Frames /\ b \o c \in Frames /\ x \in Frames /\ y \in Frames
  BY DEF Frames
<1>2. /\ Len(a) \in Nat /\ Len(b) \in Nat /\ Len(c) \in Nat
      /\ Len(x) = Len(a) + Len(b) + Len(c) /\ Len(y) = Len(x)
  BY <1>1 DEF Frames
<1>3. ASSUME NEW i \in 1..Len(x) PROVE x[i] = y[i]
  <2>1. CASE i \in 1 .. Len(a)
    BY <1>1, <1>2, <2>1 DEF Frames
  <2>2. CASE i - Len(a) \in 1 .. Len(b)
    BY <1>1, <1>2, <2>2 DEF Frames
  <2>3. CASE i - (Len(a) + Len(b)) \in 1 .. Len(c)
    BY <1>1, <1>2, <2>3 DEF Frames
  <2> QED BY <1>2, <2>1, <2>2, <2>3
<1> HIDE DEF x, y
<1>4. x = y
  BY <1>1, <1>2, <1>3, SeqEqual DEF Frames
<1> QED BY <1>4 DEF x, y

\* recv() and recv_burst() return: what they give the handler are whole messages, in order.
LEMMA ReturnInOrder ==
    ASSUME TypeOK, Safe, InOrder, RecvReturns \/ BurstReturns
    PROVE  InOrder' /\ ChannelMoves
<1> DEFINE given == messages \o get.result
<1>1. /\ handler \in {"recv", "burst"} /\ GetOver /\ Leave(CallOver)
      /\ UNCHANGED <<sent, events, chunks, state, message_complete>>
  BY DEF RecvReturns, BurstReturns, wire, assembler
<1>2. get.at = "done" /\ handler' = "idle" /\ messages' = <<>> /\ get' = NoGet
  BY <1>1 DEF GetOver, CallOver, Leave, InOrder, Whole
<1>3. /\ sent \in Frames /\ read \in Frames /\ messages \in Frames /\ get.result \in Frames
      /\ given \in Frames /\ chunks \in Frames /\ events \in Events
  BY PiecesTyped, FramesTyped
<1>4. read' = read \o given
  <2>1. CASE RecvReturns
    <3>1. messages = <<>> /\ read' = read \o get.result
      BY <2>1 DEF RecvReturns, InOrder, Whole
    <3>2. given = get.result
      BY <1>3, <3>1, ConcatEmptySeq DEF Frames
    <3> QED BY <3>1, <3>2
  <2>2. CASE BurstReturns
    <3>1. read' = (read \o messages) \o get.result
      BY <1>2, <2>2 DEF BurstReturns
    <3>2. \A a, b, c \in Frames : (a \o b) \o c = a \o (b \o c)
      BY JoinThree, Zenon
    <3>3. (read \o messages) \o get.result = read \o (messages \o get.result)
      <4>1. read \in Frames /\ messages \in Frames /\ get.result \in Frames  BY <1>3
      <4> QED BY <4>1, <3>2
    <3> QED BY <3>1, <3>3
  <2> QED BY <2>1, <2>2
<1>5. Tape(sent, read, given, <<>>, chunks, events, state = "OPEN")
  BY <1>1, <1>3, TapeKeep DEF InOrder, OnItsWay
<1>6. Tape(sent, read', <<>>, <<>>, chunks, events, state = "OPEN")
  BY <1>3, <1>4, <1>5, TapeRead
<1>7. OnItsWay'
  <2>1. messages' = <<>> /\ get'.result = <<>>
    BY <1>2 DEF NoGet
  <2> QED BY <1>1, <1>6, <2>1 DEF OnItsWay
<1>8. read' \in Frames /\ Len(given) \in Nat /\ Len(read') = Len(read) + Len(given) /\ Len(read) \in Nat
  BY <1>3, <1>4, FramesTyped DEF Frames
<1>9. given = <<>> \/ (Len(given) > 0 /\ Final(given))
  <2>1. CASE get.result = <<>>
    <3>1. given = messages
      BY <1>3, <2>1, ConcatEmptySeq DEF Frames
    <3>2. messages # <<>> => Final(messages) /\ Len(messages) > 0
      BY <1>1, <1>3 DEF InOrder, Whole, Frames
    <3> QED BY <3>1, <3>2
  <2>2. CASE get.result # <<>>
    <3>1. Final(get.result) /\ Len(get.result) > 0
      BY <1>1, <1>3, <2>2 DEF InOrder, Whole, Frames
    <3>2. Len(given) = Len(messages) + Len(get.result) /\ given[Len(given)] = get.result[Len(get.result)]
      BY <1>3, <3>1 DEF Frames
    <3> QED BY <1>3, <3>1, <3>2 DEF Final, Frames
  <2> QED BY <2>1, <2>2
<1>10. read' = read \/ (Len(read') > Len(read) /\ Final(read'))
  <2>1. CASE given = <<>>
    BY <1>3, <1>4, <2>1, ConcatEmptySeq DEF Frames
  <2>2. CASE Len(given) > 0 /\ Final(given)
    <3>1. read'[Len(read')] = given[Len(given)]
      BY <1>3, <1>4, <1>8, <2>2 DEF Frames
    <3> QED BY <1>8, <2>2, <3>1 DEF Final
  <2> QED BY <1>9, <2>1, <2>2
<1>11. Whole'
  <2>1. BetweenMessages'
    BY <1>1, <1>10 DEF InOrder, Whole, BetweenMessages, Final
  <2> QED BY <1>1, <1>2, <2>1 DEF InOrder, Whole, NoGet, Final
<1>12. ChannelMoves
  <2>1. CASE read' = read
    BY <1>1, <1>2, <2>1 DEF ChannelMoves, Channel!vars
  <2>2. CASE Len(read') > Len(read) /\ Final(read')
    <3>1. Lies(read', 0, sent) /\ Len(read') <= Len(sent)
      BY <1>6, <1>8 DEF Tape
    <3>2. read' = SubSeq(sent, 1, Len(read'))
      BY <1>3, <1>8, <3>1, ReadIsPrefix
    <3>3. Len(read') \in Len(read) + 1 .. Len(sent) /\ Len(read') \in 1 .. Len(read')
      BY <1>3, <1>8, <2>2, <3>1 DEF Frames
    <3>4. sent[Len(read')].fin
      BY <2>2, <3>1, <3>3 DEF Lies, Final
    <3>5. Channel!ReadMessages
      BY <1>1, <1>2, <3>2, <3>3, <3>4 DEF Channel!ReadMessages
    <3> QED BY <3>5 DEF ChannelMoves, Channel!Next
  <2> QED BY <1>10, <2>1, <2>2
<1> QED BY <1>7, <1>11, <1>12 DEF InOrder

\* A burst keeps the message, and sleeps.
LEMMA SleepInOrder ==
    ASSUME TypeOK, InOrder, BurstSleeps
    PROVE  InOrder' /\ ChannelMoves
<1>1. /\ handler = "burst" /\ get.result # <<>> /\ messages' = messages \o get.result
      /\ handler' = "sleep" /\ get' = NoGet
      /\ UNCHANGED <<sent, events, chunks, state, message_complete, read>>
  BY DEF BurstSleeps, wire, assembler
<1>2. get'.result = <<>> /\ get'.at = "none"
  BY <1>1 DEF NoGet
<1>3. OnItsWay'
  BY <1>1, <1>2, PiecesTyped, TapeKeep DEF InOrder, OnItsWay
<1>4. Final(messages')
  <2>1. get.result \in Frames /\ messages \in Frames /\ Final(get.result) /\ Len(get.result) > 0
    BY <1>1, PiecesTyped DEF InOrder, Whole, Frames
  <2>2. messages'[Len(messages')] = get.result[Len(get.result)]
    BY <1>1, <2>1 DEF Frames
  <2> QED BY <2>1, <2>2 DEF Final
<1>5. Whole'
  BY <1>1, <1>2, <1>4 DEF InOrder, Whole, BetweenMessages
<1> QED BY <1>1, <1>3, <1>5 DEF InOrder, ChannelMoves, Channel!vars

\* A stream begins between messages, yields the frames of one, and ends after its last.
LEMMA StreamInOrder ==
    ASSUME TypeOK, Safe, Safe', InOrder, CallStreaming \/ StreamYields \/ StreamEnds
    PROVE  InOrder' /\ ChannelMoves
<1>1. get.at = "none" /\ get.result = <<>> /\ messages = <<>> /\ handler # "ended"
  BY DEF CallStreaming, StreamYields, StreamEnds, Safe, Handshake, InOrder, Whole, TypeOK, GetTask
<1>2. UNCHANGED <<sent, events, state>>
  BY DEF CallStreaming, StreamYields, StreamEnds, wire
<1>3. CASE CallStreaming
  <2>1. /\ handler = "idle" /\ handler' = "stream"
        /\ UNCHANGED <<read, messages, get, chunks, message_complete>>
    BY <1>3 DEF CallStreaming, Safe, NoFailsafe
  <2>2. OnItsWay'
    BY <1>2, <2>1 DEF InOrder, OnItsWay
  <2>3. Whole' /\ BetweenMessages
    BY <1>1, <2>1 DEF InOrder, Whole, BetweenMessages
  <2>4. Channel!Stream
    BY <1>2, <2>1, <2>3 DEF Channel!Stream, Channel!BetweenMessages, BetweenMessages, Final
  <2> QED BY <2>2, <2>3, <2>4 DEF InOrder, ChannelMoves, Channel!Next
<1>4. CASE StreamYields
  <2>1. /\ handler = "stream" /\ chunks # <<>> /\ read' = Append(read, Head(chunks))
        /\ chunks' = Tail(chunks) /\ UNCHANGED <<messages, get, handler, message_complete>>
    BY <1>4 DEF StreamYields
  <2>2. Tape(sent, read', <<>>, <<>>, chunks', events, state = "OPEN")
    BY <1>1, <2>1, PiecesTyped, TapeYield DEF InOrder, OnItsWay
  <2>3. OnItsWay'
    BY <1>1, <1>2, <2>1, <2>2 DEF OnItsWay
  <2>4. /\ read \in Frames /\ chunks \in Frames /\ sent \in Frames /\ read' \in Frames
        /\ Len(read') = Len(read) + 1 /\ Len(read) \in Nat /\ Len(sent) \in Nat
        /\ read'[Len(read')] = chunks[1]
    BY <2>1, PiecesTyped DEF Frames
  <2>5. Whole'
    <3>1. chunks' # <<>> => Final(chunks') = Final(chunks)
      BY <2>1, <2>4 DEF Final, Frames
    <3>2. chunks' = <<>> => read' # <<>> /\ Final(read') = Final(chunks)
      BY <2>1, <2>4 DEF Final, Frames
    <3> QED BY <1>1, <2>1, <3>1, <3>2 DEF InOrder, Whole, BetweenMessages
  <2>6. Lies(read', 0, sent) /\ Len(read') <= Len(sent)
    BY <2>2, <2>4 DEF Tape, Frames
  <2>7. read' = SubSeq(sent, 1, Len(read) + 1)
    BY <2>4, <2>6, ReadIsPrefix
  <2>8. Channel!ReadFrame
    BY <1>2, <2>1, <2>4, <2>6, <2>7 DEF Channel!ReadFrame
  <2> QED BY <2>3, <2>5, <2>8 DEF InOrder, ChannelMoves, Channel!Next
<1>5. CASE StreamEnds
  <2>1. /\ handler = "stream" /\ chunks = <<>> /\ chunks' = <<>> /\ sentinel /\ handler' = "idle"
        /\ messages' = <<>> /\ get' = NoGet /\ message_complete' = FALSE /\ read' = read
    BY <1>5 DEF StreamEnds, Fetch, Leave
  <2>2. BetweenMessages
    BY <2>1 DEF Safe, Handshake, InOrder, Whole
  <2>3. get'.result = <<>> /\ get'.at = "none"
    BY <2>1 DEF NoGet
  <2>4. OnItsWay' /\ Whole'
    BY <1>1, <1>2, <2>1, <2>2, <2>3 DEF InOrder, OnItsWay, Whole, BetweenMessages
  <2>5. Channel!Stream
    BY <1>2, <2>1, <2>2 DEF Channel!Stream, Channel!BetweenMessages, BetweenMessages, Final
  <2> QED BY <2>4, <2>5 DEF InOrder, ChannelMoves, Channel!Next
<1> QED BY <1>3, <1>4, <1>5

\* Every step keeps the order, and is one of the channel or none.
LEMMA StepInOrder ==
    ASSUME AfterCancel \subseteq {"ended"}, TypeOK, Safe, Safe', InOrder, [Next]_vars
    PROVE  InOrder' /\ ChannelMoves
<1>1. CASE handler = "ended" /\ UNCHANGED <<sent, read, handler>>
  BY <1>1 DEF InOrder, ChannelMoves, Channel!vars
<1>2. CASE Receive \/ ReceiveClose
  BY <1>2, ReceiveInOrder
<1>3. CASE EofReceived
  <2>1. UNCHANGED <<sent, read, messages, chunks, events, get, handler, message_complete>> /\ state' # "OPEN"
    BY <1>3 DEF EofReceived, assembler
  <2> QED BY <1>1, <2>1, QuietInOrder DEF InOrder, Whole
<1>4. CASE ConnectionLost
  BY <1>4, EndInOrder DEF ConnectionLost, Leave
<1>5. CASE Worker
  <2>1. CASE ProcessEvent
    BY <2>1, ProcessInOrder
  <2>2. CASE PutFetched
    <3>1. UNCHANGED <<sent, read, messages, chunks, events, get, handler, message_complete, state>>
      BY <2>2 DEF PutFetched, wire, call
    <3> QED BY <1>1, <3>1, QuietInOrder DEF InOrder, Whole
  <2> QED BY <1>5, <2>1, <2>2 DEF Worker
<1>6. CASE Getter
  BY <1>6, GetterInOrder
<1>7. CASE Handler
  <2>1. CASE CallClosed
    BY <2>1, EndInOrder DEF CallClosed, wire
  <2>2. CASE CallRecv \/ CallBurst \/ BurstGoesOn
    <3>1. /\ handler \in {"idle", "sleep"} /\ handler' \in {"recv", "burst"}
          /\ handler = "idle" \/ handler' = "burst"
          /\ UNCHANGED <<sent, read, messages, chunks, events, message_complete, state>>
          /\ get'.result = <<>> /\ get'.at = "start"
      BY <2>2, GetTyped DEF CallRecv, CallBurst, BurstGoesOn, wire, assembler
    <3>2. get.result = <<>> /\ (messages # <<>> => handler' = "burst")
      BY <3>1 DEF Safe, Handshake, InOrder, Whole
    <3> QED BY <3>1, <3>2, QuietInOrder
  <2>3. CASE CallStreaming \/ StreamYields \/ StreamEnds
    BY <2>3, StreamInOrder
  <2>4. CASE RecvReturns \/ BurstReturns
    BY <2>4, ReturnInOrder
  <2>5. CASE BurstSleeps
    BY <2>5, SleepInOrder
  <2>6. CASE RecvCancelled
    BY <2>6, EndInOrder DEF RecvCancelled, Cancelled, Leave, wire
  <2> QED BY <1>7, <2>1, <2>2, <2>3, <2>4, <2>5, <2>6 DEF Handler
<1>8. CASE Interrupted
  BY <1>8, EndInOrder DEF Interrupted, Cancelled, Leave, wire
<1>9. CASE UNCHANGED vars
  <2>1. UNCHANGED <<sent, read, messages, chunks, events, get, handler, message_complete, state>>
    BY <1>9 DEF vars, wire, assembler, call
  <2> QED BY <1>1, <2>1, QuietInOrder DEF InOrder, Whole
<1> QED BY <1>2, <1>3, <1>4, <1>5, <1>6, <1>7, <1>8, <1>9 DEF Next

\* Then the assembler is a channel: whatever is interleaved, paused, closed and cancelled, and
\* through whichever mix of recv(), recv_burst() and recv_streaming(), the handler is given the
\* frames that were sent, whole messages in order, each once, and none is skipped.
\* (WebsocketFrameAssembler.put, get, get_iter; WebsocketImplProtocol.recv, recv_burst,
\* recv_streaming)
THEOREM AssemblerIsChannel ==
    ASSUME AfterCancel \subseteq {"ended"}
    PROVE  Spec => ImplementsChannel
<1>1. Init => Channel!Init
  BY DEF Init, Channel!Init
<1>2. TypeOK /\ Safe /\ [Next]_vars => Safe'
  BY StepSafe
<1>3. TypeOK /\ Safe /\ Safe' /\ InOrder /\ [Next]_vars => InOrder' /\ [Channel!Next]_(Channel!vars)
  BY StepInOrder DEF ChannelMoves
<1> QED BY <1>1, <1>2, <1>3, InitSafe, InitInOrder, AssemblerTyped, PTL
        DEF Spec, ImplementsChannel, Channel!Spec
=============================================================================
