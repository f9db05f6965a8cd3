----------------------- MODULE Http1Connection_proofs -----------------------
(***************************************************************************)
(* Theorems about one HTTP/1.1 connection, for every client, handler and   *)
(* buffer: its types; that it is never left open and never starves; that   *)
(* a request is taken only over an ended response, as RequestCycle says;   *)
(* what its responses look like on the wire; and that the next head is     *)
(* parsed where it begins.                                                 *)
(***************************************************************************)
EXTENDS Http1Connection, SequenceTheorems, TLAPS

LEMMA FrameTypes ==
    ASSUME NEW c \in Frames
    PROVE  /\ OnReturn(c) \in {"handler", "after", "drain"}
           /\ OnRaise(c) \in {"herr", "fail", "err2", "finish"}
           /\ OnCancel(c) \in {"cancel", "finish"}
  BY DEF Frames, OnReturn, OnRaise, OnCancel

LEMMA SendTypes ==
    ASSUME TypeOK, ConnectionAssumption, NEW c \in Frames, NEW d \in 0..1, NEW end \in BOOLEAN,
           ResponseSend(c, d, end), pending.item = "none"
    PROVE  /\ stage' \in Stages
           /\ expecting_continue' \in BOOLEAN
           /\ response_func' \in Funcs /\ response_bytes_left' \in Nat
           /\ TaskType'
           /\ pc' \in {"send", "write_wait"} <=> pending'.item # "none"
  <1> USE DEF TypeOK, TaskType, HttpType, BodyType, AnswerType, Stages, Funcs, Suspended, Waiting, Running, BeginSend
  <1>1. ctx' \in Frames
     BY DEF ResponseSend
  <1>2. CASE response_func = "none"
     BY <1>1, <1>2, FrameTypes DEF ResponseSend, SendHeader, SendBody, SendIgnored
  <1>3. CASE response_func = "header"
    <2>1. SendHeader(d, end)
       BY <1>3 DEF ResponseSend, SendBody, SendIgnored
    <2>2. ContentLength - d \in Nat
       BY DEF ConnectionAssumption
    <2>3. response_func' \in Funcs /\ expecting_continue' \in BOOLEAN /\ stage' \in Stages
       BY <2>1 DEF SendHeader
    <2>4. response_bytes_left' \in Nat
       BY <2>1, <2>2 DEF SendHeader
    <2>5. pc' = "send" /\ pending' \in [item : {"whole", "head"}, stage : Stages, func : Funcs, left : Nat]
       BY <2>1, <2>3, <2>4 DEF SendHeader
    <2> QED BY <1>1, <2>3, <2>4, <2>5
  <1>4. CASE response_func = "chunked"
     BY <1>1, <1>4, FrameTypes DEF ResponseSend, SendHeader, SendBody, SendIgnored
  <1>5. CASE response_func = "normal"
     BY <1>1, <1>5, FrameTypes DEF ResponseSend, SendHeader, SendBody, SendIgnored
  <1>6. CASE response_func = "ignored"
     BY <1>1, <1>6, FrameTypes DEF ResponseSend, SendHeader, SendBody, SendIgnored
  <1> QED BY <1>2, <1>3, <1>4, <1>5, <1>6

LEMMA TypeFrame ==
    /\ UNCHANGED client /\ ClientType => ClientType'
    /\ UNCHANGED transport /\ TransportType => TransportType'
    /\ UNCHANGED protocol /\ ProtocolType => ProtocolType'
    /\ UNCHANGED http /\ HttpType => HttpType'
    /\ UNCHANGED body /\ BodyType => BodyType'
    /\ UNCHANGED answer /\ AnswerType => AnswerType'
    /\ UNCHANGED wire /\ WireType => WireType'
  BY DEF client, transport, protocol, http, body, answer, ClientType,
         TransportType, ProtocolType, HttpType, BodyType, AnswerType, WireType

LEMMA DropTyped ==
    ASSUME NEW S, NEW s \in Seq(S), NEW m \in Nat \ {0}
    PROVE  SubSeq(s, m, Len(s)) \in Seq(S)
  <1>1. \A i \in m..Len(s) : s[i] \in S
     BY ElementOfSeq
  <1> QED BY <1>1, SubSeqProperties

LEMMA MessageTyped ==
    ASSUME NEW k \in KindType
    PROVE  Message(k) \in Seq(Tokens)
  <1>1. \A t \in {"byte", "size", "zero", "end", "junk"} : Token(t) \in Tokens
     BY DEF Token, Tokens, NoKind, KindType
  <1>2. BodyTokens(k) \in Seq(Tokens)
    <2>1. k.body \in Nat /\ k.framing \in {"none", "length", "chunked", "junk"}
       BY DEF KindType
    <2>2. [i \in 1..k.body |-> Token("byte")] \in Seq(Tokens)
       BY <1>1, <2>1, IsASeq
    <2>3. [i \in 1..(2 * k.body + 2) |->
             Token(IF i = 2 * k.body + 1 THEN "zero"
                   ELSE IF i = 2 * k.body + 2 THEN "end"
                   ELSE IF i % 2 = 1 THEN "size" ELSE "byte")] \in Seq(Tokens)
       BY <1>1, <2>1, IsASeq
    <2>4. <<Token("junk")>> \in Seq(Tokens)
       BY <1>1
    <2> QED BY <2>1, <2>2, <2>3, <2>4 DEF BodyTokens
  <1>3. <<Token("half"), [t |-> "head", kind |-> k]>> \in Seq(Tokens)
    <2>1. Token("half") \in Tokens /\ [t |-> "head", kind |-> k] \in Tokens
       BY DEF Token, Tokens, NoKind, KindType
    <2> QED BY <2>1
  <1> QED BY <1>2, <1>3, ConcatProperties DEF Message

LEMMA TypeStep ==
    ASSUME TypeOK, [Next]_vars, ConnectionAssumption
    PROVE  TypeOK'
  <1> USE DEF TypeOK
  <1>1. CASE HandlerRead
    <2>1. TaskType' /\ (pc' \in {"send", "write_wait"} <=> pending'.item # "none")
       BY <1>1 DEF HandlerRead, TaskType, Suspended, Waiting, Running, Frames,
          InHandler, Stages, Funcs
    <2>2. ClientType' /\ TransportType' /\ ProtocolType' /\ HttpType' /\ BodyType' /\ AnswerType' /\ WireType'
       BY <1>1, TypeFrame DEF HandlerRead
    <2> QED BY <2>1, <2>2
  <1>2. CASE HandlerRespond
    <2>1. HttpType'
       BY <1>2 DEF HandlerRespond, HttpType, Stages, InHandler
    <2>2. AnswerType'
       BY <1>2 DEF HandlerRespond, AnswerType, Funcs, InHandler
    <2>3. TaskType' /\ (pc' \in {"send", "write_wait"} <=> pending'.item # "none")
       BY <1>2 DEF HandlerRespond, TaskType, Suspended, Waiting, Running,
          Frames, InHandler, Stages, Funcs
    <2>4. ClientType' /\ TransportType' /\ ProtocolType' /\ BodyType' /\ WireType'
       BY <1>2, TypeFrame DEF HandlerRespond
    <2> QED BY <2>1, <2>2, <2>3, <2>4
  <1>3. CASE HandlerSend
    <2>1. pending.item = "none"
       BY <1>3 DEF HandlerSend, InHandler
    <2>2. /\ stage' \in Stages /\ expecting_continue' \in BOOLEAN
          /\ response_func' \in Funcs /\ response_bytes_left' \in Nat
          /\ TaskType'
          /\ pc' \in {"send", "write_wait"} <=> pending'.item # "none"
       BY <1>3, <2>1, SendTypes DEF HandlerSend, Frames
    <2>3. HttpType'
       BY <1>3, <2>2 DEF HandlerSend, HttpType
    <2>4. BodyType'
       BY <1>3, <2>2 DEF HandlerSend, BodyType
    <2>5. AnswerType'
       BY <1>3, <2>2 DEF HandlerSend, AnswerType
    <2>6. ClientType' /\ TransportType' /\ ProtocolType' /\ WireType'
       BY <1>3, TypeFrame DEF HandlerSend
    <2> QED BY <2>2, <2>3, <2>4, <2>5, <2>6
  <1>4. CASE HandlerRaise
    <2>1. TaskType' /\ (pc' \in {"send", "write_wait"} <=> pending'.item # "none")
       BY <1>4 DEF HandlerRaise, TaskType, Suspended, Waiting, Running,
          Frames, InHandler, Stages, Funcs
    <2>2. ClientType' /\ TransportType' /\ ProtocolType' /\ HttpType' /\ BodyType' /\ AnswerType' /\ WireType'
       BY <1>4, TypeFrame DEF HandlerRaise
    <2> QED BY <2>1, <2>2
  <1>5. CASE HandlerReturn
    <2>0. "tail" \in Frames /\ 0 \in 0..1 /\ TRUE \in BOOLEAN
       BY DEF Frames
    <2>1. pending.item = "none"
       BY <1>5 DEF HandlerReturn, InHandler
    <2>2. /\ stage' \in Stages /\ expecting_continue' \in BOOLEAN
          /\ response_func' \in Funcs /\ response_bytes_left' \in Nat
          /\ TaskType'
          /\ pc' \in {"send", "write_wait"} <=> pending'.item # "none"
       BY <1>5, <2>1, <2>0, SendTypes DEF HandlerReturn
    <2>3. HttpType'
       BY <1>5, <2>2 DEF HandlerReturn, HttpType
    <2>4. BodyType'
       BY <1>5, <2>2 DEF HandlerReturn, BodyType
    <2>5. AnswerType'
       BY <1>5, <2>2 DEF HandlerReturn, AnswerType
    <2>6. ClientType' /\ TransportType' /\ ProtocolType' /\ WireType'
       BY <1>5, TypeFrame DEF HandlerReturn
    <2> QED BY <2>2, <2>3, <2>4, <2>5, <2>6
  <1>6. CASE HandlerReturnWebsocket
    <2>1. TaskType' /\ (pc' \in {"send", "write_wait"} <=> pending'.item # "none")
       BY <1>6 DEF HandlerReturnWebsocket, TaskType, Suspended, Waiting,
          Running, Frames, InHandler, Stages, Funcs
    <2>2. ClientType' /\ TransportType' /\ ProtocolType' /\ HttpType' /\ BodyType' /\ AnswerType' /\ WireType'
       BY <1>6, TypeFrame DEF HandlerReturnWebsocket
    <2> QED BY <2>1, <2>2
  <1>7. CASE HandlerGivesUp
    <2>1. TaskType' /\ (pc' \in {"send", "write_wait"} <=> pending'.item # "none")
       BY <1>7 DEF HandlerGivesUp, TaskType, Suspended, Waiting, Running,
          Frames, Idle, Stages, Funcs
    <2>2. ClientType' /\ TransportType' /\ ProtocolType' /\ HttpType' /\ BodyType' /\ AnswerType' /\ WireType'
       BY <1>7, TypeFrame DEF HandlerGivesUp
    <2> QED BY <2>1, <2>2
  <1>8. CASE TaskStart
    <2>1. ProtocolType'
       BY <1>8 DEF TaskStart, ProtocolType
    <2>2. TaskType' /\ (pc' \in {"send", "write_wait"} <=> pending'.item # "none")
       BY <1>8 DEF TaskStart, TaskType, Suspended, Waiting, Running, Frames,
          Stages, Funcs
    <2>3. ClientType' /\ TransportType' /\ HttpType' /\ BodyType' /\ AnswerType' /\ WireType'
       BY <1>8, TypeFrame DEF TaskStart
    <2> QED BY <2>1, <2>2, <2>3
  <1>9. CASE Loop
    <2>1. TransportType'
       BY <1>9 DEF Loop, TransportType, ReceiveMore, NoKind, KindType
    <2>2. ProtocolType'
       BY <1>9 DEF Loop, ProtocolType, ReceiveMore
    <2>3. HttpType'
      <3>1. NoKind \in KindType
         BY DEF NoKind, KindType
      <3> QED BY <1>9, <3>1 DEF Loop, HttpType, Stages
    <2>4. BodyType'
      <3>1. CASE keep_alive /\ stage = "IDLE"
        <4>1. /\ request_body' = "none" /\ request_bytes_left' = 0
              /\ request_bytes' = 0
              /\ expecting_continue' = FALSE /\ lifted' = FALSE
           BY <1>9, <3>1 DEF Loop
        <4> QED BY <4>1 DEF BodyType
      <3>2. CASE ~(keep_alive /\ stage = "IDLE")
         BY <1>9, <3>2, TypeFrame DEF Loop
      <3> QED BY <3>1, <3>2
    <2>5. AnswerType'
       BY <1>9 DEF Loop, AnswerType, Funcs, ReceiveMore, NoKind, KindType
    <2>6. TaskType' /\ (pc' \in {"send", "write_wait"} <=> pending'.item # "none")
       BY <1>9 DEF Loop, TaskType, Suspended, Waiting, Running, Frames,
          ReceiveMore, NoKind, KindType, Stages, Funcs
    <2>7. ClientType' /\ WireType'
       BY <1>9, TypeFrame DEF Loop
    <2> QED BY <2>1, <2>2, <2>3, <2>4, <2>5, <2>6, <2>7
  <1>10. CASE IdleWake
    <2>1. HttpType'
       BY <1>10 DEF IdleWake, HttpType, Stages
    <2>2. AnswerType'
       BY <1>10 DEF IdleWake, AnswerType, Funcs
    <2>3. TaskType' /\ (pc' \in {"send", "write_wait"} <=> pending'.item # "none")
       BY <1>10 DEF IdleWake, TaskType, Suspended, Waiting, Running, Frames,
          Stages, Funcs
    <2>4. ClientType' /\ TransportType' /\ ProtocolType' /\ BodyType' /\ WireType'
       BY <1>10, TypeFrame DEF IdleWake
    <2> QED BY <2>1, <2>2, <2>3, <2>4
  <1>11. CASE ParseWait
    <2>1. TransportType'
       BY <1>11 DEF ParseWait, TransportType, ReceiveMore
    <2>2. ProtocolType'
       BY <1>11 DEF ParseWait, ProtocolType, ReceiveMore
    <2>3. TaskType' /\ (pc' \in {"send", "write_wait"} <=> pending'.item # "none")
       BY <1>11 DEF ParseWait, TaskType, Suspended, Waiting, Running, Frames,
          ReceiveMore, Stages, Funcs
    <2>4. ClientType' /\ HttpType' /\ BodyType' /\ AnswerType' /\ WireType'
       BY <1>11, TypeFrame DEF ParseWait
    <2> QED BY <2>1, <2>2, <2>3, <2>4
  <1>12. CASE HeaderWake
    <2>1. TaskType' /\ (pc' \in {"send", "write_wait"} <=> pending'.item # "none")
       BY <1>12 DEF HeaderWake, TaskType, Suspended, Waiting, Running, Frames,
          Stages, Funcs
    <2>2. ClientType' /\ TransportType' /\ ProtocolType' /\ HttpType' /\ BodyType' /\ AnswerType' /\ WireType'
       BY <1>12, TypeFrame DEF HeaderWake
    <2> QED BY <2>1, <2>2
  <1>13. CASE ParseBad
    <2>1. TaskType' /\ (pc' \in {"send", "write_wait"} <=> pending'.item # "none")
       BY <1>13 DEF ParseBad, TaskType, Suspended, Waiting, Running, Frames,
          Stages, Funcs
    <2>2. ClientType' /\ TransportType' /\ ProtocolType' /\ HttpType' /\ BodyType' /\ AnswerType' /\ WireType'
       BY <1>13, TypeFrame DEF ParseBad
    <2> QED BY <2>1, <2>2
  <1>14. CASE ParseGood
    <2>0. recv_buffer[2].kind \in KindType
      <3>1. recv_buffer[2] \in Tokens
         BY <1>14, ElementOfSeq DEF ParseGood, ProtocolType
      <3> QED BY <3>1 DEF Tokens
    <2>1. ProtocolType'
      <3>1. recv_buffer' \in Seq(Tokens)
         BY <1>14, DropTyped DEF ParseGood, ProtocolType
      <3> QED BY <1>14, <3>1 DEF ParseGood, ProtocolType
    <2>2. HttpType'
       BY <1>14, <2>0 DEF ParseGood, HttpType, Stages, KindType
    <2>3. BodyType'
       BY <1>14, <2>0 DEF ParseGood, BodyType, KindType
    <2>4. TaskType' /\ (pc' \in {"send", "write_wait"} <=> pending'.item # "none")
       BY <1>14 DEF ParseGood, TaskType, Suspended, Waiting, Running, Frames,
          HeadIncomplete, Tokens, KindType, Stages, Funcs
    <2>5. ClientType' /\ TransportType' /\ AnswerType' /\ WireType'
       BY <1>14, TypeFrame DEF ParseGood
    <2> QED BY <2>1, <2>2, <2>3, <2>4, <2>5
  <1>15. CASE Send
    <2>1. TaskType' /\ (pc' \in {"send", "write_wait"} <=> pending'.item # "none")
       BY <1>15 DEF Send, TaskType, Suspended, Waiting, Running, Frames,
          Stages, Funcs
    <2>2. ClientType' /\ TransportType' /\ ProtocolType' /\ HttpType' /\ BodyType' /\ AnswerType' /\ WireType'
       BY <1>15, TypeFrame DEF Send
    <2> QED BY <2>1, <2>2
  <1>16. CASE Write
    <2>0. /\ pending.item \in {"continue", "head", "whole", "data", "last"}
          /\ pending.stage \in Stages /\ pending.func \in Funcs
          /\ pending.left \in Nat
       BY <1>16 DEF Write, MayWrite, TaskType
    <2>1. TransportType'
       BY <1>16 DEF Write, TransportType
    <2>2. ProtocolType'
      <3>1. (write_buffer + 1 <= HighWater) \in BOOLEAN
         OBVIOUS
      <3> QED BY <1>16, <3>1 DEF Write, ProtocolType
    <2>3. HttpType'
       BY <1>16, <2>0 DEF Write, HttpType
    <2>4. AnswerType'
       BY <1>16, <2>0 DEF Write, AnswerType
    <2>5. TaskType' /\ (pc' \in {"send", "write_wait"} <=> pending'.item # "none")
       BY <1>16, FrameTypes DEF Write, TaskType, Suspended, Waiting, Running,
          Frames, Idle, WireType, MayWrite, Stages, Funcs
    <2>6. WireType'
      <3>1. [item |-> pending.item, cycle |-> cycle] \in
               [item : {"continue", "head", "whole", "data", "last"}, cycle : Nat]
         BY <2>0 DEF HttpType
      <3> QED BY <1>16, <3>1, AppendProperties DEF Write, WireType
    <2>7. ClientType' /\ BodyType'
       BY <1>16, TypeFrame DEF Write
    <2> QED BY <2>1, <2>2, <2>3, <2>4, <2>5, <2>6, <2>7
  <1>17. CASE WriteRefused
    <2>1. TaskType' /\ (pc' \in {"send", "write_wait"} <=> pending'.item # "none")
       BY <1>17, FrameTypes DEF WriteRefused, TaskType, Suspended, Waiting,
          Running, Frames, Idle, MayWrite, Stages, Funcs
    <2>2. ClientType' /\ TransportType' /\ ProtocolType' /\ HttpType' /\ BodyType' /\ AnswerType' /\ WireType'
       BY <1>17, TypeFrame DEF WriteRefused
    <2> QED BY <2>1, <2>2
  <1>18. CASE WriteCancelled
    <2>1. ProtocolType'
       BY <1>18 DEF WriteCancelled, ProtocolType, Idle
    <2>2. TaskType' /\ (pc' \in {"send", "write_wait"} <=> pending'.item # "none")
       BY <1>18, FrameTypes DEF WriteCancelled, TaskType, Suspended, Waiting,
          Running, Frames, Idle, Stages, Funcs
    <2>3. ClientType' /\ TransportType' /\ HttpType' /\ BodyType' /\ AnswerType' /\ WireType'
       BY <1>18, TypeFrame DEF WriteCancelled
    <2> QED BY <2>1, <2>2, <2>3
  <1>19. CASE ReadContinue
    <2>1. BodyType'
       BY <1>19 DEF ReadContinue, BodyType, BeginSend
    <2>2. TaskType' /\ (pc' \in {"send", "write_wait"} <=> pending'.item # "none")
       BY <1>19 DEF ReadContinue, TaskType, Suspended, Waiting, Running,
          BeginSend, HttpType, AnswerType
    <2>3. ClientType' /\ TransportType' /\ ProtocolType' /\ HttpType' /\ AnswerType' /\ WireType'
       BY <1>19, TypeFrame DEF ReadContinue
    <2> QED BY <2>1, <2>2, <2>3
  <1>20. CASE ReadWait
    <2>1. TransportType'
       BY <1>20 DEF ReadWait, TransportType, ReceiveMore
    <2>2. ProtocolType'
       BY <1>20 DEF ReadWait, ProtocolType, ReceiveMore
    <2>3. TaskType' /\ (pc' \in {"send", "write_wait"} <=> pending'.item # "none")
       BY <1>20, FrameTypes DEF ReadWait, TaskType, Suspended, Waiting,
          Running, Frames, ReceiveMore, Stages, Funcs
    <2>4. ClientType' /\ HttpType' /\ BodyType' /\ AnswerType' /\ WireType'
       BY <1>20, TypeFrame DEF ReadWait
    <2> QED BY <2>1, <2>2, <2>3, <2>4
  <1>21. CASE ReadChunkHeader
    <2>1. TransportType'
       BY <1>21 DEF ReadChunkHeader, TransportType, ReceiveMore
    <2>2. ProtocolType'
      <3>1. Tail(recv_buffer) \in Seq(Tokens)
         BY <1>21, HeadTailProperties DEF ReadChunkHeader, ProtocolType
      <3>2. SubSeq(recv_buffer, 3, Len(recv_buffer)) \in Seq(Tokens)
         BY DropTyped DEF ProtocolType
      <3>3. recv_buffer' \in Seq(Tokens)
         BY <1>21, <3>1, <3>2 DEF ReadChunkHeader, ProtocolType
      <3>4. data_received' \in BOOLEAN
         BY <1>21 DEF ReadChunkHeader, ProtocolType, ReceiveMore
      <3> QED BY <1>21, <3>3, <3>4 DEF ReadChunkHeader, ProtocolType
    <2>3. HttpType'
       BY <1>21, FrameTypes DEF ReadChunkHeader, HttpType, Stages, ReceiveMore
    <2>4. BodyType'
       BY <1>21, FrameTypes DEF ReadChunkHeader, BodyType, ReceiveMore
    <2>5. TaskType' /\ (pc' \in {"send", "write_wait"} <=> pending'.item # "none")
       BY <1>21, FrameTypes DEF ReadChunkHeader, TaskType, Suspended, Waiting,
          Running, Frames, ReceiveMore, Stages, Funcs
    <2>6. ClientType' /\ AnswerType' /\ WireType'
       BY <1>21, TypeFrame DEF ReadChunkHeader
    <2> QED BY <2>1, <2>2, <2>3, <2>4, <2>5, <2>6
  <1>22. CASE ReadTooLarge
    <2>1. HttpType'
       BY <1>22, FrameTypes DEF ReadTooLarge, HttpType, Stages
    <2>2. TaskType' /\ (pc' \in {"send", "write_wait"} <=> pending'.item # "none")
       BY <1>22, FrameTypes DEF ReadTooLarge, TaskType, Suspended, Waiting,
          Running, Frames, Stages, Funcs
    <2>3. ClientType' /\ TransportType' /\ ProtocolType' /\ BodyType' /\ AnswerType' /\ WireType'
       BY <1>22, TypeFrame DEF ReadTooLarge
    <2> QED BY <2>1, <2>2, <2>3
  <1>23. CASE ReadEnd
    <2>1. BodyType'
       BY <1>23, FrameTypes DEF ReadEnd, BodyType
    <2>2. TaskType' /\ (pc' \in {"send", "write_wait"} <=> pending'.item # "none")
       BY <1>23, FrameTypes DEF ReadEnd, TaskType, Suspended, Waiting,
          Running, Frames, Stages, Funcs
    <2>3. ClientType' /\ TransportType' /\ ProtocolType' /\ HttpType' /\ AnswerType' /\ WireType'
       BY <1>23, TypeFrame DEF ReadEnd
    <2> QED BY <2>1, <2>2, <2>3
  <1>24. CASE ReadData
    <2>1. ProtocolType'
      <3> DEFINE n == IF Len(recv_buffer) < request_bytes_left
                        THEN Len(recv_buffer) ELSE request_bytes_left
      <3>1. n + 1 \in Nat \ {0}
         BY LenProperties DEF ProtocolType, BodyType
      <3>2. SubSeq(recv_buffer, n + 1, Len(recv_buffer)) \in Seq(Tokens)
         BY <3>1, DropTyped DEF ProtocolType
      <3> QED BY <1>24, <3>2 DEF ReadData, ProtocolType
    <2>2. BodyType'
       BY <1>24, FrameTypes DEF ReadData, BodyType
    <2>3. TaskType' /\ (pc' \in {"send", "write_wait"} <=> pending'.item # "none")
       BY <1>24, FrameTypes DEF ReadData, TaskType, Suspended, Waiting,
          Running, Frames, Stages, Funcs
    <2>4. ClientType' /\ TransportType' /\ HttpType' /\ AnswerType' /\ WireType'
       BY <1>24, TypeFrame DEF ReadData
    <2> QED BY <2>1, <2>2, <2>3, <2>4
  <1>25. CASE ReadWake
    <2>1. TaskType' /\ (pc' \in {"send", "write_wait"} <=> pending'.item # "none")
       BY <1>25 DEF ReadWake, TaskType, Suspended, Waiting, Running, Frames,
          Stages, Funcs
    <2>2. ClientType' /\ TransportType' /\ ProtocolType' /\ HttpType' /\ BodyType' /\ AnswerType' /\ WireType'
       BY <1>25, TypeFrame DEF ReadWake
    <2> QED BY <2>1, <2>2
  <1>26. CASE ReadEndWake
    <2>1. ProtocolType'
       BY <1>26 DEF ReadEndWake, ProtocolType
    <2>2. TaskType' /\ (pc' \in {"send", "write_wait"} <=> pending'.item # "none")
       BY <1>26, FrameTypes DEF ReadEndWake, TaskType, Suspended, Waiting,
          Running, Frames, Stages, Funcs
    <2>3. ClientType' /\ TransportType' /\ HttpType' /\ BodyType' /\ AnswerType' /\ WireType'
       BY <1>26, TypeFrame DEF ReadEndWake
    <2> QED BY <2>1, <2>2, <2>3
  <1>27. CASE HandleException
    <2>1. pending.item = "none"
       BY <1>27 DEF HandleException
    <2>2. /\ stage' \in Stages /\ expecting_continue' \in BOOLEAN
          /\ response_func' \in Funcs /\ response_bytes_left' \in Nat
          /\ TaskType'
          /\ pc' \in {"send", "write_wait"} <=> pending'.item # "none"
      <3>1. CASE stage = "HANDLER"
        <4>1. "herr" \in Frames /\ 0 \in 0..1 /\ TRUE \in BOOLEAN
           BY <1>27 DEF HandleException, Frames
        <4> QED BY <1>27, <2>1, <3>1, <4>1, SendTypes DEF HandleException
      <3>2. CASE ~(stage = "HANDLER")
         BY <1>27, <2>1, <3>2 DEF HandleException, HttpType, BodyType, AnswerType,
            TaskType, Stages, Suspended, Waiting, Running
      <3> QED BY <3>1, <3>2
    <2>3. HttpType'
       BY <1>27, <2>2 DEF HandleException, HttpType
    <2>4. BodyType'
       BY <1>27, <2>2 DEF HandleException, BodyType
    <2>5. AnswerType'
       BY <1>27, <2>2 DEF HandleException, AnswerType
    <2>6. ClientType' /\ TransportType' /\ ProtocolType' /\ WireType'
       BY <1>27, TypeFrame DEF HandleException
    <2> QED BY <2>2, <2>3, <2>4, <2>5, <2>6
  <1>28. CASE After
    <2>1. pending.item = "none"
       BY <1>28 DEF After
    <2>2. /\ stage' \in Stages /\ expecting_continue' \in BOOLEAN
          /\ response_func' \in Funcs /\ response_bytes_left' \in Nat
          /\ TaskType'
          /\ pc' \in {"send", "write_wait"} <=> pending'.item # "none"
      <3>1. CASE stage = "RESPONSE"
        <4>1. "final" \in Frames /\ 0 \in 0..1 /\ TRUE \in BOOLEAN
           BY <1>28 DEF After, Frames
        <4> QED BY <1>28, <2>1, <3>1, <4>1, SendTypes DEF After
      <3>2. CASE ~(stage = "RESPONSE")
         BY <1>28, <2>1, <3>2 DEF After, HttpType, BodyType, AnswerType,
            TaskType, Stages, Suspended, Waiting, Running
      <3> QED BY <3>1, <3>2
    <2>3. HttpType'
       BY <1>28, <2>2 DEF After, HttpType
    <2>4. BodyType'
       BY <1>28, <2>2 DEF After, BodyType
    <2>5. AnswerType'
       BY <1>28, <2>2 DEF After, AnswerType
    <2>6. ClientType' /\ TransportType' /\ ProtocolType' /\ WireType'
       BY <1>28, TypeFrame DEF After
    <2> QED BY <2>2, <2>3, <2>4, <2>5, <2>6
  <1>29. CASE CancelBranch
    <2>1. HttpType'
       BY <1>29 DEF CancelBranch, HttpType, Stages
    <2>2. TaskType' /\ (pc' \in {"send", "write_wait"} <=> pending'.item # "none")
       BY <1>29 DEF CancelBranch, TaskType, Suspended, Waiting, Running,
          Frames, Stages, Funcs
    <2>3. ClientType' /\ TransportType' /\ ProtocolType' /\ BodyType' /\ AnswerType' /\ WireType'
       BY <1>29, TypeFrame DEF CancelBranch
    <2> QED BY <2>1, <2>2, <2>3
  <1>30. CASE ErrorResponse
    <2>1. HttpType'
       BY <1>30 DEF ErrorResponse, HttpType, Stages
    <2>2. TaskType' /\ (pc' \in {"send", "write_wait"} <=> pending'.item # "none")
       BY <1>30 DEF ErrorResponse, TaskType, Suspended, Waiting, Running,
          Frames, Stages, Funcs
    <2>3. ClientType' /\ TransportType' /\ ProtocolType' /\ BodyType' /\ AnswerType' /\ WireType'
       BY <1>30, TypeFrame DEF ErrorResponse
    <2> QED BY <2>1, <2>2, <2>3
  <1>31. CASE ErrorHandled
    <2>1. pending.item = "none"
       BY <1>31 DEF ErrorHandled
    <2>2. /\ stage' \in Stages /\ expecting_continue' \in BOOLEAN
          /\ response_func' \in Funcs /\ response_bytes_left' \in Nat
          /\ TaskType'
          /\ pc' \in {"send", "write_wait"} <=> pending'.item # "none"
      <3>1. CASE stage = "HANDLER"
        <4>1. pc \in Frames /\ 0 \in 0..1 /\ TRUE \in BOOLEAN
           BY <1>31 DEF ErrorHandled, Frames
        <4> QED BY <1>31, <2>1, <3>1, <4>1, SendTypes DEF ErrorHandled
      <3>2. CASE ~(stage = "HANDLER")
         BY <1>31, <2>1, <3>2 DEF ErrorHandled, HttpType, BodyType, AnswerType,
            TaskType, Stages, Suspended, Waiting, Running
      <3> QED BY <3>1, <3>2
    <2>3. HttpType'
       BY <1>31, <2>2 DEF ErrorHandled, HttpType
    <2>4. BodyType'
       BY <1>31, <2>2 DEF ErrorHandled, BodyType
    <2>5. AnswerType'
       BY <1>31, <2>2 DEF ErrorHandled, AnswerType
    <2>6. ClientType' /\ TransportType' /\ ProtocolType' /\ WireType'
       BY <1>31, TypeFrame DEF ErrorHandled
    <2> QED BY <2>2, <2>3, <2>4, <2>5, <2>6
  <1>32. CASE Drain
    <2>1. BodyType'
       BY <1>32 DEF Drain, BodyType
    <2>2. TaskType' /\ (pc' \in {"send", "write_wait"} <=> pending'.item # "none")
       BY <1>32 DEF Drain, TaskType, Suspended, Waiting, Running, Frames,
          Stages, Funcs
    <2>3. ClientType' /\ TransportType' /\ ProtocolType' /\ HttpType' /\ AnswerType' /\ WireType'
       BY <1>32, TypeFrame DEF Drain
    <2> QED BY <2>1, <2>2, <2>3
  <1>33. CASE NapEnd
    <2>1. TaskType' /\ (pc' \in {"send", "write_wait"} <=> pending'.item # "none")
       BY <1>33 DEF NapEnd, TaskType, Suspended, Waiting, Running, Frames,
          Stages, Funcs
    <2>2. ClientType' /\ TransportType' /\ ProtocolType' /\ HttpType' /\ BodyType' /\ AnswerType' /\ WireType'
       BY <1>33, TypeFrame DEF NapEnd
    <2> QED BY <2>1, <2>2
  <1>34. CASE Cancelled
    <2>1. ProtocolType'
       BY <1>34 DEF Cancelled, ProtocolType, CancelAt
    <2>2. TaskType' /\ (pc' \in {"send", "write_wait"} <=> pending'.item # "none")
       BY <1>34, FrameTypes DEF Cancelled, TaskType, Suspended, Waiting,
          Running, Frames, CancelAt, Stages, Funcs
    <2>3. ClientType' /\ TransportType' /\ HttpType' /\ BodyType' /\ AnswerType' /\ WireType'
       BY <1>34, TypeFrame DEF Cancelled
    <2> QED BY <2>1, <2>2, <2>3
  <1>35. CASE Finish
    <2>1. TransportType'
       BY <1>35 DEF Finish, TransportType, Close
    <2>2. ProtocolType'
       BY <1>35 DEF Finish, ProtocolType, Close
    <2>3. TaskType' /\ (pc' \in {"send", "write_wait"} <=> pending'.item # "none")
       BY <1>35 DEF Finish, TaskType, Suspended, Waiting, Running, Frames,
          Close, Stages, Funcs
    <2>4. ClientType' /\ HttpType' /\ BodyType' /\ AnswerType' /\ WireType'
       BY <1>35, TypeFrame DEF Finish
    <2> QED BY <2>1, <2>2, <2>3, <2>4
  <1>36. CASE ClientRequest
    <2>1. ClientType'
      <3>1. PICK k \in Kinds : planned' = Message(k)
         BY <1>36 DEF ClientRequest
      <3>2. planned' \in Seq(Tokens)
         BY <3>1, MessageTyped DEF ConnectionAssumption
      <3> QED BY <1>36, <3>2 DEF ClientRequest, ClientType
    <2>2. TaskType' /\ (pc' \in {"send", "write_wait"} <=> pending'.item # "none")
       BY <1>36 DEF ClientRequest, TaskType, task
    <2>3. TransportType' /\ ProtocolType' /\ HttpType' /\ BodyType' /\ AnswerType' /\ WireType'
       BY <1>36, TypeFrame DEF ClientRequest, task
    <2> QED BY <2>1, <2>2, <2>3
  <1>37. CASE DataReceived
    <2>1. ClientType'
       BY <1>37 DEF DataReceived, ClientType
    <2>2. TransportType'
       BY <1>37 DEF DataReceived, TransportType
    <2>3. ProtocolType'
      <3>1. Head(planned) \in Tokens
         BY <1>37, HeadTailProperties DEF DataReceived, ClientType
      <3>2. recv_buffer' \in Seq(Tokens)
         BY <1>37, <3>1, AppendProperties DEF DataReceived, ProtocolType
      <3> QED BY <1>37, <3>2 DEF DataReceived, ProtocolType
    <2>4. TaskType' /\ (pc' \in {"send", "write_wait"} <=> pending'.item # "none")
       BY <1>37 DEF DataReceived, TaskType, task
    <2>5. HttpType' /\ BodyType' /\ AnswerType' /\ WireType'
       BY <1>37, TypeFrame DEF DataReceived, task
    <2> QED BY <2>1, <2>2, <2>3, <2>4, <2>5
  <1>38. CASE PeerClosed
    <2>1. TransportType'
       BY <1>38 DEF PeerClosed, TransportType
    <2>2. TaskType' /\ (pc' \in {"send", "write_wait"} <=> pending'.item # "none")
       BY <1>38 DEF PeerClosed, TaskType, task
    <2>3. ClientType' /\ ProtocolType' /\ HttpType' /\ BodyType' /\ AnswerType' /\ WireType'
       BY <1>38, TypeFrame DEF PeerClosed, task
    <2> QED BY <2>1, <2>2, <2>3
  <1>39. CASE SocketDrain
    <2>1. TransportType'
       BY <1>39 DEF SocketDrain, TransportType
    <2>2. ProtocolType'
       BY <1>39 DEF SocketDrain, ProtocolType
    <2>3. TaskType' /\ (pc' \in {"send", "write_wait"} <=> pending'.item # "none")
       BY <1>39 DEF SocketDrain, TaskType, task
    <2>4. ClientType' /\ HttpType' /\ BodyType' /\ AnswerType' /\ WireType'
       BY <1>39, TypeFrame DEF SocketDrain, task
    <2> QED BY <2>1, <2>2, <2>3, <2>4
  <1>40. CASE ConnectionLost
    <2>1. TransportType'
       BY <1>40 DEF ConnectionLost, TransportType
    <2>2. ProtocolType'
       BY <1>40 DEF ConnectionLost, ProtocolType
    <2>3. TaskType' /\ (pc' \in {"send", "write_wait"} <=> pending'.item # "none")
       BY <1>40 DEF ConnectionLost, TaskType, task
    <2>4. ClientType' /\ HttpType' /\ BodyType' /\ AnswerType' /\ WireType'
       BY <1>40, TypeFrame DEF ConnectionLost, task
    <2> QED BY <2>1, <2>2, <2>3, <2>4
  <1>41. CASE TimePasses
    <2>1. ProtocolType'
       BY <1>41 DEF TimePasses, ProtocolType
    <2>2. TaskType' /\ (pc' \in {"send", "write_wait"} <=> pending'.item # "none")
       BY <1>41 DEF TimePasses, TaskType, task
    <2>3. ClientType' /\ TransportType' /\ HttpType' /\ BodyType' /\ AnswerType' /\ WireType'
       BY <1>41, TypeFrame DEF TimePasses, task
    <2> QED BY <2>1, <2>2, <2>3
  <1>42. CASE CheckTimeouts
    <2>1. ProtocolType'
       BY <1>42 DEF CheckTimeouts, ProtocolType
    <2>2. HttpType'
       BY <1>42 DEF CheckTimeouts, HttpType, Stages
    <2>3. TaskType' /\ (pc' \in {"send", "write_wait"} <=> pending'.item # "none")
       BY <1>42 DEF CheckTimeouts, TaskType, task
    <2>4. ClientType' /\ TransportType' /\ BodyType' /\ AnswerType' /\ WireType'
       BY <1>42, TypeFrame DEF CheckTimeouts, task
    <2> QED BY <2>1, <2>2, <2>3, <2>4
  <1>43. CASE CheckClosed
    <2>1. ProtocolType'
       BY <1>43 DEF CheckClosed, ProtocolType
    <2>2. TaskType' /\ (pc' \in {"send", "write_wait"} <=> pending'.item # "none")
       BY <1>43 DEF CheckClosed, TaskType, task
    <2>3. ClientType' /\ TransportType' /\ HttpType' /\ BodyType' /\ AnswerType' /\ WireType'
       BY <1>43, TypeFrame DEF CheckClosed, task
    <2> QED BY <2>1, <2>2, <2>3
  <1>44. CASE CloserAbort
    <2>1. TransportType'
       BY <1>44 DEF CloserAbort, TransportType, Abort
    <2>2. ProtocolType'
       BY <1>44 DEF CloserAbort, ProtocolType, Abort
    <2>3. TaskType' /\ (pc' \in {"send", "write_wait"} <=> pending'.item # "none")
       BY <1>44 DEF CloserAbort, TaskType, task
    <2>4. ClientType' /\ HttpType' /\ BodyType' /\ AnswerType' /\ WireType'
       BY <1>44, TypeFrame DEF CloserAbort, task
    <2> QED BY <2>1, <2>2, <2>3, <2>4
  <1>45. CASE ShutdownBegin
    <2>1. ClientType'
       BY <1>45 DEF ShutdownBegin, ClientType, Close
    <2>2. TransportType'
       BY <1>45 DEF ShutdownBegin, TransportType, Close
    <2>3. ProtocolType'
       BY <1>45 DEF ShutdownBegin, ProtocolType, Close
    <2>4. TaskType' /\ (pc' \in {"send", "write_wait"} <=> pending'.item # "none")
       BY <1>45 DEF ShutdownBegin, TaskType, task
    <2>5. HttpType' /\ BodyType' /\ AnswerType' /\ WireType'
       BY <1>45, TypeFrame DEF ShutdownBegin, task
    <2> QED BY <2>1, <2>2, <2>3, <2>4, <2>5
  <1>46. CASE ShutdownAbort
    <2>1. TransportType'
       BY <1>46 DEF ShutdownAbort, TransportType, Abort
    <2>2. ProtocolType'
       BY <1>46 DEF ShutdownAbort, ProtocolType, Abort
    <2>3. TaskType' /\ (pc' \in {"send", "write_wait"} <=> pending'.item # "none")
       BY <1>46 DEF ShutdownAbort, TaskType, task
    <2>4. ClientType' /\ HttpType' /\ BodyType' /\ AnswerType' /\ WireType'
       BY <1>46, TypeFrame DEF ShutdownAbort, task
    <2> QED BY <2>1, <2>2, <2>3, <2>4
  <1>47. CASE UNCHANGED vars
    <2>1. TaskType' /\ (pc' \in {"send", "write_wait"} <=> pending'.item # "none")
       BY <1>47 DEF vars, task, TaskType
    <2>2. /\ ClientType' /\ TransportType' /\ ProtocolType' /\ HttpType'
          /\ BodyType' /\ AnswerType' /\ WireType'
       BY <1>47, TypeFrame DEF vars, task
    <2> QED BY <2>1, <2>2
  <1> QED
     BY <1>1, <1>2, <1>3, <1>4, <1>5, <1>6, <1>7, <1>8, <1>9, <1>10, <1>11,
        <1>12, <1>13, <1>14, <1>15, <1>16, <1>17, <1>18, <1>19, <1>20,
        <1>21, <1>22, <1>23, <1>24, <1>25, <1>26, <1>27, <1>28, <1>29,
        <1>30, <1>31, <1>32, <1>33, <1>34, <1>35, <1>36, <1>37, <1>38,
        <1>39, <1>40, <1>41, <1>42, <1>43, <1>44, <1>45, <1>46, <1>47 DEF
        Next, Handler, TaskStep, Peer, Loopback, Shutdown

LEMMA TypeInit == Init /\ ConnectionAssumption => TypeOK
  <1> SUFFICES ASSUME Init PROVE TypeOK
     OBVIOUS
  <1>1. NoKind \in KindType
     BY DEF NoKind, KindType
  <1>2. ClientType /\ TransportType /\ ProtocolType
    <2>1. <<>> \in Seq(Tokens)
       OBVIOUS
    <2> QED BY <2>1 DEF Init, ClientType, TransportType, ProtocolType
  <1>3. HttpType /\ BodyType /\ AnswerType
     BY <1>1 DEF Init, HttpType, BodyType, AnswerType, Stages, Funcs
  <1>4. TaskType /\ WireType /\ pending.item = "none" /\ pc = "start"
     BY DEF Init, TaskType, WireType, Idle, Stages, Funcs, Suspended, Frames
  <1> QED BY <1>2, <1>3, <1>4 DEF TypeOK

\* Type correctness: every variable keeps its type, and a write is pending exactly
\* while the task is inside protocol.send().
THEOREM TypeCorrect == Spec => []TypeOK
  <1>1. Init => TypeOK
     BY TypeInit, ConnectionAssumption
  <1>2. TypeOK /\ [Next]_vars => TypeOK'
     BY TypeStep, ConnectionAssumption
  <1> QED BY <1>1, <1>2, PTL DEF Spec

------------------------------------------------------------------------------
(* The transport and the task *)

\* The strengthening NeverLeftOpen needs: the protocol lets go of its transport
\* only when it closes, and a task that has not started can only be cancelled by
\* connection_lost, since its timeouts do not run yet.
Lifecycle ==
    /\ ~attached => tr # "open"
    /\ pc = "start" => ~timer
    /\ pc = "start" /\ cancelled => tr = "lost"
    /\ NeverLeftOpen

\* Where control is after a step that sends: in the send, or where the frame that
\* sends returns or raises.
Targets == {"send", "handler", "after", "drain", "herr", "fail", "err2", "finish"}

LEMMA SendTargets ==
    HandlerSend \/ HandlerReturn \/ HandleException \/ After \/ ErrorHandled
       => pc' \in Targets
  <1>1. ASSUME NEW c \in Frames, NEW d, NEW end, ResponseSend(c, d, end)
        PROVE  pc' \in Targets
     BY <1>1, FrameTypes DEF ResponseSend, SendHeader, SendBody, SendIgnored,
        BeginSend, Targets
  <1>2. /\ {"handler", "tail", "herr", "final"} \subseteq Frames
        /\ pc \in {"err1", "err2"} => pc \in Frames
     BY DEF Frames
  <1>3. HandlerSend => pc' \in Targets
     BY <1>1, <1>2 DEF HandlerSend
  <1>4. HandlerReturn => pc' \in Targets
     BY <1>1, <1>2 DEF HandlerReturn
  <1>5. HandleException => pc' \in Targets
     BY <1>1, <1>2 DEF HandleException, Targets
  <1>6. After => pc' \in Targets
     BY <1>1, <1>2 DEF After, Targets
  <1>7. ErrorHandled => pc' \in Targets
     BY <1>1, <1>2 DEF ErrorHandled, Targets
  <1> QED BY <1>3, <1>4, <1>5, <1>6, <1>7

LEMMA LifecycleStep ==
    ASSUME TypeOK, Lifecycle, [Next]_vars
    PROVE  Lifecycle'
  <1>0. ctx \in Frames
     BY DEF TypeOK, TaskType
  <1>1. CASE HandlerRead
     BY <1>1, <1>0 DEF HandlerRead, InHandler, transport, protocol, Lifecycle,
        NeverLeftOpen
  <1>2. CASE HandlerRespond
     BY <1>2, <1>0 DEF HandlerRespond, InHandler, transport, protocol,
        Lifecycle, NeverLeftOpen
  <1>3. CASE HandlerSend
     BY <1>3, SendTargets DEF Targets, HandlerSend, InHandler, transport,
        protocol, Lifecycle, NeverLeftOpen
  <1>4. CASE HandlerRaise
     BY <1>4, <1>0 DEF HandlerRaise, InHandler, transport, protocol, Lifecycle,
        NeverLeftOpen
  <1>5. CASE HandlerReturn
     BY <1>5, SendTargets DEF Targets, HandlerReturn, InHandler, transport,
        protocol, Lifecycle, NeverLeftOpen
  <1>6. CASE HandlerReturnWebsocket
     BY <1>6, <1>0 DEF HandlerReturnWebsocket, InHandler, transport, protocol,
        Lifecycle, NeverLeftOpen
  <1>7. CASE HandlerGivesUp
     BY <1>7, <1>0 DEF HandlerGivesUp, transport, protocol, Lifecycle, NeverLeftOpen
  <1>8. CASE TaskStart
     BY <1>8, <1>0 DEF TaskStart, transport, Lifecycle, NeverLeftOpen
  <1>9. CASE Loop
     BY <1>9, <1>0 DEF Loop, ReceiveMore, Lifecycle, NeverLeftOpen
  <1>10. CASE IdleWake
     BY <1>10, <1>0 DEF IdleWake, transport, protocol, Lifecycle, NeverLeftOpen
  <1>11. CASE ParseWait
     BY <1>11, <1>0 DEF ParseWait, ReceiveMore, Lifecycle, NeverLeftOpen
  <1>12. CASE HeaderWake
     BY <1>12, <1>0 DEF HeaderWake, transport, protocol, Lifecycle, NeverLeftOpen
  <1>13. CASE ParseBad
     BY <1>13, <1>0 DEF ParseBad, transport, protocol, Lifecycle, NeverLeftOpen
  <1>14. CASE ParseGood
     BY <1>14, <1>0 DEF ParseGood, transport, Lifecycle, NeverLeftOpen
  <1>15. CASE Send
     BY <1>15, <1>0 DEF Send, transport, protocol, Lifecycle, NeverLeftOpen
  <1>16. CASE Write
     BY <1>16, <1>0, FrameTypes DEF Write, MayWrite, Lifecycle, NeverLeftOpen
  <1>17. CASE WriteRefused
     BY <1>17, <1>0, FrameTypes DEF WriteRefused, MayWrite, transport,
        protocol, Lifecycle, NeverLeftOpen
  <1>18. CASE WriteCancelled
     BY <1>18, <1>0, FrameTypes DEF WriteCancelled, transport, Lifecycle, NeverLeftOpen
  <1>19. CASE ReadContinue
     BY <1>19, <1>0 DEF ReadContinue, BeginSend, transport, protocol,
        Lifecycle, NeverLeftOpen
  <1>20. CASE ReadWait
     BY <1>20, <1>0, FrameTypes DEF ReadWait, ReceiveMore, Lifecycle, NeverLeftOpen
  <1>21. CASE ReadChunkHeader
     BY <1>21, <1>0, FrameTypes DEF ReadChunkHeader, ReceiveMore, Lifecycle,
        NeverLeftOpen
  <1>22. CASE ReadTooLarge
     BY <1>22, <1>0, FrameTypes DEF ReadTooLarge, transport, protocol,
        Lifecycle, NeverLeftOpen
  <1>23. CASE ReadEnd
     BY <1>23, <1>0, FrameTypes DEF ReadEnd, transport, protocol, Lifecycle,
        NeverLeftOpen
  <1>24. CASE ReadData
     BY <1>24, <1>0, FrameTypes DEF ReadData, transport, Lifecycle, NeverLeftOpen
  <1>25. CASE ReadWake
     BY <1>25, <1>0 DEF ReadWake, transport, protocol, Lifecycle, NeverLeftOpen
  <1>26. CASE ReadEndWake
     BY <1>26, <1>0, FrameTypes DEF ReadEndWake, transport, Lifecycle, NeverLeftOpen
  <1>27. CASE HandleException
     BY <1>27, SendTargets DEF Targets, HandleException, transport, protocol,
        Lifecycle, NeverLeftOpen
  <1>28. CASE After
     BY <1>28, SendTargets DEF Targets, After, transport, protocol, Lifecycle,
        NeverLeftOpen
  <1>29. CASE CancelBranch
     BY <1>29, <1>0 DEF CancelBranch, transport, protocol, Lifecycle, NeverLeftOpen
  <1>30. CASE ErrorResponse
     BY <1>30, <1>0 DEF ErrorResponse, transport, protocol, Lifecycle, NeverLeftOpen
  <1>31. CASE ErrorHandled
     BY <1>31, SendTargets DEF Targets, ErrorHandled, transport, protocol,
        Lifecycle, NeverLeftOpen
  <1>32. CASE Drain
     BY <1>32, <1>0 DEF Drain, transport, protocol, Lifecycle, NeverLeftOpen
  <1>33. CASE NapEnd
     BY <1>33, <1>0 DEF NapEnd, transport, protocol, Lifecycle, NeverLeftOpen
  <1>34. CASE Cancelled
     BY <1>34, <1>0, FrameTypes DEF Cancelled, CancelAt, transport, Lifecycle,
        NeverLeftOpen
  <1>35. CASE Finish
     BY <1>35, <1>0 DEF Finish, Close, Lifecycle, NeverLeftOpen
  <1>36. CASE ClientRequest
     BY <1>36, <1>0 DEF ClientRequest, task, transport, protocol, Lifecycle,
        NeverLeftOpen
  <1>37. CASE DataReceived
     BY <1>37, <1>0 DEF DataReceived, AtAwait, Suspended, Waiting, task,
        Lifecycle, NeverLeftOpen
  <1>38. CASE PeerClosed
     BY <1>38, <1>0 DEF PeerClosed, AtAwait, Suspended, Waiting, task,
        protocol, Lifecycle, NeverLeftOpen
  <1>39. CASE SocketDrain
     BY <1>39, <1>0 DEF SocketDrain, AtAwait, Suspended, Waiting, task,
        Lifecycle, NeverLeftOpen
  <1>40. CASE ConnectionLost
     BY <1>40, <1>0 DEF ConnectionLost, AtAwait, Suspended, Waiting, task,
        Lifecycle, NeverLeftOpen
  <1>41. CASE TimePasses
     BY <1>41, <1>0 DEF TimePasses, AtAwait, Suspended, Waiting, task,
        transport, Lifecycle, NeverLeftOpen
  <1>42. CASE CheckTimeouts
     BY <1>42, <1>0 DEF CheckTimeouts, AtAwait, Suspended, Waiting, task,
        transport, Lifecycle, NeverLeftOpen
  <1>43. CASE CheckClosed
     BY <1>43, <1>0 DEF CheckClosed, AtAwait, Suspended, Waiting, task,
        transport, Lifecycle, NeverLeftOpen
  <1>44. CASE CloserAbort
     BY <1>44, <1>0 DEF CloserAbort, Abort, AtAwait, Suspended, Waiting, task,
        Lifecycle, NeverLeftOpen
  <1>45. CASE ShutdownBegin
     BY <1>45, <1>0 DEF ShutdownBegin, Close, AtAwait, Suspended, Waiting,
        task, Lifecycle, NeverLeftOpen
  <1>46. CASE ShutdownAbort
     BY <1>46, <1>0 DEF ShutdownAbort, Abort, AtAwait, Suspended, Waiting,
        task, Lifecycle, NeverLeftOpen
  <1>47. CASE UNCHANGED vars
     BY <1>47 DEF vars, transport, protocol, task, Lifecycle, NeverLeftOpen
  <1> QED
     BY <1>1, <1>2, <1>3, <1>4, <1>5, <1>6, <1>7, <1>8, <1>9, <1>10, <1>11,
        <1>12, <1>13, <1>14, <1>15, <1>16, <1>17, <1>18, <1>19, <1>20, <1>21,
        <1>22, <1>23, <1>24, <1>25, <1>26, <1>27, <1>28, <1>29, <1>30, <1>31,
        <1>32, <1>33, <1>34, <1>35, <1>36, <1>37, <1>38, <1>39, <1>40, <1>41,
        <1>42, <1>43, <1>44, <1>45, <1>46, <1>47 DEF
        Next, Handler, TaskStep, Peer, Loopback, Shutdown

LEMMA LifecycleAlways == Spec => []Lifecycle
  <1>1. Init => Lifecycle
     BY DEF Init, Lifecycle, NeverLeftOpen
  <1>2. TypeOK /\ Lifecycle /\ [Next]_vars => Lifecycle'
     BY LifecycleStep
  <1> QED BY <1>1, <1>2, TypeCorrect, PTL DEF Spec

\* Whatever ends the task -- a client gone, a timeout, an error in the error
\* handler, a cancel before its first step -- its transport is closing by then.
THEOREM NeverLeft == Spec => []NeverLeftOpen
  <1>1. Lifecycle => NeverLeftOpen
     BY DEF Lifecycle
  <1> QED BY <1>1, LifecycleAlways, PTL

LEMMA StarvationStep ==
    ASSUME TypeOK, NoStarvation, [Next]_vars
    PROVE  NoStarvation'
  <1>0. ctx \in Frames
     BY DEF TypeOK, TaskType
  <1>1. CASE HandlerRead
     BY <1>1, <1>0 DEF HandlerRead, InHandler, transport, protocol,
        NoStarvation, Waiting
  <1>2. CASE HandlerRespond
     BY <1>2, <1>0 DEF HandlerRespond, InHandler, transport, protocol,
        NoStarvation, Waiting
  <1>3. CASE HandlerSend
     BY <1>3, SendTargets DEF Targets, HandlerSend, InHandler, transport,
        protocol, NoStarvation, Waiting
  <1>4. CASE HandlerRaise
     BY <1>4, <1>0 DEF HandlerRaise, InHandler, transport, protocol,
        NoStarvation, Waiting
  <1>5. CASE HandlerReturn
     BY <1>5, SendTargets DEF Targets, HandlerReturn, InHandler, transport,
        protocol, NoStarvation, Waiting
  <1>6. CASE HandlerReturnWebsocket
     BY <1>6, <1>0 DEF HandlerReturnWebsocket, InHandler, transport, protocol,
        NoStarvation, Waiting
  <1>7. CASE HandlerGivesUp
     BY <1>7, <1>0 DEF HandlerGivesUp, transport, protocol, NoStarvation, Waiting
  <1>8. CASE TaskStart
     BY <1>8, <1>0 DEF TaskStart, transport, NoStarvation, Waiting
  <1>9. CASE Loop
     BY <1>9, <1>0 DEF Loop, ReceiveMore, NoStarvation, Waiting
  <1>10. CASE IdleWake
     BY <1>10, <1>0 DEF IdleWake, transport, protocol, NoStarvation, Waiting
  <1>11. CASE ParseWait
     BY <1>11, <1>0 DEF ParseWait, ReceiveMore, NoStarvation, Waiting
  <1>12. CASE HeaderWake
     BY <1>12, <1>0 DEF HeaderWake, transport, protocol, NoStarvation, Waiting
  <1>13. CASE ParseBad
     BY <1>13, <1>0 DEF ParseBad, transport, protocol, NoStarvation, Waiting
  <1>14. CASE ParseGood
     BY <1>14, <1>0 DEF ParseGood, transport, NoStarvation, Waiting
  <1>15. CASE Send
     BY <1>15, <1>0 DEF Send, transport, protocol, NoStarvation, Waiting
  <1>16. CASE Write
     BY <1>16, <1>0, FrameTypes DEF Write, MayWrite, NoStarvation, Waiting
  <1>17. CASE WriteRefused
     BY <1>17, <1>0, FrameTypes DEF WriteRefused, MayWrite, transport,
        protocol, NoStarvation, Waiting
  <1>18. CASE WriteCancelled
     BY <1>18, <1>0, FrameTypes DEF WriteCancelled, transport, NoStarvation, Waiting
  <1>19. CASE ReadContinue
     BY <1>19, <1>0 DEF ReadContinue, BeginSend, transport, protocol,
        NoStarvation, Waiting
  <1>20. CASE ReadWait
     BY <1>20, <1>0, FrameTypes DEF ReadWait, ReceiveMore, NoStarvation, Waiting
  <1>21. CASE ReadChunkHeader
     BY <1>21, <1>0, FrameTypes DEF ReadChunkHeader, ReceiveMore, NoStarvation, Waiting
  <1>22. CASE ReadTooLarge
     BY <1>22, <1>0, FrameTypes DEF ReadTooLarge, transport, protocol,
        NoStarvation, Waiting
  <1>23. CASE ReadEnd
     BY <1>23, <1>0, FrameTypes DEF ReadEnd, transport, protocol, NoStarvation, Waiting
  <1>24. CASE ReadData
     BY <1>24, <1>0, FrameTypes DEF ReadData, transport, NoStarvation, Waiting
  <1>25. CASE ReadWake
     BY <1>25, <1>0 DEF ReadWake, transport, protocol, NoStarvation, Waiting
  <1>26. CASE ReadEndWake
     BY <1>26, <1>0, FrameTypes DEF ReadEndWake, transport, NoStarvation, Waiting
  <1>27. CASE HandleException
     BY <1>27, SendTargets DEF Targets, HandleException, transport, protocol,
        NoStarvation, Waiting
  <1>28. CASE After
     BY <1>28, SendTargets DEF Targets, After, transport, protocol, NoStarvation, Waiting
  <1>29. CASE CancelBranch
     BY <1>29, <1>0 DEF CancelBranch, transport, protocol, NoStarvation, Waiting
  <1>30. CASE ErrorResponse
     BY <1>30, <1>0 DEF ErrorResponse, transport, protocol, NoStarvation, Waiting
  <1>31. CASE ErrorHandled
     BY <1>31, SendTargets DEF Targets, ErrorHandled, transport, protocol,
        NoStarvation, Waiting
  <1>32. CASE Drain
     BY <1>32, <1>0 DEF Drain, transport, protocol, NoStarvation, Waiting
  <1>33. CASE NapEnd
     BY <1>33, <1>0 DEF NapEnd, transport, protocol, NoStarvation, Waiting
  <1>34. CASE Cancelled
     BY <1>34, <1>0, FrameTypes DEF Cancelled, CancelAt, transport,
        NoStarvation, Waiting
  <1>35. CASE Finish
     BY <1>35, <1>0 DEF Finish, Close, NoStarvation, Waiting
  <1>36. CASE ClientRequest
     BY <1>36, <1>0 DEF ClientRequest, task, transport, protocol, NoStarvation, Waiting
  <1>37. CASE DataReceived
     BY <1>37, <1>0 DEF DataReceived, AtAwait, Suspended, Waiting, task, NoStarvation
  <1>38. CASE PeerClosed
     BY <1>38, <1>0 DEF PeerClosed, AtAwait, Suspended, Waiting, task,
        protocol, NoStarvation
  <1>39. CASE SocketDrain
     BY <1>39, <1>0 DEF SocketDrain, AtAwait, Suspended, Waiting, task, NoStarvation
  <1>40. CASE ConnectionLost
     BY <1>40, <1>0 DEF ConnectionLost, AtAwait, Suspended, Waiting, task, NoStarvation
  <1>41. CASE TimePasses
     BY <1>41, <1>0 DEF TimePasses, AtAwait, Suspended, Waiting, task,
        transport, NoStarvation
  <1>42. CASE CheckTimeouts
     BY <1>42, <1>0 DEF CheckTimeouts, AtAwait, Suspended, Waiting, task,
        transport, NoStarvation
  <1>43. CASE CheckClosed
     BY <1>43, <1>0 DEF CheckClosed, AtAwait, Suspended, Waiting, task,
        transport, NoStarvation
  <1>44. CASE CloserAbort
     BY <1>44, <1>0 DEF CloserAbort, Abort, AtAwait, Suspended, Waiting, task,
        NoStarvation
  <1>45. CASE ShutdownBegin
     BY <1>45, <1>0 DEF ShutdownBegin, Close, AtAwait, Suspended, Waiting,
        task, NoStarvation
  <1>46. CASE ShutdownAbort
     BY <1>46, <1>0 DEF ShutdownAbort, Abort, AtAwait, Suspended, Waiting,
        task, NoStarvation
  <1>47. CASE UNCHANGED vars
     BY <1>47 DEF vars, transport, protocol, task, NoStarvation, Waiting
  <1> QED
     BY <1>1, <1>2, <1>3, <1>4, <1>5, <1>6, <1>7, <1>8, <1>9, <1>10, <1>11,
        <1>12, <1>13, <1>14, <1>15, <1>16, <1>17, <1>18, <1>19, <1>20, <1>21,
        <1>22, <1>23, <1>24, <1>25, <1>26, <1>27, <1>28, <1>29, <1>30, <1>31,
        <1>32, <1>33, <1>34, <1>35, <1>36, <1>37, <1>38, <1>39, <1>40, <1>41,
        <1>42, <1>43, <1>44, <1>45, <1>46, <1>47 DEF
        Next, Handler, TaskStep, Peer, Loopback, Shutdown

\* Flow control on reading never deadlocks: a task that waits for data on an open
\* transport is not waiting for a transport it paused itself.
THEOREM Starvation == Spec => []NoStarvation
  <1>1. Init => NoStarvation
     BY DEF Init, NoStarvation
  <1>2. TypeOK /\ NoStarvation /\ [Next]_vars => NoStarvation'
     BY StarvationStep
  <1> QED BY <1>1, <1>2, TypeCorrect, PTL DEF Spec

------------------------------------------------------------------------------
(* Requests and responses *)

Ended   == Ends(cycle) # {}
Excused == Ended \/ ~keep_alive \/ tr # "open"

\* The strengthening NextAfterEnd needs: a stage that went back to IDLE stands for
\* a response that ended, or the loop will not go on.  The one path where the
\* stage runs ahead of the wire is the ignored body of a HEAD response, whose head
\* may still be waiting, or have been cancelled.
Answered ==
    /\ pc = "idle" => stage = "IDLE" /\ keep_alive
    /\ pc \in {"header", "parse"} => response_func = "header"
    /\ stage = "IDLE" => response_func \in {"none", "ignored"}
    /\ pending.item \notin {"none", "continue"} /\ pending.stage = "IDLE"
          => pending.item \in {"whole", "last"} /\ pending.func \in {"none", "ignored"}
    /\ pending.item \notin {"none", "continue"} /\ pending.func = "ignored"
          => pending.item = "whole"
    /\ response_func = "ignored"
          => \/ Excused
             \/ pc \in {"send", "write_wait"} /\ pending.item = "whole"
             \/ pc \in {"cancel", "finish", "done"}
    /\ stage = "IDLE" /\ cycle > 0 => Excused

\* No handler of a HEAD request abandons an await of its own.
HeadsWait == \A k \in Kinds : k.head => k.framing \notin GiveUp

\* Every request the task serves is one of those a client may send.
Sourced ==
    /\ request \in Kinds \cup {NoKind}
    /\ \A i \in 1..Len(recv_buffer) : recv_buffer[i].kind \in Kinds \cup {NoKind}
    /\ \A i \in 1..Len(planned) : planned[i].kind \in Kinds \cup {NoKind}

\* Only the body of the response to a HEAD request is ignored.
Ignoring ==
    /\ response_func = "ignored" /\ pc \notin {"idle", "finish", "done"} => request.head
    /\ pending.item # "none" /\ pending.func = "ignored" => request.head

LEMMA MessageKinds ==
    ASSUME NEW k \in KindType
    PROVE  \A i \in 1..Len(Message(k)) : Message(k)[i].kind \in {k, NoKind}
  <1> DEFINE h == <<Token("half"), [t |-> "head", kind |-> k]>>
             b == BodyTokens(k)
  <1>1. \A t : Token(t).kind = NoKind
     BY DEF Token
  <1>2. h \in Seq(Tokens) /\ Len(h) = 2 /\ \A i \in 1..Len(h) : h[i].kind \in {k, NoKind}
    <2>1. Token("half") \in Tokens /\ [t |-> "head", kind |-> k] \in Tokens
       BY DEF Token, Tokens, NoKind, KindType
    <2> QED BY <1>1, <2>1
  <1>3. b \in Seq(Tokens) /\ \A i \in 1..Len(b) : b[i].kind = NoKind
    <2>1. k.body \in Nat /\ k.framing \in {"none", "length", "chunked", "junk"}
       BY DEF KindType
    <2>2. \A t \in {"byte", "size", "zero", "end", "junk"} : Token(t) \in Tokens
       BY DEF Token, Tokens, NoKind, KindType
    <2>3. CASE k.framing = "none"
       BY <2>3 DEF BodyTokens
    <2>4. CASE k.framing = "junk"
       BY <1>1, <2>2, <2>4 DEF BodyTokens
    <2>5. CASE k.framing = "length"
      <3> DEFINE f == [i \in 1..k.body |-> Token("byte")]
      <3>1. b = f
         BY <2>5 DEF BodyTokens
      <3>2. f \in Seq(Tokens) /\ Len(f) = k.body
         BY <2>1, <2>2, IsASeq
      <3>3. \A i \in 1..Len(f) : f[i].kind = NoKind
         BY <1>1, <3>2
      <3> HIDE DEF b, f
      <3> QED BY <3>1, <3>2, <3>3
    <2>6. CASE k.framing = "chunked"
      <3> DEFINE g(i) == IF i = 2 * k.body + 1 THEN "zero"
                         ELSE IF i = 2 * k.body + 2 THEN "end"
                         ELSE IF i % 2 = 1 THEN "size" ELSE "byte"
                 f == [i \in 1..(2 * k.body + 2) |-> Token(g(i))]
      <3>1. b = f
         BY <2>6 DEF BodyTokens
      <3>2. f \in Seq(Tokens) /\ Len(f) = 2 * k.body + 2
         BY <2>1, <2>2, IsASeq
      <3> HIDE DEF g
      <3>3. \A i \in 1..Len(f) : f[i].kind = NoKind
         BY <1>1, <3>2
      <3> HIDE DEF b, f
      <3> QED BY <3>1, <3>2, <3>3
    <2> QED BY <2>1, <2>3, <2>4, <2>5, <2>6
  <1>4. Message(k) = h \o b
     BY DEF Message
  <1> HIDE DEF b, h
  <1>5. /\ Len(h \o b) = Len(h) + Len(b)
        /\ \A i \in 1..Len(h) + Len(b) :
              (h \o b)[i] = IF i <= Len(h) THEN h[i] ELSE b[i - Len(h)]
     BY <1>2, <1>3, ConcatProperties
  <1>6. \A i \in 1..Len(h \o b) : (h \o b)[i].kind \in {k, NoKind}
    <2> TAKE i \in 1..Len(h \o b)
    <2>1. CASE i <= Len(h)
       BY <1>2, <1>3, <1>5, <2>1
    <2>2. CASE ~(i <= Len(h))
      <3>1. i - Len(h) \in 1..Len(b)
         BY <1>2, <1>3, <1>5, <2>2
      <3> QED BY <1>3, <1>5, <2>2, <3>1
    <2> QED BY <2>1, <2>2
  <1> QED BY <1>4, <1>6

LEMMA DropKinds ==
    ASSUME TypeOK, Sourced, NEW m \in Nat \ {0},
           recv_buffer' = SubSeq(recv_buffer, m, Len(recv_buffer))
    PROVE  \A i \in 1..Len(recv_buffer') : recv_buffer'[i].kind \in Kinds \cup {NoKind}
  <1>1. recv_buffer \in Seq(Tokens) /\ Len(recv_buffer) \in Nat
     BY DEF TypeOK, ProtocolType
  <1>2. \A i \in 1..Len(recv_buffer') :
           i + m - 1 \in 1..Len(recv_buffer) /\ recv_buffer'[i] = recv_buffer[i + m - 1]
     BY <1>1
  <1> QED BY <1>2 DEF Sourced

LEMMA SourceKept ==
    ASSUME [Next]_vars, ~ClientRequest, ~DataReceived, ~ParseGood,
           ~ReadChunkHeader, ~ReadData, ~ReadEndWake
    PROVE  UNCHANGED <<recv_buffer, planned>> /\ request' \in {request, NoKind}
  BY DEF vars, client, protocol, http, task, Next, Handler, TaskStep, Peer,
     Loopback, Shutdown, HandlerRead, HandlerRespond, HandlerSend, HandlerRaise,
     HandlerReturn, HandlerReturnWebsocket, HandlerGivesUp, TaskStart, Loop,
     IdleWake, ParseWait, HeaderWake, ParseBad, Send, Write, WriteRefused,
     WriteCancelled, ReadContinue, ReadWait, ReadTooLarge, ReadEnd, ReadWake,
     HandleException, After, CancelBranch, ErrorResponse, ErrorHandled, Drain,
     NapEnd, Cancelled, Finish, PeerClosed, SocketDrain, ConnectionLost,
     TimePasses, CheckTimeouts, CheckClosed, CloserAbort, ShutdownBegin,
     ShutdownAbort

LEMMA StepSourced ==
    ASSUME TypeOK, Sourced, ConnectionAssumption, [Next]_vars
    PROVE  Sourced'
  <1>1. recv_buffer \in Seq(Tokens) /\ planned \in Seq(Tokens)
     BY DEF TypeOK, ClientType, ProtocolType
  <1>2. CASE ClientRequest
    <2>1. PICK k \in Kinds : planned' = Message(k)
       BY <1>2 DEF ClientRequest
    <2>2. \A i \in 1..Len(planned') : planned'[i].kind \in Kinds \cup {NoKind}
       BY <2>1, MessageKinds DEF ConnectionAssumption
    <2> QED BY <1>2, <2>2 DEF ClientRequest, protocol, http, Sourced
  <1>3. CASE DataReceived
    <2>1. /\ planned # <<>> /\ recv_buffer' = Append(recv_buffer, Head(planned))
          /\ planned' = Tail(planned) /\ request' = request
       BY <1>3 DEF DataReceived, http
    <2>2. /\ Len(recv_buffer') = Len(recv_buffer) + 1 /\ Len(recv_buffer) \in Nat
          /\ recv_buffer'[Len(recv_buffer) + 1] = planned[1] /\ 1 \in 1..Len(planned)
          /\ \A i \in 1..Len(recv_buffer) : recv_buffer'[i] = recv_buffer[i]
       BY <1>1, <2>1
    <2>3. \A i \in 1..Len(planned') : planned'[i] = planned[i + 1] /\ i + 1 \in 1..Len(planned)
       BY <1>1, <2>1
    <2>4. \A i \in 1..Len(recv_buffer') : i \in 1..Len(recv_buffer) \/ i = Len(recv_buffer) + 1
       BY <2>2
    <2>5. \A i \in 1..Len(planned') : planned'[i].kind \in Kinds \cup {NoKind}
       BY <2>3 DEF Sourced
    <2>6. \A i \in 1..Len(recv_buffer') : recv_buffer'[i].kind \in Kinds \cup {NoKind}
       BY <2>2, <2>4 DEF Sourced
    <2> QED BY <2>1, <2>5, <2>6 DEF Sourced
  <1>4. CASE ParseGood
    <2>1. /\ planned' = planned /\ request' = recv_buffer[2].kind
          /\ 2 \in 1..Len(recv_buffer)
          /\ recv_buffer' = SubSeq(recv_buffer, 3, Len(recv_buffer))
       BY <1>1, <1>4 DEF ParseGood, client
    <2> QED BY <2>1, DropKinds DEF Sourced
  <1>5. CASE ReadChunkHeader
    <2>1. planned' = planned /\ request' = request
       BY <1>5 DEF ReadChunkHeader, client
    <2>2. \/ recv_buffer' = recv_buffer
          \/ recv_buffer' = SubSeq(recv_buffer, 2, Len(recv_buffer))
          \/ recv_buffer' = SubSeq(recv_buffer, 3, Len(recv_buffer))
       BY <1>1, <1>5 DEF ReadChunkHeader
    <2>3. \A i \in 1..Len(recv_buffer') : recv_buffer'[i].kind \in Kinds \cup {NoKind}
      <3>1. 2 \in Nat \ {0} /\ 3 \in Nat \ {0}
         OBVIOUS
      <3>2. CASE recv_buffer' = recv_buffer
         BY <3>2 DEF Sourced
      <3>3. CASE recv_buffer' = SubSeq(recv_buffer, 2, Len(recv_buffer))
         BY <3>1, <3>3, DropKinds
      <3>4. CASE recv_buffer' = SubSeq(recv_buffer, 3, Len(recv_buffer))
         BY <3>1, <3>4, DropKinds
      <3> QED BY <2>2, <3>2, <3>3, <3>4
    <2> QED BY <2>1, <2>3 DEF Sourced
  <1>6. CASE ReadData
    <2>1. planned' = planned /\ request' = request
       BY <1>6 DEF ReadData, client, http
    <2> DEFINE n == IF Len(recv_buffer) < request_bytes_left
                      THEN Len(recv_buffer) ELSE request_bytes_left
    <2>2. recv_buffer' = SubSeq(recv_buffer, n + 1, Len(recv_buffer))
       BY <1>6 DEF ReadData
    <2>3. n + 1 \in Nat \ {0}
       BY <1>1 DEF TypeOK, BodyType
    <2> HIDE DEF n
    <2> QED BY <2>1, <2>2, <2>3, DropKinds DEF Sourced
  <1>7. CASE ReadEndWake
     BY <1>7, DropKinds DEF ReadEndWake, client, http, Sourced
  <1> QED BY <1>2, <1>3, <1>4, <1>5, <1>6, <1>7, SourceKept DEF Sourced

LEMMA SourcedAlways == Spec => []Sourced
  <1>1. Init => Sourced
    <2>1. Init => recv_buffer = <<>> /\ planned = <<>> /\ request = NoKind
       BY DEF Init
    <2> QED BY <2>1 DEF Sourced
  <1>2. TypeOK /\ Sourced /\ [Next]_vars => Sourced'
     BY StepSourced, ConnectionAssumption
  <1> QED BY <1>1, <1>2, TypeCorrect, PTL DEF Spec

LEMMA StepIgnoring ==
    ASSUME TypeOK, Answered, Ignoring, [Next]_vars
    PROVE  Ignoring'
  <1>0. ctx \in Frames
     BY DEF TypeOK, TaskType
  <1>n. pending.item = "none" <=> pc \notin {"send", "write_wait"}
     BY DEF TypeOK
  <1>s. ASSUME NEW c, NEW d, NEW end, ResponseSend(c, d, end),
               pc \notin {"idle", "finish", "done"}, UNCHANGED request
        PROVE  Ignoring'
    <2>1. response_func' \in {"none", response_func} \/ (SendHeader(d, end) /\ request.head)
                \/ (SendHeader(d, end) /\ response_func' # "ignored")
       BY <1>s DEF ResponseSend, SendHeader, SendBody, SendIgnored
    <2>2. response_func' = "ignored" => request.head
       BY <1>s, <2>1 DEF Ignoring
    <2>3. pending' = pending \/ pending'.func \in {"none", response_func'}
       BY <1>s DEF ResponseSend, SendHeader, SendBody, SendIgnored, BeginSend
    <2> QED BY <1>s, <2>2, <2>3 DEF Ignoring
  <1>1. CASE HandlerSend \/ HandlerReturn
    <2>1. pc = "handler" /\ UNCHANGED request
       BY <1>1 DEF HandlerSend, HandlerReturn, InHandler
    <2> QED BY <1>1, <1>s, <2>1 DEF HandlerSend, HandlerReturn
  <1>2. CASE HandleException \/ After \/ ErrorHandled
    <2>1. pc \notin {"idle", "finish", "done"} /\ UNCHANGED request
       BY <1>2 DEF HandleException, After, ErrorHandled
    <2>2. \/ UNCHANGED <<response_func, pending>>
          \/ \E c, d, end : ResponseSend(c, d, end)
       BY <1>2 DEF HandleException, After, ErrorHandled
    <2>3. CASE UNCHANGED <<response_func, pending>>
       BY <2>1, <2>3 DEF Ignoring
    <2> QED BY <1>s, <2>1, <2>2, <2>3
  <1>3. CASE Loop
    <2>1. pending.item = "none" /\ UNCHANGED pending
       BY <1>3, <1>n DEF Loop
    <2>2. \/ pc' \in {"idle", "finish"}
          \/ response_func' = "header"
       BY <1>3 DEF Loop, ReceiveMore
    <2> QED BY <2>1, <2>2 DEF Ignoring
  <1>4. CASE IdleWake
     BY <1>4, <1>n DEF IdleWake, Ignoring
  <1>5. CASE ParseGood
     BY <1>5, <1>n DEF ParseGood, answer, Ignoring, Answered
  <1>6. CASE Write
    <2>1. /\ pc \notin {"idle", "finish", "done"} /\ UNCHANGED request
          /\ pending'.item = "none"
          /\ response_func' \in {response_func, pending.func}
          /\ pending.item # "none"
       BY <1>6, <1>n DEF Write, MayWrite, Idle
    <2> QED BY <2>1 DEF Ignoring
  <1>7. CASE ReadContinue
     BY <1>7 DEF ReadContinue, BeginSend, http, answer, Ignoring
  <1>8. CASE WriteRefused \/ WriteCancelled \/ HandlerGivesUp
     BY <1>8, <1>n DEF WriteRefused, WriteCancelled, HandlerGivesUp, MayWrite,
        http, answer, Idle, Ignoring
  <1>9. CASE HandlerRead \/ HandlerRespond \/ HandlerRaise \/ HandlerReturnWebsocket
     BY <1>9 DEF HandlerRead, HandlerRespond, HandlerRaise,
        HandlerReturnWebsocket, InHandler, http, answer, Ignoring
  <1>10. CASE TaskStart \/ ParseWait \/ HeaderWake \/ ParseBad \/ Send
     BY <1>10 DEF TaskStart, ParseWait, HeaderWake, ParseBad, Send, http, answer, Ignoring
  <1>11. CASE ReadWait \/ ReadChunkHeader \/ ReadTooLarge \/ ReadEnd \/ ReadData
              \/ ReadWake \/ ReadEndWake
     BY <1>11 DEF ReadWait, ReadChunkHeader, ReadTooLarge, ReadEnd, ReadData,
        ReadWake, ReadEndWake, http, answer, Ignoring
  <1>12. CASE CancelBranch \/ ErrorResponse \/ Drain \/ NapEnd
     BY <1>12 DEF CancelBranch, ErrorResponse, Drain, NapEnd, http, answer, Ignoring
  <1>13. CASE Cancelled
    <2>1. pc' \in {"idle", "finish", "done"} \/ pc \notin {"idle", "finish", "done"}
       BY <1>13, <1>0, FrameTypes DEF Cancelled, CancelAt
    <2> QED BY <1>13, <2>1 DEF Cancelled, http, answer, Ignoring
  <1>14. CASE Finish
     BY <1>14 DEF Finish, http, answer, Ignoring
  <1>15. CASE ClientRequest \/ DataReceived \/ PeerClosed \/ SocketDrain \/ ConnectionLost
     BY <1>15 DEF ClientRequest, DataReceived, PeerClosed, SocketDrain,
        ConnectionLost, http, answer, task, Ignoring
  <1>16. CASE TimePasses \/ CheckTimeouts \/ CheckClosed \/ CloserAbort
              \/ ShutdownBegin \/ ShutdownAbort
     BY <1>16 DEF TimePasses, CheckTimeouts, CheckClosed, CloserAbort,
        ShutdownBegin, ShutdownAbort, http, answer, task, Ignoring
  <1>17. CASE UNCHANGED vars
     BY <1>17 DEF vars, http, answer, task, Ignoring
  <1> QED
     BY <1>1, <1>2, <1>3, <1>4, <1>5, <1>6, <1>7, <1>8, <1>9, <1>10, <1>11,
        <1>12, <1>13, <1>14, <1>15, <1>16, <1>17 DEF
        Next, Handler, TaskStep, Peer, Loopback, Shutdown

\* A handler that abandons an await does not serve a HEAD request.
LEMMA GivesUpBody ==
    ASSUME HeadsWait, Sourced, HandlerGivesUp
    PROVE  ~request.head
  BY DEF HeadsWait, Sourced, HandlerGivesUp, NoKind

LEMMA EndedKept ==
    ASSUME TypeOK, UNCHANGED cycle,
           UNCHANGED wire \/ \E m : wire' = Append(wire, m)
    PROVE  Ended => Ended'
  <1>1. wire \in Seq([item : {"continue", "head", "whole", "data", "last"},
                      cycle : Nat])
     BY DEF TypeOK, WireType
  <1>2. CASE UNCHANGED wire
     BY <1>2 DEF Ended, Ends
  <1>3. CASE \E m : wire' = Append(wire, m)
    <2>1. PICK m : wire' = Append(wire, m)
       BY <1>3
    <2>2. \A i \in 1..Len(wire) : i \in 1..Len(wire') /\ wire'[i] = wire[i]
       BY <1>1, <2>1
    <2> QED BY <2>2 DEF Ended, Ends
  <1> QED BY <1>2, <1>3

LEMMA EndedByWrite ==
    ASSUME TypeOK, NEW t \in {"last", "whole"}, UNCHANGED cycle,
           wire' = Append(wire, [item |-> t, cycle |-> cycle])
    PROVE  Ended'
  <1>1. wire \in Seq([item : {"continue", "head", "whole", "data", "last"},
                      cycle : Nat])
     BY DEF TypeOK, WireType
  <1>2. /\ Len(wire') = Len(wire) + 1
        /\ wire'[Len(wire) + 1] = [item |-> t, cycle |-> cycle]
     BY <1>1
  <1>3. Len(wire) + 1 \in Ends(cycle)'
     BY <1>1, <1>2 DEF Ends
  <1> QED BY <1>3 DEF Ended

\* A step that touches neither the stage nor the writer, and does not put the task
\* where the next request is awaited or parsed.
LEMMA QuietAnswered ==
    ASSUME TypeOK, Answered, pending.item = "none", pc \notin {"cancel",
       "finish", "done"},
           UNCHANGED <<stage, cycle, response_func, pending, wire>>,
           keep_alive' => keep_alive, tr' = "open" => tr = "open",
           pc' \notin {"idle", "header", "parse"}
    PROVE  Answered'
  <1>1. Ended => Ended'
     BY EndedKept
  <1> QED BY <1>1 DEF Answered, Excused, TypeOK

LEMMA SendAnswered ==
    ASSUME TypeOK, Answered, pending.item = "none", pc \notin {"cancel",
       "finish", "done"},
           NEW c \in Frames, NEW d, NEW end, ResponseSend(c, d, end),
           UNCHANGED <<keep_alive, cycle, tr, wire>>
    PROVE  Answered'
  <1>1. Ended => Ended'
     BY EndedKept
  <1>2. pc' \notin {"idle", "header", "parse"}
     BY FrameTypes DEF ResponseSend, SendHeader, SendBody, SendIgnored, BeginSend
  <1>3. pc \notin {"send", "write_wait"}
     BY DEF TypeOK
  <1>4. CASE response_func = "none"
     BY <1>1, <1>2, <1>3, <1>4 DEF ResponseSend, SendHeader, SendBody,
        SendIgnored, Answered, Excused
  <1>5. CASE response_func = "header"
    <2>1. SendHeader(d, end)
       BY <1>5 DEF ResponseSend, SendBody, SendIgnored
    <2>2. stage # "IDLE" /\ stage' = stage /\ pc' = "send"
       BY <1>5, <2>1 DEF Answered, SendHeader, BeginSend
    <2>3. pending'.func = response_func'
       BY <2>1 DEF SendHeader, BeginSend
    <2>4. response_func' = "ignored" => pending'.item = "whole"
       BY <2>1 DEF SendHeader, BeginSend
    <2>5. pending'.stage = "IDLE" =>
             pending'.item = "whole" /\ response_func' \in {"none", "ignored"}
      <3>1. CASE end \/ response = "whole"
         BY <2>1, <3>1 DEF SendHeader, BeginSend
      <3>2. CASE ~(end \/ response = "whole")
         BY <2>1, <3>2 DEF SendHeader, BeginSend
      <3> QED BY <3>1, <3>2
    <2> QED BY <2>2, <2>3, <2>4, <2>5 DEF Answered
  <1>6. CASE response_func \in {"chunked", "normal"}
    <2>1. SendBody(c, d, end)
       BY <1>6 DEF ResponseSend, SendIgnored
    <2>2. stage # "IDLE" /\ stage' = stage /\ response_func' = response_func
       BY <1>6, <2>1 DEF Answered, SendBody
    <2>3. pending'.item # "none" =>
             /\ pending'.func # "ignored"
             /\ pending'.stage = "IDLE" => pending'.item = "last" /\
                pending'.func = "none"
       BY <1>6, <2>1, <2>2 DEF SendBody, BeginSend
    <2> QED BY <1>2, <1>6, <2>2, <2>3 DEF Answered
  <1>7. CASE response_func = "ignored"
    <2>1. SendIgnored(c, end)
       BY <1>7 DEF ResponseSend, SendBody
    <2>2. Excused'
       BY <1>1, <1>3, <1>7 DEF Answered, Excused
    <2> QED BY <1>2, <2>1, <2>2 DEF SendIgnored, Answered
  <1>8. response_func \in {"none", "header", "chunked", "normal", "ignored"}
     BY DEF ResponseSend, SendBody, SendIgnored
  <1> QED BY <1>4, <1>5, <1>6, <1>7, <1>8

LEMMA AnsweredStep ==
    ASSUME HeadsWait, TypeOK, Lifecycle, Sourced, Ignoring, Answered, [Next]_vars
    PROVE  Answered'
  <1>0. ctx \in Frames
     BY DEF TypeOK, TaskType
  <1>k. UNCHANGED wire /\ UNCHANGED cycle => (Ended => Ended')
     BY EndedKept
  <1>n. pending.item = "none" <=> pc \notin {"send", "write_wait"}
     BY DEF TypeOK
  <1>1. CASE HandlerRead
     BY <1>1, <1>k DEF HandlerRead, InHandler, transport, http, answer,
        Answered, Excused
  <1>2. CASE HandlerRespond
     BY <1>2, <1>k DEF HandlerRespond, InHandler, transport, Answered, Excused
  <1>3. CASE HandlerSend
    <2>1. pending.item = "none" /\ UNCHANGED <<keep_alive, cycle, tr, wire>>
       BY <1>3 DEF TypeOK, HandlerSend, transport, InHandler
    <2>2. "handler" \in Frames
       BY <1>3 DEF HandlerSend, Frames
    <2> QED BY <1>3, <2>1, <2>2, SendAnswered DEF HandlerSend, InHandler
  <1>4. CASE HandlerRaise
     BY <1>4, <1>k DEF HandlerRaise, InHandler, transport, http, answer,
        Answered, Excused
  <1>5. CASE HandlerReturn
    <2>1. pending.item = "none" /\ UNCHANGED <<keep_alive, cycle, tr, wire>>
       BY <1>5 DEF TypeOK, HandlerReturn, transport, InHandler
    <2>2. "tail" \in Frames
       BY <1>5 DEF HandlerReturn, Frames
    <2> QED BY <1>5, <2>1, <2>2, SendAnswered DEF HandlerReturn, InHandler
  <1>6. CASE HandlerReturnWebsocket
     BY <1>6, <1>k DEF HandlerReturnWebsocket, InHandler, transport, http,
        answer, Answered, Excused
  <1>7. CASE HandlerGivesUp
    <2>1. response_func # "ignored" /\ (pending.item # "none" => pending.func # "ignored")
       BY <1>7, GivesUpBody DEF HandlerGivesUp, Ignoring
    <2> QED BY <1>7, <1>k, <2>1 DEF HandlerGivesUp, transport, http, answer, Idle,
            Answered, Excused
  <1>8. CASE TaskStart
     BY <1>8, <1>k DEF TaskStart, transport, http, answer, Answered, Excused
  <1>9. CASE Loop
     BY <1>9, <1>k DEF Loop, ReceiveMore, Answered, Excused
  <1>10. CASE IdleWake
     BY <1>10, <1>k DEF IdleWake, transport, Answered, Excused
  <1>11. CASE ParseWait
     BY <1>11, <1>k DEF ParseWait, ReceiveMore, http, answer, Answered, Excused
  <1>12. CASE HeaderWake
     BY <1>12, <1>k DEF HeaderWake, transport, http, answer, Answered, Excused
  <1>13. CASE ParseBad
     BY <1>13, <1>k DEF ParseBad, transport, http, answer, Answered, Excused
  <1>14. CASE ParseGood
     BY <1>14, <1>k DEF ParseGood, transport, answer, Answered, Excused
  <1>15. CASE Send
     BY <1>15, <1>k DEF Send, transport, http, answer, Answered, Excused
  <1>16. CASE Write
    <2>1. /\ pending.item # "none" /\ pending'.item = "none"
          /\ UNCHANGED <<cycle, keep_alive>>
          /\ pc' \in {"read", "handler", "after", "drain"}
       BY <1>0, <1>16, <1>n, FrameTypes DEF Write, MayWrite, Idle
    <2>2. Ended => Ended'
       BY <1>16, EndedKept DEF Write
    <2>3. CASE pending.item = "continue"
       BY <1>16, <2>1, <2>2, <2>3 DEF Write, MayWrite, Answered, Excused
    <2>4. CASE pending.item # "continue"
      <3>1. stage' = pending.stage /\ response_func' = pending.func
         BY <1>16, <2>4 DEF Write
      <3>2. pending.item \in {"last", "whole"} => Ended'
         BY <1>16, EndedByWrite DEF Write
      <3> QED BY <2>1, <2>4, <3>1, <3>2 DEF Answered, Excused
    <2> QED BY <2>3, <2>4
  <1>17. CASE WriteRefused
    <2>1. /\ pc' \in {"cancel", "finish", "herr", "fail", "err2"}
          /\ tr # "open" /\ tr' = tr
          /\ pending'.item = "none"
          /\ UNCHANGED <<stage, cycle, response_func>>
       BY <1>0, <1>17, FrameTypes DEF WriteRefused, Idle, Lifecycle, transport,
          http, answer
    <2> QED BY <2>1 DEF Answered, Excused
  <1>18. CASE WriteCancelled
    <2>1. /\ pc' \in {"cancel", "finish"}
          /\ pending'.item = "none"
          /\ UNCHANGED <<stage, cycle, keep_alive, tr, response_func, wire>>
       BY <1>0, <1>18, FrameTypes DEF WriteCancelled, Idle, transport, http, answer
    <2> QED BY <1>k, <2>1 DEF Answered, Excused
  <1>19. CASE ReadContinue
     BY <1>19, <1>k DEF ReadContinue, BeginSend, transport, http, answer,
        Answered, Excused
  <1>20. CASE ReadWait
     BY <1>20, <1>0, FrameTypes, <1>k DEF ReadWait, ReceiveMore, http, answer,
        Answered, Excused
  <1>21. CASE ReadChunkHeader
     BY <1>21, <1>0, FrameTypes, <1>k DEF ReadChunkHeader, ReceiveMore, answer,
        Answered, Excused
  <1>22. CASE ReadTooLarge
     BY <1>22, <1>0, FrameTypes, <1>k DEF ReadTooLarge, transport, answer,
        Answered, Excused
  <1>23. CASE ReadEnd
     BY <1>23, <1>0, FrameTypes, <1>k DEF ReadEnd, transport, http, answer,
        Answered, Excused
  <1>24. CASE ReadData
     BY <1>24, <1>0, FrameTypes, <1>k DEF ReadData, transport, http, answer,
        Answered, Excused
  <1>25. CASE ReadWake
     BY <1>25, <1>k DEF ReadWake, transport, http, answer, Answered, Excused
  <1>26. CASE ReadEndWake
     BY <1>26, <1>0, FrameTypes, <1>k DEF ReadEndWake, transport, http, answer,
        Answered, Excused
  <1>27. CASE HandleException
    <2>1. pending.item = "none" /\ UNCHANGED <<keep_alive, cycle, tr, wire>>
       BY <1>27 DEF TypeOK, HandleException, transport
    <2>2. "herr" \in Frames
       BY <1>27 DEF HandleException, Frames
    <2>3. CASE stage = "HANDLER"
       BY <1>27, <2>1, <2>2, <2>3, SendAnswered DEF HandleException
    <2>4. CASE stage # "HANDLER"
       BY <1>27, <2>1, <2>4, QuietAnswered DEF HandleException
    <2> QED BY <2>3, <2>4
  <1>28. CASE After
    <2>1. pending.item = "none" /\ UNCHANGED <<keep_alive, cycle, tr, wire>>
       BY <1>28 DEF TypeOK, After, transport
    <2>2. "final" \in Frames
       BY <1>28 DEF After, Frames
    <2>3. CASE stage = "RESPONSE"
       BY <1>28, <2>1, <2>2, <2>3, SendAnswered DEF After
    <2>4. CASE stage # "RESPONSE"
       BY <1>28, <2>1, <2>4, QuietAnswered DEF After
    <2> QED BY <2>3, <2>4
  <1>29. CASE CancelBranch
     BY <1>29, <1>k DEF CancelBranch, transport, answer, Answered, Excused
  <1>30. CASE ErrorResponse
     BY <1>30, <1>k DEF ErrorResponse, transport, answer, Answered, Excused
  <1>31. CASE ErrorHandled
    <2>1. pending.item = "none" /\ UNCHANGED <<keep_alive, cycle, tr, wire>>
       BY <1>31 DEF TypeOK, ErrorHandled, transport
    <2>2. pc \in Frames
       BY <1>31 DEF ErrorHandled, Frames
    <2>3. CASE stage = "HANDLER"
       BY <1>31, <2>1, <2>2, <2>3, SendAnswered DEF ErrorHandled
    <2>4. CASE stage # "HANDLER"
       BY <1>31, <2>1, <2>4, QuietAnswered DEF ErrorHandled
    <2> QED BY <2>3, <2>4
  <1>32. CASE Drain
     BY <1>32, <1>k DEF Drain, transport, http, answer, Answered, Excused
  <1>33. CASE NapEnd
     BY <1>33, <1>k DEF NapEnd, transport, http, answer, Answered, Excused
  <1>34. CASE Cancelled
     BY <1>34, <1>0, FrameTypes, <1>k DEF Cancelled, CancelAt, transport, http,
        answer, Answered, Excused
  <1>35. CASE Finish
     BY <1>35, <1>k DEF Finish, Close, http, answer, Answered, Excused
  <1>36. CASE ClientRequest
     BY <1>36, <1>k DEF ClientRequest, task, transport, http, answer, Answered, Excused
  <1>37. CASE DataReceived
     BY <1>37, <1>k DEF DataReceived, AtAwait, task, http, answer, Answered, Excused
  <1>38. CASE PeerClosed
     BY <1>38, <1>k DEF PeerClosed, AtAwait, task, http, answer, Answered, Excused
  <1>39. CASE SocketDrain
     BY <1>39, <1>k DEF SocketDrain, AtAwait, task, http, answer, Answered, Excused
  <1>40. CASE ConnectionLost
     BY <1>40, <1>k DEF ConnectionLost, AtAwait, task, http, answer, Answered, Excused
  <1>41. CASE TimePasses
     BY <1>41, <1>k DEF TimePasses, AtAwait, task, transport, http, answer,
        Answered, Excused
  <1>42. CASE CheckTimeouts
     BY <1>42, <1>k DEF CheckTimeouts, AtAwait, task, transport, answer,
        Answered, Excused
  <1>43. CASE CheckClosed
     BY <1>43, <1>k DEF CheckClosed, AtAwait, task, transport, http, answer,
        Answered, Excused
  <1>44. CASE CloserAbort
     BY <1>44, <1>k DEF CloserAbort, Abort, AtAwait, task, http, answer,
        Answered, Excused
  <1>45. CASE ShutdownBegin
     BY <1>45, <1>k DEF ShutdownBegin, Close, AtAwait, task, http, answer,
        Answered, Excused
  <1>46. CASE ShutdownAbort
     BY <1>46, <1>k DEF ShutdownAbort, Abort, AtAwait, task, http, answer,
        Answered, Excused
  <1>47. CASE UNCHANGED vars
     BY <1>47, <1>k DEF vars, transport, http, answer, task, Answered, Excused
  <1> QED
     BY <1>1, <1>2, <1>3, <1>4, <1>5, <1>6, <1>7, <1>8, <1>9, <1>10, <1>11,
        <1>12, <1>13, <1>14, <1>15, <1>16, <1>17, <1>18, <1>19, <1>20, <1>21,
        <1>22, <1>23, <1>24, <1>25, <1>26, <1>27, <1>28, <1>29, <1>30, <1>31,
        <1>32, <1>33, <1>34, <1>35, <1>36, <1>37, <1>38, <1>39, <1>40, <1>41,
        <1>42, <1>43, <1>44, <1>45, <1>46, <1>47 DEF
        Next, Handler, TaskStep, Peer, Loopback, Shutdown

LEMMA StepOverEnd ==
    ASSUME TypeOK, Answered, [Next]_vars
    PROVE  [cycle' > cycle /\ cycle > 0 /\ tr = "open" => Ends(cycle) # {}]_vars
  <1>1. cycle \in Nat
     BY DEF TypeOK, HttpType
  <1>2. CASE Loop
    <2>1. CASE keep_alive /\ stage = "IDLE"
       BY <2>1 DEF Answered, Excused, Ended
    <2>2. CASE ~(keep_alive /\ stage = "IDLE")
       BY <1>1, <1>2, <2>2 DEF Loop
    <2> QED BY <2>1, <2>2
  <1>3. CASE IdleWake
     BY <1>3 DEF IdleWake, Answered, Excused, Ended
  <1>4. CASE ~Loop /\ ~IdleWake
    <2>1. cycle' = cycle
       BY <1>4 DEF vars, http, Next, Handler, TaskStep, Peer, Loopback,
          Shutdown, HandlerRead, HandlerRespond, HandlerSend, HandlerRaise,
          HandlerReturn, HandlerReturnWebsocket, HandlerGivesUp, TaskStart,
          ParseWait, HeaderWake, ParseBad, ParseGood, Send, Write, WriteRefused,
          WriteCancelled, ReadContinue, ReadWait, ReadChunkHeader, ReadTooLarge,
          ReadEnd, ReadData, ReadWake, ReadEndWake, HandleException, After,
          CancelBranch, ErrorResponse, ErrorHandled, Drain, NapEnd, Cancelled,
          Finish, ClientRequest, DataReceived, PeerClosed, SocketDrain,
          ConnectionLost, TimePasses, CheckTimeouts, CheckClosed, CloserAbort,
          ShutdownBegin, ShutdownAbort
    <2> QED BY <1>1, <2>1
  <1> QED BY <1>2, <1>3, <1>4

\* Provided no handler of a HEAD request abandons an await of its own, the loop goes
\* on to a next request only over a response that has ended: whatever errors,
\* timeouts and cancellations came in between.
THEOREM OneAtATime ==
    ASSUME HeadsWait
    PROVE  Spec => NextAfterEnd
  <1>1. Init => Answered /\ Ignoring
     BY DEF Init, Answered, Ignoring, Idle
  <1>2. TypeOK /\ Lifecycle /\ Sourced /\ Ignoring /\ Answered /\ [Next]_vars
           => Answered' /\ Ignoring'
     BY AnsweredStep, StepIgnoring
  <1>3. TypeOK /\ Answered /\ [Next]_vars =>
           [cycle' > cycle /\ cycle > 0 /\ tr = "open" => Ends(cycle) # {}]_vars
     BY StepOverEnd
  <1> QED BY <1>1, <1>2, <1>3, LifecycleAlways, SourcedAlways, TypeCorrect,
         PTL DEF Spec, NextAfterEnd
------------------------------------------------------------------------------
(* What the peer can parse *)

Said      == {i \in 1..Len(wire) : wire[i].cycle = cycle /\ wire[i].item # "continue"}
Untouched == Said = {}
Underway  == Heads(cycle) # {} /\ Ends(cycle) = {}

\* What a step may not do for the framing to hold: give up a response head whose
\* write has begun while the transport is open.  A cancel, or a handler's own
\* timeout, that falls into the wait for a paused transport does (run lost_head).
KeepsHead ==
    pending.item = "head" /\ pending'.item = "none" /\ tr = "open" => wire' # wire

\* The strengthening WellFramed needs: response_func, chosen before the await of
\* the head, says what is on the wire, the time of that await apart.
Framing ==
    /\ \A i \in 1..Len(wire) : wire[i].cycle <= cycle
    /\ tr = "open" =>
        /\ pc \in {"header", "parse"} => response_func = "header"
        /\ response_func = "header" \/ expecting_continue => Untouched
        /\ pending.item \in {"continue", "head", "whole"} => Untouched
        /\ pending.item \in {"data", "last"} => Underway
        /\ response_func \in {"chunked", "normal"} /\ pending.item # "head" => Underway
        /\ pending.item \in {"head", "whole"} => ~expecting_continue
        /\ pending.item \in {"head", "data"} => pending.func \in {"chunked", "normal"}
        /\ pending.item \in {"whole", "last"} => pending.func \in {"none", "ignored"}

LEMMA UntouchedOrUnderway == ~(Untouched /\ Underway)
  BY DEF Untouched, Underway, Said, Heads

LEMMA QuietFraming ==
    ASSUME TypeOK, Framing,
           UNCHANGED <<cycle, response_func, wire>>,
           expecting_continue' => expecting_continue,
           tr' = "open" => tr = "open",
           pc' \in {"header", "parse"} => pc \in {"header", "parse"},
           \/ pending' = pending
           \/ pending'.item = "none" /\ (pending.item = "head" => tr' # "open")
    PROVE  Framing'
  <1>1. Untouched' = Untouched /\ Underway' = Underway
     BY DEF Untouched, Underway, Said, Heads, Ends
  <1>2. \A i \in 1..Len(wire') : wire'[i].cycle <= cycle'
     BY DEF Framing
  <1> QED BY <1>1, <1>2 DEF Framing

LEMMA SendFraming ==
    ASSUME TypeOK, Framing, pending.item = "none",
           pc \notin {"send", "write_wait"},
           NEW c \in Frames, NEW d, NEW end, ResponseSend(c, d, end),
           UNCHANGED <<cycle, tr, wire>>
    PROVE  Framing'
  <1>1. Untouched' = Untouched /\ Underway' = Underway
     BY DEF Untouched, Underway, Said, Heads, Ends
  <1>2. \A i \in 1..Len(wire') : wire'[i].cycle <= cycle'
     BY DEF Framing
  <1>3. pc' \notin {"header", "parse"}
     BY FrameTypes DEF ResponseSend, SendHeader, SendBody, SendIgnored, BeginSend
  <1>4. CASE response_func \in {"none", "ignored"}
    <2>1. /\ response_func' \in {"none", "ignored"}
          /\ UNCHANGED <<expecting_continue, pending>>
       BY <1>4 DEF ResponseSend, SendBody, SendIgnored
    <2> QED BY <1>1, <1>2, <1>3, <2>1 DEF Framing
  <1>5. CASE response_func = "header"
    <2>1. SendHeader(d, end)
       BY <1>5 DEF ResponseSend, SendBody, SendIgnored
    <2>2. expecting_continue' = FALSE /\ pending'.func = response_func'
       BY <2>1 DEF SendHeader, BeginSend
    <2>3. \/ pending'.item = "head" /\ response_func' \in {"chunked", "normal"}
          \/ pending'.item = "whole" /\ response_func' \in {"none", "ignored"}
       BY <2>1 DEF SendHeader, BeginSend
    <2>4. tr = "open" => Untouched
       BY <1>5 DEF Framing
    <2> QED BY <1>1, <1>2, <1>3, <2>2, <2>3, <2>4 DEF Framing
  <1>6. CASE response_func \in {"chunked", "normal"}
    <2>1. SendBody(c, d, end)
       BY <1>6 DEF ResponseSend, SendIgnored
    <2>2. UNCHANGED <<response_func, expecting_continue>>
       BY <2>1 DEF SendBody
    <2>3. \/ pending' = pending
          \/ pending'.item = "data" /\ pending'.func = response_func
          \/ pending'.item = "last" /\ pending'.func = "none"
       BY <2>1 DEF SendBody, BeginSend
    <2>4. tr = "open" => Underway
       BY <1>6 DEF Framing
    <2> QED BY <1>1, <1>2, <1>3, <1>6, <2>2, <2>3, <2>4, UntouchedOrUnderway DEF Framing
  <1>7. response_func \in {"none", "header", "chunked", "normal", "ignored"}
     BY DEF ResponseSend, SendBody, SendIgnored
  <1> QED BY <1>4, <1>5, <1>6, <1>7

\* What a write adds to the sets of places the framing is about.
LEMMA WriteAdds ==
    ASSUME TypeOK, Write
    PROVE  /\ Len(wire') = Len(wire) + 1 /\ Len(wire) \in Nat
           /\ wire'[Len(wire')] = [item |-> pending.item, cycle |-> cycle]
           /\ \A i \in 1..Len(wire) : wire'[i] = wire[i]
           /\ \A i \in 1..Len(wire') : i \in 1..Len(wire) \/ i = Len(wire')
           /\ pending.item \in {"continue", "head", "whole", "data", "last"}
           /\ UNCHANGED <<cycle, tr, expecting_continue>>
  <1>1. wire \in Seq([item : {"continue", "head", "whole", "data", "last"},
                      cycle : Nat])
     BY DEF TypeOK, WireType
  <1>2. wire' = Append(wire, [item |-> pending.item, cycle |-> cycle])
     BY DEF Write
  <1>3. /\ Len(wire') = Len(wire) + 1 /\ Len(wire) \in Nat
        /\ wire'[Len(wire')] = [item |-> pending.item, cycle |-> cycle]
        /\ \A i \in 1..Len(wire) : wire'[i] = wire[i]
     BY <1>1, <1>2
  <1>4. \A i \in 1..Len(wire') : i \in 1..Len(wire) \/ i = Len(wire')
     BY <1>3
  <1>5. pending.item \in {"continue", "head", "whole", "data", "last"}
     BY DEF Write, MayWrite, TypeOK, TaskType
  <1> QED BY <1>3, <1>4, <1>5 DEF Write, body

LEMMA WriteFraming ==
    ASSUME TypeOK, Framing, Write
    PROVE  Framing'
  <1> DEFINE n == Len(wire')
  <1>1. /\ n = Len(wire) + 1 /\ Len(wire) \in Nat
        /\ wire'[n] = [item |-> pending.item, cycle |-> cycle]
        /\ \A i \in 1..Len(wire) : wire'[i] = wire[i]
        /\ \A i \in 1..n : i \in 1..Len(wire) \/ i = n
        /\ pending.item \in {"continue", "head", "whole", "data", "last"}
        /\ UNCHANGED <<cycle, tr, expecting_continue>>
     BY WriteAdds
  <1>2. cycle \in Nat
     BY DEF TypeOK, HttpType
  <1>3. \A i \in 1..n : wire'[i].cycle <= cycle
     BY <1>1, <1>2 DEF Framing
  <1>4. tr = "open" /\ pending' = Idle /\ ctx \in Frames
     BY DEF Write, TypeOK, TaskType
  <1>5. pc' \in {"read", "handler", "after", "drain"}
     BY <1>4, FrameTypes DEF Write
  <1>6. CASE pending.item = "continue"
    <2>1. Untouched
       BY <1>4, <1>6 DEF Framing
    <2>2. Untouched'
       BY <1>1, <1>6, <2>1 DEF Untouched, Said
    <2>3. response_func' = response_func
       BY <1>6 DEF Write
    <2>4. response_func \notin {"chunked", "normal"}
       BY <1>4, <1>6, <2>1, UntouchedOrUnderway DEF Framing
    <2> QED BY <1>1, <1>3, <1>4, <1>5, <2>2, <2>3, <2>4 DEF Framing, Idle
  <1>7. CASE pending.item \in {"head", "whole", "data", "last"}
    <2>1. response_func' = pending.func
       BY <1>7 DEF Write
    <2>2. CASE pending.item \in {"whole", "last"}
      <3>1. response_func' \in {"none", "ignored"}
         BY <1>4, <2>1, <2>2 DEF Framing
      <3>2. ~expecting_continue
        <4>1. CASE pending.item = "whole"
           BY <1>4, <4>1 DEF Framing
        <4>2. CASE pending.item = "last"
           BY <1>4, <4>2, UntouchedOrUnderway DEF Framing
        <4> QED BY <2>2, <4>1, <4>2
      <3> QED BY <1>1, <1>3, <1>4, <1>5, <3>1, <3>2 DEF Framing, Idle
    <2>3. CASE pending.item \in {"head", "data"}
      <3>1. response_func' \in {"chunked", "normal"}
         BY <1>4, <2>1, <2>3 DEF Framing
      <3>2. ~expecting_continue
        <4>1. CASE pending.item = "head"
           BY <1>4, <4>1 DEF Framing
        <4>2. CASE pending.item = "data"
           BY <1>4, <4>2, UntouchedOrUnderway DEF Framing
        <4> QED BY <2>3, <4>1, <4>2
      <3>3. Ends(cycle) = {}
        <4>1. CASE pending.item = "head"
           BY <1>4, <4>1 DEF Framing, Untouched, Said, Ends
        <4>2. CASE pending.item = "data"
           BY <1>4, <4>2 DEF Framing, Underway
        <4> QED BY <2>3, <4>1, <4>2
      <3>4. Ends(cycle)' = {}
         BY <1>1, <2>3, <3>3 DEF Ends
      <3>5. Heads(cycle)' # {}
        <4>1. CASE pending.item = "head"
          <5>1. n \in Heads(cycle)'
             BY <1>1, <4>1 DEF Heads
          <5> QED BY <5>1
        <4>2. CASE pending.item = "data"
          <5>1. PICK i \in Heads(cycle) : TRUE
             BY <1>4, <4>2 DEF Framing, Underway
          <5>2. i \in Heads(cycle)'
             BY <1>1, <5>1 DEF Heads
          <5> QED BY <5>2
        <4> QED BY <2>3, <4>1, <4>2
      <3>6. Underway'
         BY <3>4, <3>5 DEF Underway
      <3> QED BY <1>1, <1>3, <1>4, <1>5, <3>1, <3>2, <3>6 DEF Framing, Idle
    <2> QED BY <1>7, <2>2, <2>3
  <1> QED BY <1>1, <1>6, <1>7

\* Over a sound framing, a write keeps what the peer can parse.
LEMMA WriteWellFramed ==
    ASSUME TypeOK, Framing, WellFramed, Write
    PROVE  WellFramed'
  <1> DEFINE n == Len(wire')
             t == pending.item
  <1>1. /\ n = Len(wire) + 1 /\ Len(wire) \in Nat
        /\ wire'[n] = [item |-> t, cycle |-> cycle]
        /\ \A i \in 1..Len(wire) : wire'[i] = wire[i]
        /\ \A i \in 1..n : i \in 1..Len(wire) \/ i = n
        /\ t \in {"continue", "head", "whole", "data", "last"}
        /\ UNCHANGED <<cycle, tr, expecting_continue>>
     BY WriteAdds
  <1>2. tr = "open"
     BY DEF Write
  <1>3. /\ t \in {"continue", "head", "whole"} => Untouched
        /\ t \in {"data", "last"} => Underway
     BY <1>2 DEF Framing
  <1>4. \A c : /\ \A i \in Heads(c)' : i \in Heads(c) \/ (i = n /\ c = cycle /\ t \in {"head", "whole"})
               /\ \A i \in Pieces(c)' : i \in Pieces(c) \/ (i = n /\ c = cycle /\ t \in {"data", "last"})
               /\ \A i \in Ends(c)' : i \in Ends(c) \/ (i = n /\ c = cycle /\ t \in {"last", "whole"})
               /\ \A i \in Heads(c) : i \in Heads(c)'
               /\ Heads(c) \subseteq 1..Len(wire) /\ Pieces(c) \subseteq 1..Len(wire)
               /\ Ends(c) \subseteq 1..Len(wire)
    <2>1. \A i \in 1..Len(wire) : i \in 1..n
       BY <1>1
    <2> HIDE DEF n
    <2> QED BY <1>1, <2>1 DEF Heads, Pieces, Ends, n
  <1>5. Untouched => Heads(cycle) = {} /\ Pieces(cycle) = {} /\ Ends(cycle) = {}
     BY DEF Untouched, Said, Heads, Pieces, Ends
  <1>7. \A c : /\ \A i, j \in Heads(c) : i = j
               /\ \A i \in Pieces(c) : \E j \in Heads(c) : j < i
               /\ \A i \in Ends(c), j \in 1..Len(wire) : wire[j].cycle = c => j <= i
               /\ \A i \in Heads(c), j \in 1..Len(wire) :
                     wire[j] = [item |-> "continue", cycle |-> c] => j < i
    <2> TAKE c
    <2>1. CASE \E i \in 1..Len(wire) : wire[i].cycle = c
      <3>1. c \in {wire[i].cycle : i \in 1..Len(wire)}
         BY <2>1
      <3> QED BY <3>1 DEF WellFramed
    <2>2. CASE ~\E i \in 1..Len(wire) : wire[i].cycle = c
       BY <2>2 DEF Heads, Pieces, Ends
    <2> QED BY <2>1, <2>2
  <1> HIDE DEF n, t
  <1>8. \A c : \A i, j \in Heads(c)' : i = j
    <2> TAKE c
    <2>1. t \in {"head", "whole"} /\ c = cycle => Heads(c) = {}
       BY <1>3, <1>5
    <2> TAKE i, j \in Heads(c)'
    <2>2. CASE i \in Heads(c) /\ j \in Heads(c)
       BY <1>7, <2>2
    <2>3. CASE i = n /\ j = n
       BY <2>3
    <2> QED BY <1>4, <2>1, <2>2, <2>3
  <1>9. \A c : \A i \in Pieces(c)' : \E j \in Heads(c)' : j < i
    <2> TAKE c
    <2> TAKE i \in Pieces(c)'
    <2>1. CASE i \in Pieces(c)
       BY <1>4, <1>7, <2>1
    <2>2. CASE i = n /\ c = cycle /\ t \in {"data", "last"}
      <3>1. PICK j \in Heads(cycle) : TRUE
         BY <1>3, <2>2 DEF Underway
      <3>2. j < n
         BY <1>1, <1>4, <3>1
      <3> QED BY <1>4, <2>2, <3>1, <3>2
    <2> QED BY <1>4, <2>1, <2>2
  <1>10. \A c : \A i \in Ends(c)', j \in 1..n : wire'[j].cycle = c => j <= i
    <2> TAKE c
    <2> TAKE i \in Ends(c)', j \in 1..n
    <2> SUFFICES ASSUME wire'[j].cycle = c PROVE j <= i
       OBVIOUS
    <2>1. CASE i = n
       BY <1>1, <2>1
    <2>2. CASE i \in Ends(c)
      <3>1. CASE j \in 1..Len(wire)
         BY <1>1, <1>7, <2>2, <3>1
      <3>2. CASE j = n
        <4>1. c = cycle
           BY <1>1, <3>2
        <4>2. Ends(cycle) = {}
           BY <1>1, <1>3, <1>5 DEF Underway
        <4> QED BY <2>2, <4>1, <4>2
      <3> QED BY <1>1, <3>1, <3>2
    <2> QED BY <1>4, <2>1, <2>2
  <1>11. \A c : \A i \in Heads(c)', j \in 1..n :
            wire'[j] = [item |-> "continue", cycle |-> c] => j < i
    <2> TAKE c
    <2> TAKE i \in Heads(c)', j \in 1..n
    <2> SUFFICES ASSUME wire'[j] = [item |-> "continue", cycle |-> c] PROVE j < i
       OBVIOUS
    <2>1. CASE i \in Heads(c) /\ j \in 1..Len(wire)
       BY <1>1, <1>7, <2>1
    <2>2. CASE i = n /\ t \in {"head", "whole"}
       BY <1>1, <2>2
    <2>3. CASE i \in Heads(c) /\ j = n
      <3>1. c = cycle /\ t = "continue"
         BY <1>1, <2>3
      <3> QED BY <1>3, <1>5, <2>3, <3>1
    <2> QED BY <1>1, <1>4, <2>1, <2>2, <2>3
  <1> QED BY <1>8, <1>9, <1>10, <1>11 DEF WellFramed, n

LEMMA WireCycles == TypeOK => \A i \in 1..Len(wire) : wire[i].cycle \in Nat
  <1> SUFFICES ASSUME TypeOK PROVE \A i \in 1..Len(wire) : wire[i].cycle \in Nat
     OBVIOUS
  <1> DEFINE P == [item : {"continue", "head", "whole", "data", "last"}, cycle : Nat]
  <1>1. wire \in Seq(P)
     BY DEF TypeOK, WireType
  <1>2. \A i \in 1..Len(wire) : wire[i] \in P
     BY <1>1, ElementOfSeq
  <1> QED BY <1>2

LEMMA StepFraming ==
    ASSUME TypeOK, Lifecycle, Framing, KeepsHead, [Next]_vars
    PROVE  Framing'
  <1>0. ctx \in Frames
     BY DEF TypeOK, TaskType
  <1>n. pending.item = "none" <=> pc \notin {"send", "write_wait"}
     BY DEF TypeOK
  <1>1. CASE HandlerRead
     BY <1>1, QuietFraming DEF HandlerRead, transport, http, body, answer
  <1>2. CASE HandlerRespond
     BY <1>2, QuietFraming DEF HandlerRespond, InHandler, transport, body
  <1>3. CASE HandlerSend \/ HandlerReturn
    <2>1. pending.item = "none" /\ UNCHANGED <<cycle, tr, wire>> /\ pc \notin {"send", "write_wait"}
       BY <1>3, <1>n DEF HandlerSend, HandlerReturn, transport, InHandler
    <2>2. "handler" \in Frames /\ "tail" \in Frames
       BY DEF Frames
    <2> QED BY <1>3, <2>1, <2>2, SendFraming DEF HandlerSend, HandlerReturn
  <1>4. CASE HandlerRaise \/ HandlerReturnWebsocket
     BY <1>4, QuietFraming DEF HandlerRaise, HandlerReturnWebsocket, transport,
        http, body, answer
  <1>7. CASE HandlerGivesUp
    <2>1. /\ pending'.item = "none" /\ pc' = "handler"
          /\ UNCHANGED <<tr, wire, cycle, response_func, expecting_continue>>
       BY <1>7 DEF HandlerGivesUp, Idle, transport, http, body, answer
    <2> QED BY <2>1, QuietFraming DEF KeepsHead
  <1>8. CASE TaskStart \/ HeaderWake \/ ParseBad
     BY <1>8, QuietFraming DEF TaskStart, HeaderWake, ParseBad, transport, http,
        body, answer
  <1>9. CASE Loop
    <2>1. CASE keep_alive /\ stage = "IDLE" /\ recv_buffer # <<>>
      <3>1. /\ cycle' = cycle + 1 /\ response_func' = "header"
            /\ expecting_continue' = FALSE
            /\ UNCHANGED <<pending, wire>>
         BY <1>9, <2>1 DEF Loop
      <3>2. cycle \in Nat
         BY DEF TypeOK, HttpType
      <3>3. \A i \in 1..Len(wire) : wire[i].cycle \in Nat
         BY WireCycles
      <3>4. \A i \in 1..Len(wire') : wire'[i].cycle <= cycle' /\ wire'[i].cycle # cycle'
         BY <3>1, <3>2, <3>3 DEF Framing
      <3>5. Untouched'
         BY <3>4 DEF Untouched, Said
      <3>6. pending.item = "none"
         BY <1>9, <1>n DEF Loop
      <3> QED BY <3>1, <3>4, <3>5, <3>6 DEF Framing
    <2>2. CASE ~(keep_alive /\ stage = "IDLE" /\ recv_buffer # <<>>)
      <3>1. /\ UNCHANGED <<cycle, response_func, wire, pending, tr>>
            /\ expecting_continue' => expecting_continue
            /\ pc' \in {"idle", "finish"}
         BY <1>9, <2>2 DEF Loop, ReceiveMore, body
      <3> QED BY <3>1, QuietFraming
    <2> QED BY <2>1, <2>2
  <1>10. CASE IdleWake
    <2>1. /\ cycle' = cycle + 1 /\ response_func' = "header"
          /\ UNCHANGED <<pending, wire>>
       BY <1>10 DEF IdleWake
    <2>2. cycle \in Nat
       BY DEF TypeOK, HttpType
    <2>3. \A i \in 1..Len(wire) : wire[i].cycle \in Nat
       BY WireCycles
    <2>4. \A i \in 1..Len(wire') : wire'[i].cycle <= cycle' /\ wire'[i].cycle # cycle'
       BY <2>1, <2>2, <2>3 DEF Framing
    <2>5. Untouched'
       BY <2>4 DEF Untouched, Said
    <2>6. pending.item = "none"
       BY <1>10, <1>n DEF IdleWake
    <2> QED BY <2>1, <2>4, <2>5, <2>6 DEF Framing
  <1>11. CASE ParseWait
     BY <1>11, QuietFraming DEF ParseWait, ReceiveMore, http, body, answer
  <1>14. CASE ParseGood
    <2>1. /\ UNCHANGED <<cycle, response_func, wire, pending, tr>>
          /\ pc' = "handler" /\ pc = "parse"
       BY <1>14 DEF ParseGood, transport, answer
    <2>2. Untouched' = Untouched /\ Underway' = Underway
       BY <2>1 DEF Untouched, Underway, Said, Heads, Ends
    <2>3. pending.item = "none"
       BY <1>n, <2>1
    <2>4. tr = "open" => response_func = "header" /\ Untouched
       BY <2>1 DEF Framing
    <2>5. \A i \in 1..Len(wire') : wire'[i].cycle <= cycle'
       BY <2>1 DEF Framing
    <2> QED BY <2>1, <2>2, <2>3, <2>4, <2>5 DEF Framing
  <1>15. CASE Send
     BY <1>15, QuietFraming DEF Send, transport, http, body, answer
  <1>16. CASE Write
     BY <1>16, WriteFraming
  <1>17. CASE WriteRefused
    <2>1. /\ tr # "open" /\ tr' = tr
          /\ pending'.item = "none"
          /\ pc' \notin {"header", "parse"}
          /\ UNCHANGED <<wire, cycle, response_func, expecting_continue>>
       BY <1>0, <1>17, FrameTypes DEF WriteRefused, Idle, Lifecycle, transport,
          http, answer, body
    <2> QED BY <2>1, QuietFraming
  <1>18. CASE WriteCancelled
    <2>1. /\ pending'.item = "none"
          /\ pc' \notin {"header", "parse"}
          /\ UNCHANGED <<tr, wire, cycle, response_func, expecting_continue>>
       BY <1>0, <1>18, FrameTypes DEF WriteCancelled, Idle, transport, http,
          answer, body
    <2> QED BY <2>1, QuietFraming DEF KeepsHead
  <1>19. CASE ReadContinue
    <2>1. /\ pending'.item = "continue" /\ expecting_continue /\ ~expecting_continue'
          /\ pc' = "send" /\ pc = "read"
          /\ UNCHANGED <<tr, wire, cycle, response_func>>
       BY <1>19 DEF ReadContinue, BeginSend, transport, http, answer
    <2>2. Untouched' = Untouched /\ Underway' = Underway
       BY <2>1 DEF Untouched, Underway, Said, Heads, Ends
    <2>3. tr = "open" => Untouched
       BY <2>1 DEF Framing
    <2>4. pending.item = "none"
       BY <2>1, <1>n
    <2>5. \A i \in 1..Len(wire') : wire'[i].cycle <= cycle'
       BY <2>1 DEF Framing
    <2> QED BY <2>1, <2>2, <2>3, <2>4, <2>5 DEF Framing
  <1>20. CASE ReadWait
     BY <1>20, <1>0, FrameTypes, QuietFraming DEF ReadWait, ReceiveMore, http,
        body, answer
  <1>21. CASE ReadChunkHeader
    <2>1. /\ pc' \notin {"header", "parse"}
          /\ UNCHANGED <<tr, wire, cycle, response_func, expecting_continue, pending>>
       BY <1>21, <1>0, FrameTypes DEF ReadChunkHeader, ReceiveMore, answer
    <2> QED BY <2>1, QuietFraming
  <1>22. CASE ReadTooLarge \/ ReadEnd \/ ReadData
     BY <1>22, <1>0, FrameTypes, QuietFraming DEF ReadTooLarge, ReadEnd,
        ReadData, transport, http, body, answer
  <1>25. CASE ReadWake \/ ReadEndWake
     BY <1>25, <1>0, FrameTypes, QuietFraming DEF ReadWake, ReadEndWake,
        transport, http, body, answer
  <1>27. CASE HandleException
    <2>1. pending.item = "none" /\ UNCHANGED <<cycle, tr, wire>> /\ pc \notin {"send", "write_wait"}
       BY <1>27, <1>n DEF HandleException, transport
    <2>2. "herr" \in Frames
       BY DEF Frames
    <2>3. CASE stage = "HANDLER"
       BY <1>27, <2>1, <2>2, <2>3, SendFraming DEF HandleException
    <2>4. CASE stage # "HANDLER"
       BY <1>27, <2>1, <2>4, QuietFraming DEF HandleException
    <2> QED BY <2>3, <2>4
  <1>28. CASE After
    <2>1. pending.item = "none" /\ UNCHANGED <<cycle, tr, wire>> /\ pc \notin {"send", "write_wait"}
       BY <1>28, <1>n DEF After, transport
    <2>2. "final" \in Frames
       BY DEF Frames
    <2>3. CASE stage = "RESPONSE"
       BY <1>28, <2>1, <2>2, <2>3, SendFraming DEF After
    <2>4. CASE stage # "RESPONSE"
       BY <1>28, <2>1, <2>4, QuietFraming DEF After
    <2> QED BY <2>3, <2>4
  <1>29. CASE CancelBranch \/ ErrorResponse
     BY <1>29, QuietFraming DEF CancelBranch, ErrorResponse, transport, body, answer
  <1>31. CASE ErrorHandled
    <2>1. pending.item = "none" /\ UNCHANGED <<cycle, tr, wire>> /\ pc \notin {"send", "write_wait"}
       BY <1>31, <1>n DEF ErrorHandled, transport
    <2>2. pc \in Frames
       BY <1>31 DEF ErrorHandled, Frames
    <2>3. CASE stage = "HANDLER"
       BY <1>31, <2>1, <2>2, <2>3, SendFraming DEF ErrorHandled
    <2>4. CASE stage # "HANDLER"
       BY <1>31, <2>1, <2>4, QuietFraming DEF ErrorHandled
    <2> QED BY <2>3, <2>4
  <1>32. CASE Drain \/ NapEnd
     BY <1>32, QuietFraming DEF Drain, NapEnd, transport, http, body, answer
  <1>34. CASE Cancelled
    <2>1. /\ pc' \notin {"header", "parse"}
          /\ UNCHANGED <<tr, wire, cycle, response_func, expecting_continue, pending>>
       BY <1>34, <1>0, FrameTypes DEF Cancelled, CancelAt, transport, http, body, answer
    <2> QED BY <2>1, QuietFraming
  <1>35. CASE Finish
     BY <1>35, QuietFraming DEF Finish, Close, http, body, answer
  <1>36. CASE ClientRequest \/ TimePasses \/ CheckTimeouts \/ CheckClosed
     BY <1>36, QuietFraming DEF ClientRequest, TimePasses, CheckTimeouts,
        CheckClosed, task, transport, http, body, answer
  <1>37. CASE DataReceived \/ PeerClosed \/ SocketDrain \/ ConnectionLost
     BY <1>37, QuietFraming DEF DataReceived, PeerClosed, SocketDrain,
        ConnectionLost, task, http, body, answer
  <1>38. CASE CloserAbort \/ ShutdownAbort
     BY <1>38, QuietFraming DEF CloserAbort, ShutdownAbort, Abort, task, http,
        body, answer
  <1>39. CASE ShutdownBegin
     BY <1>39, QuietFraming DEF ShutdownBegin, Close, task, http, body, answer
  <1>47. CASE UNCHANGED vars
     BY <1>47, QuietFraming DEF vars, transport, http, body, answer, task
  <1> QED
     BY <1>1, <1>2, <1>3, <1>4, <1>7, <1>8, <1>9, <1>10, <1>11, <1>14, <1>15,
        <1>16, <1>17, <1>18, <1>19, <1>20, <1>21, <1>22, <1>25, <1>27, <1>28,
        <1>29, <1>31, <1>32, <1>34, <1>35, <1>36, <1>37, <1>38, <1>39, <1>47 DEF
        Next, Handler, TaskStep, Peer, Loopback, Shutdown

\* Only Write adds to the wire.
LEMMA WireKept ==
    ASSUME [Next]_vars, ~Write
    PROVE  UNCHANGED wire
  BY DEF vars, task, Next, Handler, TaskStep, Peer, Loopback, Shutdown,
     HandlerRead, HandlerRespond, HandlerSend, HandlerRaise, HandlerReturn,
     HandlerReturnWebsocket, HandlerGivesUp, TaskStart, Loop, IdleWake,
     ParseWait, HeaderWake, ParseBad, ParseGood, Send, WriteRefused,
     WriteCancelled, ReadContinue, ReadWait, ReadChunkHeader, ReadTooLarge,
     ReadEnd, ReadData, ReadWake, ReadEndWake, HandleException, After,
     CancelBranch, ErrorResponse, ErrorHandled, Drain, NapEnd, Cancelled,
     Finish, ClientRequest, DataReceived, PeerClosed, SocketDrain,
     ConnectionLost, TimePasses, CheckTimeouts, CheckClosed, CloserAbort,
     ShutdownBegin, ShutdownAbort

\* The peer can parse what it is sent -- whatever the handler does, fails at or is
\* cancelled in -- as long as no response head is given up while its write waits
\* for the transport.  Without that premise it is false: run lost_head.
THEOREM Framed == Spec /\ [][KeepsHead]_vars => []WellFramed
  <1>1. Init => Framing /\ WellFramed
    <2>1. Init => wire = <<>> /\ Len(wire) = 0
       BY DEF Init
    <2>2. Init => Framing
       BY <2>1 DEF Init, Framing, Untouched, Said, Idle
    <2>3. Init => WellFramed
       BY <2>1 DEF WellFramed
    <2> QED BY <2>2, <2>3
  <1>2. TypeOK /\ Lifecycle /\ Framing /\ [Next]_vars /\ [KeepsHead]_vars => Framing'
    <2>1. UNCHANGED vars => KeepsHead
       BY DEF vars, task, KeepsHead
    <2> QED BY <2>1, StepFraming
  <1>3. TypeOK /\ Framing /\ WellFramed /\ [Next]_vars => WellFramed'
    <2> SUFFICES ASSUME TypeOK, Framing, WellFramed, [Next]_vars PROVE WellFramed'
       OBVIOUS
    <2>1. CASE Write
       BY <2>1, WriteWellFramed
    <2>2. CASE ~Write
      <3>1. UNCHANGED wire
         BY <2>2, WireKept
      <3> QED BY <3>1 DEF WellFramed, Heads, Pieces, Ends
    <2> QED BY <2>1, <2>2
  <1> QED BY <1>1, <1>2, <1>3, LifecycleAlways, TypeCorrect, PTL DEF Spec

------------------------------------------------------------------------------
(* The request/response cycle *)

LEMMA CycleKept ==
    ASSUME [Next]_vars, ~Loop, ~IdleWake
    PROVE  UNCHANGED cycle
  BY DEF vars, http, Next, Handler, TaskStep, Peer, Loopback, Shutdown,
     HandlerRead, HandlerRespond, HandlerSend, HandlerRaise, HandlerReturn,
     HandlerReturnWebsocket, HandlerGivesUp, TaskStart, ParseWait, HeaderWake,
     ParseBad, ParseGood, Send, Write, WriteRefused, WriteCancelled,
     ReadContinue, ReadWait, ReadChunkHeader, ReadTooLarge, ReadEnd, ReadData,
     ReadWake, ReadEndWake, HandleException, After, CancelBranch, ErrorResponse,
     ErrorHandled, Drain, NapEnd, Cancelled, Finish, ClientRequest,
     DataReceived, PeerClosed, SocketDrain, ConnectionLost, TimePasses,
     CheckTimeouts, CheckClosed, CloserAbort, ShutdownBegin, ShutdownAbort

\* A transport that is no longer open never is again.
LEMMA OpenOnce ==
    ASSUME [Next]_vars, tr' = "open"
    PROVE  tr = "open"
  BY DEF vars, transport, Next, Handler, TaskStep, Peer, Loopback, Shutdown,
     HandlerRead, HandlerRespond, HandlerSend, HandlerRaise, HandlerReturn,
     HandlerReturnWebsocket, HandlerGivesUp, TaskStart, Loop, IdleWake,
     ParseWait, HeaderWake, ParseBad, ParseGood, Send, Write, WriteRefused,
     WriteCancelled, ReadContinue, ReadWait, ReadChunkHeader, ReadTooLarge,
     ReadEnd, ReadData, ReadWake, ReadEndWake, HandleException, After,
     CancelBranch, ErrorResponse, ErrorHandled, Drain, NapEnd, Cancelled,
     Finish, ClientRequest, DataReceived, PeerClosed, SocketDrain,
     ConnectionLost, TimePasses, CheckTimeouts, CheckClosed, CloserAbort,
     ShutdownBegin, ShutdownAbort, Close, Abort

Numbered == \A i \in 1..Len(wire) : wire[i].cycle <= cycle

\* The task takes one request more, and nothing is on the wire for it yet.
LEMMA Taken ==
    ASSUME TypeOK, Numbered, Loop \/ IdleWake, cycle' # cycle
    PROVE  /\ cycle' = cycle + 1 /\ UNCHANGED <<tr, wire>>
           /\ Numbered'
           /\ Heads(cycle)' = {} /\ Ends(cycle)' = {}
  <1>1. cycle' = cycle + 1 /\ UNCHANGED <<tr, wire>>
     BY DEF Loop, IdleWake, transport
  <1>2. cycle \in Nat
     BY DEF TypeOK, HttpType
  <1>3. \A i \in 1..Len(wire) : wire[i].cycle \in Nat /\ wire[i].cycle <= cycle
     BY WireCycles DEF Numbered
  <1>4. \A i \in 1..Len(wire') : wire'[i].cycle <= cycle' /\ wire'[i].cycle # cycle'
     BY <1>1, <1>2, <1>3
  <1> QED BY <1>1, <1>4 DEF Numbered, Heads, Ends

LEMMA StepNumbered ==
    ASSUME TypeOK, Numbered, [Next]_vars
    PROVE  Numbered'
  <1>1. CASE Write
    <2>1. cycle \in Nat
       BY DEF TypeOK, HttpType
    <2> QED BY <1>1, <2>1, WriteAdds DEF Numbered
  <1>2. CASE (Loop \/ IdleWake) /\ cycle' # cycle
     BY <1>2, Taken
  <1>3. CASE ~Write /\ cycle' = cycle
    <2>1. UNCHANGED wire
       BY <1>3, WireKept
    <2> QED BY <1>3, <2>1 DEF Numbered
  <1> QED BY <1>1, <1>2, <1>3, CycleKept

\* A write begins the response, ends it, or is a step the cycle does not see.
LEMMA WriteCycle ==
    ASSUME TypeOK, Write
    PROVE  [Cycle!Next]_(Cycle!vars)
  <1> DEFINE n == Len(wire')
             t == pending.item
  <1>1. /\ n = Len(wire) + 1 /\ Len(wire) \in Nat
        /\ wire'[n] = [item |-> t, cycle |-> cycle]
        /\ \A i \in 1..Len(wire) : wire'[i] = wire[i]
        /\ \A i \in 1..n : i \in 1..Len(wire) \/ i = n
        /\ t \in {"continue", "head", "whole", "data", "last"}
        /\ UNCHANGED <<cycle, tr, expecting_continue>>
     BY WriteAdds
  <1>2. tr = "open"
     BY DEF Write
  <1>3. \A i \in 1..Len(wire) : i \in 1..n
     BY <1>1
  <1> HIDE DEF n, t
  <1>4. \A i \in Heads(cycle) : i \in Heads(cycle)'
     BY <1>1, <1>3 DEF Heads, n
  <1>5. \A i \in Ends(cycle) : i \in Ends(cycle)'
     BY <1>1, <1>3 DEF Ends, n
  <1>6. \A i \in Heads(cycle)' : i \in Heads(cycle) \/ t \in {"head", "whole"}
     BY <1>1, <1>3 DEF Heads, n
  <1>7. \A i \in Ends(cycle)' : i \in Ends(cycle) \/ t \in {"last", "whole"}
     BY <1>1, <1>3 DEF Ends, n
  <1>8. t \in {"head", "whole"} => n \in Heads(cycle)'
     BY <1>1, <1>3 DEF Heads, n
  <1>9. t \in {"last", "whole"} => n \in Ends(cycle)'
     BY <1>1, <1>3 DEF Ends, n
  <1>10. CASE cycle = 0 \/ Ends(cycle) # {}
    <2>1. Phase = "ended" /\ Phase' = "ended"
       BY <1>1, <1>5, <1>10 DEF Phase
    <2> QED BY <1>1, <2>1 DEF Cycle!vars
  <1>11. CASE cycle # 0 /\ Ends(cycle) = {} /\ t \in {"last", "whole"}
    <2>1. Phase \in {"taken", "begun"} /\ Phase' = "ended"
       BY <1>1, <1>9, <1>11 DEF Phase
    <2> QED BY <1>1, <1>2, <2>1 DEF Cycle!Next, Cycle!End
  <1>12. CASE cycle # 0 /\ Ends(cycle) = {} /\ t = "head"
    <2>1. Ends(cycle)' = {} /\ Heads(cycle)' # {}
       BY <1>7, <1>8, <1>12
    <2>2. Phase' = "begun" /\ Phase \in {"taken", "begun"}
       BY <1>1, <1>12, <2>1 DEF Phase
    <2> QED BY <1>1, <1>2, <2>2 DEF Cycle!Next, Cycle!Begin, Cycle!vars
  <1>13. CASE cycle # 0 /\ Ends(cycle) = {} /\ t \in {"continue", "data"}
    <2>1. Ends(cycle)' = {} /\ (Heads(cycle)' = {} <=> Heads(cycle) = {})
       BY <1>4, <1>6, <1>7, <1>13
    <2>2. Phase' = Phase
       BY <1>1, <1>13, <2>1 DEF Phase
    <2> QED BY <1>1, <2>2 DEF Cycle!vars
  <1> QED BY <1>1, <1>10, <1>11, <1>12, <1>13

LEMMA StepCycle ==
    ASSUME TypeOK, Numbered, [Next]_vars,
           [cycle' > cycle /\ cycle > 0 /\ tr = "open" => Ends(cycle) # {}]_vars
    PROVE  [Cycle!Next]_(Cycle!vars)
  <1>1. CASE Write
     BY <1>1, WriteCycle
  <1>2. CASE (Loop \/ IdleWake) /\ cycle' # cycle
    <2>1. /\ cycle' = cycle + 1 /\ UNCHANGED tr
          /\ Heads(cycle)' = {} /\ Ends(cycle)' = {}
       BY <1>2, Taken
    <2>2. cycle \in Nat
       BY DEF TypeOK, HttpType
    <2>3. Phase' = "taken"
       BY <2>1, <2>2 DEF Phase
    <2>4. tr = "open" => Phase = "ended"
      <3>1. vars' # vars
         BY <2>1, <2>2 DEF vars, http
      <3> QED BY <2>1, <2>2, <3>1 DEF Phase
    <2> QED BY <2>1, <2>3, <2>4 DEF Cycle!Next, Cycle!Take
  <1>3. CASE ~Write /\ cycle' = cycle
    <2>1. UNCHANGED wire
       BY <1>3, WireKept
    <2>2. Phase' = Phase
       BY <1>3, <2>1 DEF Phase, Heads, Ends
    <2>3. tr' = "open" => tr = "open"
       BY OpenOnce
    <2>4. CASE tr = "open" /\ tr' # "open"
       BY <1>3, <2>2, <2>4 DEF Cycle!Next, Cycle!Close
    <2>5. CASE (tr' = "open") = (tr = "open")
       BY <1>3, <2>2, <2>5 DEF Cycle!vars
    <2> QED BY <2>3, <2>4, <2>5
  <1> QED BY <1>1, <1>2, <1>3, CycleKept

\* Http1Connection implements RequestCycle: requests are taken one at a time, a
\* response is begun and ended once, on an open transport only, and -- provided no
\* handler of a HEAD request abandons an await of its own -- none is taken over an
\* unfinished one.
THEOREM ConnectionIsCycle ==
    ASSUME HeadsWait
    PROVE  Spec => ImplementsCycle
  <1>1. Init => Numbered /\ Cycle!Init
    <2>1. Init => wire = <<>> /\ Len(wire) = 0
       BY DEF Init
    <2> QED BY <2>1 DEF Init, Numbered, Cycle!Init, Phase
  <1>2. TypeOK /\ Numbered /\ [Next]_vars => Numbered'
     BY StepNumbered
  <1>3. TypeOK /\ Numbered /\ [Next]_vars
           /\ [cycle' > cycle /\ cycle > 0 /\ tr = "open" => Ends(cycle) # {}]_vars
        => [Cycle!Next]_(Cycle!vars)
     BY StepCycle
  <1>4. Spec => NextAfterEnd
     BY OneAtATime
  <1> QED BY <1>1, <1>2, <1>3, <1>4, TypeCorrect, PTL DEF Spec, NextAfterEnd,
         ImplementsCycle, Cycle!Spec

------------------------------------------------------------------------------
(* Where requests begin *)

\* The bytes that are on their way to the task: a stream of whole messages, of
\* which the first may be begun.
Stream == recv_buffer \o planned

\* What follows what in a stream of whole messages.
GrammarAt(s, i) ==
    /\ s[i].t = "half" => i < Len(s) /\ s[i + 1].t = "head"
    /\ s[i].t = "head" =>
          LET b == BodyTokens(s[i].kind)
          IN /\ i + Len(b) <= Len(s)
             /\ \A j \in 1..Len(b) : s[i + j].t = b[j].t
             /\ i + Len(b) < Len(s) => s[i + Len(b) + 1].t = "half"
    /\ s[i].t = "size" =>
          i + 2 <= Len(s) /\ s[i + 1].t = "byte" /\ s[i + 2].t \in {"size", "zero"}
    /\ s[i].t = "zero" =>
          /\ i < Len(s) /\ s[i + 1].t = "end"
          /\ i + 1 < Len(s) => s[i + 2].t = "half"

Grammar(s) == \A i \in 1..Len(s) : GrammarAt(s, i)

AtHead(s, i)  == i <= Len(s) => s[i].t = "half"
AtChunk(s, i) == i <= Len(s) /\ s[i].t \in {"size", "zero", "junk"}

LEMMA BodyShape ==
    ASSUME NEW k \in KindType
    PROVE  LET b == BodyTokens(k)  n == Len(b)
           IN /\ b \in Seq(Tokens) /\ n \in Nat
              /\ k.framing = "none" => n = 0
              /\ k.framing = "length" => n = k.body /\ \A j \in 1..n : b[j].t = "byte"
              /\ k.framing \in {"chunked", "junk"} => AtChunk(b, 1)
              /\ \A j \in 1..n :
                    /\ b[j].t \notin {"half", "head"}
                    /\ b[j].t = "size" => /\ j + 2 <= n
                                          /\ b[j + 1].t = "byte"
                                          /\ b[j + 2].t \in {"size", "zero"}
                    /\ b[j].t = "zero" => j + 1 = n /\ b[j + 1].t = "end"
  <1>1. \A t \in {"byte", "size", "zero", "end", "junk"} :
           Token(t) \in Tokens /\ Token(t).t = t
     BY DEF Token, Tokens, NoKind, KindType
  <1>2. k.body \in Nat /\ k.framing \in {"none", "length", "chunked", "junk"}
     BY DEF KindType
  <1>3. CASE k.framing = "none"
     BY <1>3 DEF BodyTokens
  <1>4. CASE k.framing = "junk"
    <2>1. BodyTokens(k) = <<Token("junk")>>
       BY <1>4 DEF BodyTokens
    <2> QED BY <1>1, <1>4, <2>1 DEF AtChunk
  <1>5. CASE k.framing = "length"
    <2> DEFINE b == [i \in 1..k.body |-> Token("byte")]
    <2>1. BodyTokens(k) = b
       BY <1>5 DEF BodyTokens
    <2>2. b \in Seq(Tokens) /\ Len(b) = k.body
       BY <1>1, <1>2, IsASeq
    <2>3. \A j \in 1..Len(b) : b[j].t = "byte"
       BY <1>1, <2>2
    <2> HIDE DEF b
    <2> QED BY <1>2, <1>5, <2>1, <2>2, <2>3
  <1>6. CASE k.framing = "chunked"
    <2> DEFINE n == 2 * k.body + 2
               f(i) == IF i = 2 * k.body + 1 THEN "zero"
                       ELSE IF i = 2 * k.body + 2 THEN "end"
                       ELSE IF i % 2 = 1 THEN "size" ELSE "byte"
               b == [i \in 1..n |-> Token(f(i))]
    <2>1. BodyTokens(k) = b
       BY <1>6 DEF BodyTokens
    <2>2. \A i \in 1..n : f(i) \in {"byte", "size", "zero", "end"}
       OBVIOUS
    <2>3. n \in Nat /\ n >= 2
       BY <1>2
    <2>4. \A i \in 1..n : Token(f(i)) \in Tokens /\ Token(f(i)).t = f(i)
       BY <1>1, <2>2
    <2>5. b \in Seq(Tokens) /\ Len(b) = n
       BY <2>3, <2>4, IsASeq
    <2>6. \A i \in 1..n : b[i].t = f(i)
       BY <2>4
    <2>7. \A i \in 1..n : f(i) = "size" =>
             i + 2 <= n /\ f(i + 1) = "byte" /\ f(i + 2) \in {"size", "zero"}
      <3> SUFFICES ASSUME NEW i \in 1..n, f(i) = "size"
                   PROVE  i + 2 <= n /\ f(i + 1) = "byte" /\ f(i + 2) \in {"size", "zero"}
         OBVIOUS
      <3>1. i % 2 = 1 /\ i # 2 * k.body + 1 /\ i # 2 * k.body + 2
         OBVIOUS
      <3>2. i < 2 * k.body
         BY <1>2, <3>1
      <3>3. (i + 1) % 2 = 0 /\ (i + 2) % 2 = 1
         BY <3>1
      <3> QED BY <1>2, <3>2, <3>3
    <2>8. \A i \in 1..n : f(i) = "zero" => i + 1 = n /\ f(i + 1) = "end"
       BY <1>2
    <2>9. f(1) \in {"size", "zero"}
       BY <1>2
    <2> HIDE DEF b, f, n
    <2>10. \A i \in 1..n : b[i].t = "size" =>
             i + 2 <= n /\ b[i + 1].t = "byte" /\ b[i + 2].t \in {"size", "zero"}
      <3> TAKE i \in 1..n
      <3>1. i + 2 <= n => i + 1 \in 1..n /\ i + 2 \in 1..n
         BY <2>3
      <3> QED BY <2>6, <2>7, <3>1
    <2>11. \A i \in 1..n : b[i].t = "zero" => i + 1 = n /\ b[i + 1].t = "end"
      <3> TAKE i \in 1..n
      <3>1. i + 1 = n => i + 1 \in 1..n
         BY <2>3
      <3> QED BY <2>6, <2>8, <3>1
    <2>12. AtChunk(b, 1)
       BY <2>3, <2>5, <2>6, <2>9 DEF AtChunk
    <2> QED BY <1>6, <2>1, <2>2, <2>3, <2>5, <2>6, <2>10, <2>11, <2>12
  <1> QED BY <1>2, <1>3, <1>4, <1>5, <1>6

LEMMA MessageShape ==
    ASSUME NEW k \in KindType
    PROVE  LET b == BodyTokens(k)  m == Message(k)
           IN /\ m \in Seq(Tokens) /\ Len(m) = Len(b) + 2
              /\ m[1].t = "half" /\ m[2].t = "head" /\ m[2].kind = k
              /\ \A j \in 1..Len(b) : m[j + 2] = b[j]
  <1> DEFINE b == BodyTokens(k)
             h == <<Token("half"), [t |-> "head", kind |-> k]>>
  <1>1. b \in Seq(Tokens) /\ Len(b) \in Nat
     BY BodyShape
  <1>2. h \in Seq(Tokens) /\ Len(h) = 2
    <2>1. Token("half") \in Tokens /\ [t |-> "head", kind |-> k] \in Tokens
       BY DEF Token, Tokens, NoKind, KindType
    <2> QED BY <2>1
  <1>3. h[1].t = "half" /\ h[2].t = "head" /\ h[2].kind = k
     BY DEF Token
  <1>4. Message(k) = h \o b
     BY DEF Message
  <1> HIDE DEF b, h
  <1>5. /\ h \o b \in Seq(Tokens) /\ Len(h \o b) = Len(b) + 2
        /\ (h \o b)[1] = h[1] /\ (h \o b)[2] = h[2]
        /\ \A j \in 1..Len(b) : (h \o b)[j + 2] = b[j]
    <2>1. /\ h \o b \in Seq(Tokens) /\ Len(h \o b) = Len(h) + Len(b)
          /\ \A i \in 1..Len(h) + Len(b) :
                (h \o b)[i] = IF i <= Len(h) THEN h[i] ELSE b[i - Len(h)]
       BY <1>1, <1>2, ConcatProperties
    <2> QED BY <1>1, <1>2, <2>1
  <1> QED BY <1>3, <1>4, <1>5 DEF b

LEMMA TokensTyped ==
    ASSUME NEW s \in Seq(Tokens)
    PROVE  /\ Len(s) \in Nat
           /\ \A i \in 1..Len(s) : s[i] \in Tokens /\ s[i].kind \in KindType
  <1>1. \A i \in 1..Len(s) : s[i] \in Tokens
     BY ElementOfSeq
  <1> QED BY <1>1 DEF Tokens

\* What is left of a stream once its first tokens are taken off.
LEMMA GrammarDrop ==
    ASSUME NEW s \in Seq(Tokens), NEW r \in Seq(Tokens), NEW m \in 0..Len(s),
           Grammar(s), Len(r) = Len(s) - m, \A i \in 1..Len(r) : r[i] = s[i + m]
    PROVE  Grammar(r)
  <1>1. Len(s) \in Nat /\ Len(r) \in Nat /\ m \in Nat
     OBVIOUS
  <1> SUFFICES ASSUME NEW i \in 1..Len(r) PROVE GrammarAt(r, i)
     BY DEF Grammar
  <1>2. PICK p \in 1..Len(s) : p = i + m
     BY <1>1
  <1>3. r[i] = s[p] /\ \A j \in Nat : i + j <= Len(r) => r[i + j] = s[p + j]
    <2>1. \A j \in Nat : i + j <= Len(r) => i + j \in 1..Len(r) /\ (i + j) + m = p + j
       BY <1>1, <1>2
    <2> QED BY <1>2, <2>1
  <1>g. GrammarAt(s, p)
     BY DEF Grammar
  <1>n. p \in Nat /\ Len(s) - p = Len(r) - i
     BY <1>1, <1>2
  <1>4. CASE r[i].t = "half"
    <2>1. p < Len(s) /\ s[p + 1].t = "head"
       BY <1>g, <1>3, <1>4 DEF GrammarAt
    <2>2. i + 1 <= Len(r)
       BY <1>1, <1>n, <2>1
    <2> QED BY <1>1, <1>3, <1>4, <2>1, <2>2 DEF GrammarAt
  <1>5. CASE r[i].t = "head"
    <2> DEFINE b == BodyTokens(r[i].kind)
    <2>1. b \in Seq(Tokens) /\ Len(b) \in Nat
       BY TokensTyped, BodyShape
    <2>2. /\ p + Len(b) <= Len(s)
          /\ \A j \in 1..Len(b) : s[p + j].t = b[j].t
          /\ p + Len(b) < Len(s) => s[p + Len(b) + 1].t = "half"
       BY <1>g, <1>3, <1>5 DEF GrammarAt
    <2> HIDE DEF b
    <2>3. i + Len(b) <= Len(r)
       BY <1>1, <1>n, <2>1, <2>2
    <2>4. \A j \in 1..Len(b) : r[i + j].t = b[j].t
      <3> TAKE j \in 1..Len(b)
      <3>1. j \in Nat /\ i + j <= Len(r)
         BY <1>1, <2>1, <2>3
      <3> QED BY <1>3, <2>2, <3>1
    <2>5. i + Len(b) < Len(r) => r[i + Len(b) + 1].t = "half"
      <3> DEFINE j == Len(b) + 1
      <3>1. /\ i + Len(b) < Len(r) => p + Len(b) < Len(s) /\ i + j <= Len(r)
            /\ j \in Nat /\ i + Len(b) + 1 = i + j /\ p + Len(b) + 1 = p + j
         BY <1>1, <1>n, <2>1
      <3> HIDE DEF j
      <3> QED BY <1>3, <2>2, <3>1
    <2> QED BY <1>5, <2>3, <2>4, <2>5 DEF b, GrammarAt
  <1>6. CASE r[i].t = "size"
    <2>1. /\ p + 2 <= Len(s)
          /\ s[p + 1].t = "byte" /\ s[p + 2].t \in {"size", "zero"}
       BY <1>g, <1>3, <1>6 DEF GrammarAt
    <2>2. i + 1 <= Len(r) /\ i + 2 <= Len(r)
       BY <1>1, <1>n, <2>1
    <2>3. r[i + 1] = s[p + 1] /\ r[i + 2] = s[p + 2]
       BY <1>3, <2>2
    <2> QED BY <1>6, <2>1, <2>2, <2>3 DEF GrammarAt
  <1>7. CASE r[i].t = "zero"
    <2>1. /\ p < Len(s) /\ s[p + 1].t = "end"
          /\ p + 1 < Len(s) => s[p + 2].t = "half"
       BY <1>g, <1>3, <1>7 DEF GrammarAt
    <2>2. i + 1 <= Len(r) /\ i < Len(r)
       BY <1>1, <1>n, <2>1
    <2>3. r[i + 1] = s[p + 1]
       BY <1>3, <2>2
    <2>4. i + 1 < Len(r) => p + 1 < Len(s) /\ r[i + 2] = s[p + 2]
      <3>1. i + 1 < Len(r) => p + 1 < Len(s) /\ i + 2 <= Len(r)
         BY <1>1, <1>n
      <3> QED BY <1>3, <3>1
    <2> QED BY <1>7, <2>1, <2>2, <2>3, <2>4 DEF GrammarAt
  <1> QED BY <1>4, <1>5, <1>6, <1>7 DEF GrammarAt

\* The client sends another message: nothing changes for what is before it.
LEMMA GrammarAppend ==
    ASSUME NEW s \in Seq(Tokens), NEW k \in KindType, Grammar(s)
    PROVE  LET r == s \o Message(k)
           IN /\ r \in Seq(Tokens) /\ Grammar(r)
              /\ Len(r) > Len(s)
              /\ \A i \in 1..Len(s) : r[i] = s[i]
              /\ r[Len(s) + 1].t = "half"
  <1> DEFINE b == BodyTokens(k)
             m == Message(k)
             r == s \o m
  <1>1. /\ b \in Seq(Tokens) /\ Len(b) \in Nat
        /\ \A j \in 1..Len(b) :
              /\ b[j].t \notin {"half", "head"}
              /\ b[j].t = "size" => /\ j + 2 <= Len(b)
                                    /\ b[j + 1].t = "byte"
                                    /\ b[j + 2].t \in {"size", "zero"}
              /\ b[j].t = "zero" => j + 1 = Len(b) /\ b[j + 1].t = "end"
     BY BodyShape
  <1>2. /\ m \in Seq(Tokens) /\ Len(m) = Len(b) + 2
        /\ m[1].t = "half" /\ m[2].t = "head" /\ m[2].kind = k
        /\ \A j \in 1..Len(b) : m[j + 2] = b[j]
     BY MessageShape
  <1> HIDE DEF m, b
  <1>3. /\ r \in Seq(Tokens) /\ Len(r) = Len(s) + Len(m)
        /\ \A i \in 1..Len(s) + Len(m) :
              r[i] = IF i <= Len(s) THEN s[i] ELSE m[i - Len(s)]
     BY <1>2, ConcatProperties
  <1>n. Len(s) \in Nat
     OBVIOUS
  <1> HIDE DEF r
  <1>4. \A i \in 1..Len(s) : r[i] = s[i]
     BY <1>1, <1>2, <1>3
  <1>5. r[Len(s) + 1].t = "half" /\ r[Len(s) + 2].t = "head" /\ r[Len(s) + 2].kind = k
    <2>1. /\ Len(s) + 1 \in 1..Len(s) + Len(m) /\ ~(Len(s) + 1 <= Len(s))
          /\ Len(s) + 2 \in 1..Len(s) + Len(m) /\ ~(Len(s) + 2 <= Len(s))
          /\ (Len(s) + 1) - Len(s) = 1 /\ (Len(s) + 2) - Len(s) = 2
       BY <1>1, <1>2, <1>n
    <2>2. r[Len(s) + 1] = m[1] /\ r[Len(s) + 2] = m[2]
       BY <1>3, <2>1
    <2> QED BY <1>2, <2>2
  <1>6. \A j \in 1..Len(b) : r[Len(s) + 2 + j] = b[j]
    <2> TAKE j \in 1..Len(b)
    <2>1. /\ Len(s) + 2 + j \in 1..Len(s) + Len(m) /\ ~(Len(s) + 2 + j <= Len(s))
          /\ (Len(s) + 2 + j) - Len(s) = j + 2
       BY <1>1, <1>2, <1>n
    <2> QED BY <1>2, <1>3, <2>1
  <1>7. Len(r) = Len(s) + Len(b) + 2
    <2>1. Len(r) = Len(s) + Len(m)
       BY <1>3
    <2> QED BY <1>1, <1>2, <1>n, <2>1
  <1>8. Grammar(r)
    <2> SUFFICES ASSUME NEW i \in 1..Len(r) PROVE GrammarAt(r, i)
       BY DEF Grammar
    <2>1. CASE i \in 1..Len(s)
      <3>1. r[i] = s[i] /\ GrammarAt(s, i)
         BY <1>4, <2>1 DEF Grammar
      <3>2. CASE r[i].t = "half"
        <4>1. i < Len(s) /\ s[i + 1].t = "head"
           BY <2>1, <3>1, <3>2 DEF GrammarAt
        <4> QED BY <1>4, <1>7, <1>1, <1>n, <3>2, <4>1 DEF GrammarAt
      <3>3. CASE r[i].t = "head"
        <4> DEFINE c == BodyTokens(r[i].kind)
        <4>1. c \in Seq(Tokens) /\ Len(c) \in Nat
           BY <1>3, TokensTyped, BodyShape
        <4>2. /\ i + Len(c) <= Len(s)
              /\ \A j \in 1..Len(c) : s[i + j].t = c[j].t
              /\ i + Len(c) < Len(s) => s[i + Len(c) + 1].t = "half"
           BY <2>1, <3>1, <3>3 DEF GrammarAt
        <4> HIDE DEF c
        <4>3. \A j \in 1..Len(c) : r[i + j].t = c[j].t
          <5> TAKE j \in 1..Len(c)
          <5>1. i + j \in 1..Len(s)
             BY <1>n, <2>1, <4>1, <4>2
          <5> QED BY <1>4, <4>2, <5>1
        <4>4. i + Len(c) <= Len(r)
           BY <1>1, <1>7, <1>n, <4>1, <4>2
        <4>5. i + Len(c) < Len(r) => r[i + Len(c) + 1].t = "half"
          <5>1. CASE i + Len(c) < Len(s)
             BY <1>4, <1>n, <4>1, <4>2, <5>1
          <5>2. CASE i + Len(c) = Len(s)
             BY <1>5, <5>2
          <5> QED BY <1>n, <4>1, <4>2, <5>1, <5>2
        <4> QED BY <3>3, <4>3, <4>4, <4>5 DEF c, GrammarAt
      <3>4. CASE r[i].t = "size"
        <4>1. i + 2 <= Len(s) /\ s[i + 1].t = "byte" /\ s[i + 2].t \in {"size", "zero"}
           BY <2>1, <3>1, <3>4 DEF GrammarAt
        <4> QED BY <1>4, <1>7, <1>1, <1>n, <3>4, <4>1 DEF GrammarAt
      <3>5. CASE r[i].t = "zero"
        <4>1. /\ i < Len(s) /\ s[i + 1].t = "end"
              /\ i + 1 < Len(s) => s[i + 2].t = "half"
           BY <2>1, <3>1, <3>5 DEF GrammarAt
        <4>2. i < Len(r) /\ r[i + 1].t = "end"
          <5>1. i \in 1..Len(s) /\ i + 1 \in 1..Len(s)
             BY <1>n, <2>1, <4>1
          <5>2. r[i + 1] = s[i + 1]
             BY <1>4, <5>1
          <5> QED BY <1>1, <1>7, <1>n, <4>1, <5>1, <5>2
        <4>3. r[i + 2].t = "half"
          <5>1. CASE i + 1 < Len(s)
             BY <1>4, <1>n, <4>1, <5>1
          <5>2. CASE i + 1 = Len(s)
             BY <1>5, <1>n, <5>2
          <5> QED BY <1>n, <4>1, <5>1, <5>2
        <4> QED BY <3>5, <4>2, <4>3 DEF GrammarAt
      <3> QED BY <3>2, <3>3, <3>4, <3>5 DEF GrammarAt
    <2>2. CASE i = Len(s) + 1
       BY <1>1, <1>5, <1>7, <1>n, <2>2 DEF GrammarAt
    <2>3. CASE i = Len(s) + 2
      <3>1. r[i].t = "head" /\ BodyTokens(r[i].kind) = b
         BY <1>5, <2>3 DEF b
      <3>2. i + Len(b) = Len(r)
         BY <1>1, <1>7, <1>n, <2>3
      <3>3. \A j \in 1..Len(b) : r[i + j].t = b[j].t
         BY <1>6, <2>3
      <3> QED BY <1>1, <3>1, <3>2, <3>3 DEF GrammarAt
    <2>4. CASE i > Len(s) + 2
      <3> DEFINE j == i - (Len(s) + 2)
      <3>1. j \in 1..Len(b) /\ i = Len(s) + 2 + j
         BY <1>1, <1>7, <1>n, <2>4
      <3>2. r[i] = b[j]
         BY <1>6, <3>1
      <3>3. \A l \in {1, 2} : j + l <= Len(b) => r[i + l] = b[j + l]
        <4> TAKE l \in {1, 2}
        <4>1. j + l <= Len(b) => j + l \in 1..Len(b) /\ Len(s) + 2 + (j + l) = i + l
           BY <1>1, <1>n, <3>1
        <4> QED BY <1>6, <4>1
      <3> HIDE DEF j
      <3>4. r[i].t \notin {"half", "head"}
         BY <1>1, <3>1, <3>2
      <3>5. CASE r[i].t = "size"
        <4>1. /\ j + 2 <= Len(b)
              /\ b[j + 1].t = "byte" /\ b[j + 2].t \in {"size", "zero"}
           BY <1>1, <3>1, <3>2, <3>5
        <4>2. j + 1 <= Len(b) /\ i + 2 <= Len(r)
           BY <1>1, <1>7, <1>n, <3>1, <4>1
        <4>3. r[i + 1] = b[j + 1] /\ r[i + 2] = b[j + 2]
           BY <3>3, <4>1, <4>2
        <4> QED BY <3>5, <4>1, <4>2, <4>3 DEF GrammarAt
      <3>6. CASE r[i].t = "zero"
        <4>1. j + 1 = Len(b) /\ b[j + 1].t = "end"
           BY <1>1, <3>1, <3>2, <3>6
        <4> QED BY <1>1, <1>7, <1>n, <3>1, <3>3, <3>6, <4>1 DEF GrammarAt
      <3> QED BY <3>4, <3>5, <3>6 DEF GrammarAt
    <2> QED BY <1>n, <2>1, <2>2, <2>3, <2>4
  <1> QED BY <1>1, <1>3, <1>4, <1>5, <1>7, <1>8, <1>n DEF r, m

\* Where in the stream the task is, by the body it still has to read.
InBody(s) ==
    /\ request_body = "none" => AtHead(s, 1)
    /\ request_body = "length" =>
          /\ request_bytes_left <= Len(s)
          /\ \A i \in 1..request_bytes_left : s[i].t = "byte"
          /\ AtHead(s, request_bytes_left + 1)
    /\ request_body = "chunked" =>
          /\ request_bytes_left \in 0..1
          /\ request_bytes_left = 1 => 1 <= Len(s) /\ s[1].t = "byte"
          /\ AtChunk(s, request_bytes_left + 1)

\* while the final CRLF of a chunked body is awaited, it is still to be dropped
AtEnd ==
    /\ Len(recv_buffer) >= 1 /\ recv_buffer[1].t = "zero"
    /\ data_received => Len(recv_buffer) >= 2

Stops == {"cancel", "finish", "done"}

\* The strengthening RequestBoundary needs: the counters of the body reader say how
\* far the next head is, unless the connection is on its way out.
Aligned ==
    /\ pc \in {"idle", "header", "parse"} => request_body = "none" /\ keep_alive
    /\ pc \in {"start", "loop"} /\ keep_alive => request_body = "none"
    /\ pc = "nap" => ~keep_alive
    /\ pc \in {"header", "parse"} => recv_buffer # <<>>
    /\ pc = "idle" /\ data_received => recv_buffer # <<>>
    /\ pc = "end_wait" => request_body = "none" /\ request.framing \notin {"none", "length"}
    /\ request_body = "chunked" => request.framing \notin {"none", "length"}
    /\ request_body = "none" => request_bytes_left = 0
    /\ tr = "open" /\ keep_alive /\ pc \notin Stops =>
          /\ Grammar(Stream)
          /\ IF pc = "end_wait" THEN AtEnd ELSE InBody(Stream)

LEMMA StreamShape ==
    ASSUME NEW b \in Seq(Tokens), NEW p \in Seq(Tokens)
    PROVE  /\ b \o p \in Seq(Tokens) /\ Len(b \o p) = Len(b) + Len(p)
           /\ \A i \in 1..Len(b) : (b \o p)[i] = b[i]
           /\ \A i \in 1..Len(p) : (b \o p)[Len(b) + i] = p[i]
  <1>1. /\ b \o p \in Seq(Tokens) /\ Len(b \o p) = Len(b) + Len(p)
        /\ \A i \in 1..Len(b) + Len(p) :
              (b \o p)[i] = IF i <= Len(b) THEN b[i] ELSE p[i - Len(b)]
     BY ConcatProperties
  <1>2. \A i \in 1..Len(p) : /\ Len(b) + i \in 1..Len(b) + Len(p)
                             /\ ~(Len(b) + i <= Len(b)) /\ (Len(b) + i) - Len(b) = i
     OBVIOUS
  <1>3. \A i \in 1..Len(b) : i \in 1..Len(b) + Len(p) /\ i <= Len(b)
     OBVIOUS
  <1> QED BY <1>1, <1>2, <1>3

LEMMA Typed == TypeOK => recv_buffer \in Seq(Tokens) /\ planned \in Seq(Tokens)
  BY DEF TypeOK, ClientType, ProtocolType

\* The reader takes the first m tokens off the buffer.
LEMMA StreamDrop ==
    ASSUME NEW b \in Seq(Tokens), NEW p \in Seq(Tokens), NEW m \in 0..Len(b),
           Grammar(b \o p)
    PROVE  LET s == b \o p
               r == SubSeq(b, m + 1, Len(b)) \o p
           IN /\ r \in Seq(Tokens) /\ Len(r) = Len(s) - m
              /\ \A i \in 1..Len(r) : r[i] = s[i + m]
              /\ Grammar(r)
  <1> DEFINE d == SubSeq(b, m + 1, Len(b))
  <1>1. /\ d \in Seq(Tokens) /\ Len(d) = Len(b) - m
        /\ \A i \in 1..Len(d) : d[i] = b[i + m]
    <2>1. d \in Seq(Tokens)
       BY DropTyped
    <2>2. Len(d) = Len(b) - m
       OBVIOUS
    <2>3. \A i \in 1..Len(d) : d[i] = b[i + m]
       OBVIOUS
    <2> QED BY <2>1, <2>2, <2>3
  <1> HIDE DEF d
  <1>2. /\ d \o p \in Seq(Tokens) /\ Len(d \o p) = Len(d) + Len(p)
        /\ \A i \in 1..Len(d) : (d \o p)[i] = d[i]
        /\ \A i \in 1..Len(p) : (d \o p)[Len(d) + i] = p[i]
     BY <1>1, StreamShape
  <1>3. /\ b \o p \in Seq(Tokens) /\ Len(b \o p) = Len(b) + Len(p)
        /\ \A i \in 1..Len(b) : (b \o p)[i] = b[i]
        /\ \A i \in 1..Len(p) : (b \o p)[Len(b) + i] = p[i]
     BY StreamShape
  <1>n. Len(b) \in Nat /\ Len(p) \in Nat /\ m \in Nat /\ m <= Len(b)
     OBVIOUS
  <1>4. Len(d \o p) = Len(b \o p) - m
     BY <1>1, <1>2, <1>3, <1>n
  <1>5. \A i \in 1..Len(d \o p) : (d \o p)[i] = (b \o p)[i + m]
    <2> TAKE i \in 1..Len(d \o p)
    <2>1. CASE i \in 1..Len(d)
      <3>1. i + m \in 1..Len(b)
         BY <1>1, <1>n, <2>1
      <3> QED BY <1>1, <1>2, <1>3, <2>1, <3>1
    <2>2. CASE i > Len(d)
      <3>1. PICK j \in 1..Len(p) : i = Len(d) + j
        <4>1. i - Len(d) \in 1..Len(p)
           BY <1>1, <1>2, <1>n, <2>2
        <4>2. i = Len(d) + (i - Len(d))
           BY <1>1, <1>2, <1>n
        <4> QED BY <4>1, <4>2
      <3>2. i + m = Len(b) + j
         BY <1>1, <1>n, <3>1
      <3> QED BY <1>2, <1>3, <3>1, <3>2
    <2> QED BY <1>1, <1>n, <2>1, <2>2
  <1>6. m \in 0..Len(b \o p)
     BY <1>3, <1>n
  <1>7. Grammar(d \o p)
     BY <1>2, <1>3, <1>4, <1>5, <1>6, GrammarDrop
  <1> QED BY <1>2, <1>4, <1>5, <1>7 DEF d

\* A step that moves no token and does not touch the counters of the reader.
LEMMA QuietAligned ==
    ASSUME TypeOK, Aligned,
           UNCHANGED <<recv_buffer, planned, request, request_body, request_bytes_left>>,
           data_received' => data_received,
           tr' = "open" => tr = "open",
           keep_alive' => keep_alive,
           pc' \in {"idle", "header", "parse"} => pc' = pc /\ keep_alive' = keep_alive,
           pc' \in {"start", "loop"} => pc' = pc \/ pc = "start",
           pc' = "nap" => pc = "nap",
           pc' = "end_wait" => pc = "end_wait",
           pc = "end_wait" => pc' \in Stops \cup {"end_wait"},
           pc \in Stops => pc' \in Stops \/ ~keep_alive'
    PROVE  Aligned'
  <1>1. Stream' = Stream
     BY DEF Stream
  <1>2. InBody(Stream)' = InBody(Stream)
     BY <1>1 DEF InBody, AtHead, AtChunk
  <1>3. AtEnd => AtEnd'
     BY DEF AtEnd
  <1>4. Grammar(Stream) => Grammar(Stream)'
    <2>1. Grammar(Stream) => Grammar(Stream')
       BY <1>1
    <2> QED BY <2>1 DEF Grammar, GrammarAt
  <1>5. tr' = "open" /\ keep_alive' /\ pc' \notin Stops =>
          /\ Grammar(Stream)'
          /\ IF pc' = "end_wait" THEN AtEnd' ELSE InBody(Stream)'
     BY <1>2, <1>3, <1>4 DEF Aligned, Stops
  <1> QED BY <1>5 DEF Aligned

LEMMA ParseAligned ==
    ASSUME TypeOK, Aligned, tr = "open", ParseGood
    PROVE  Aligned'
  <1> DEFINE s == Stream
             r == SubSeq(recv_buffer, 3, Len(recv_buffer)) \o planned
             k == recv_buffer[2].kind
             b == BodyTokens(k)
  <1>1. /\ Len(recv_buffer) >= 2 /\ recv_buffer[1].t = "half"
        /\ UNCHANGED planned /\ recv_buffer' = SubSeq(recv_buffer, 3, Len(recv_buffer))
        /\ pc' = "handler" /\ pc = "parse" /\ request' = k /\ UNCHANGED tr
        /\ request_body' = CASE k.framing = "none"   -> "none"
                             [] k.framing = "length" -> "length"
                             [] OTHER                -> "chunked"
        /\ request_bytes_left' = IF k.framing = "length" THEN k.body ELSE 0
     BY DEF ParseGood, client, transport
  <1>2. recv_buffer \in Seq(Tokens) /\ planned \in Seq(Tokens) /\ Len(recv_buffer) \in Nat
     BY Typed
  <1>3. /\ s \in Seq(Tokens) /\ Len(s) = Len(recv_buffer) + Len(planned)
        /\ s[1] = recv_buffer[1] /\ s[2] = recv_buffer[2]
     BY <1>1, <1>2, StreamShape DEF Stream
  <1>4. Grammar(s)
     BY <1>1 DEF Aligned, Stops
  <1>5. /\ r \in Seq(Tokens) /\ Len(r) = Len(s) - 2 /\ Grammar(r)
        /\ \A i \in 1..Len(r) : r[i] = s[i + 2]
    <2>1. 2 \in 0..Len(recv_buffer) /\ Grammar(recv_buffer \o planned)
       BY <1>1, <1>2, <1>4 DEF Stream
    <2> QED BY <1>2, <2>1, StreamDrop DEF Stream
  <1>6. Stream' = r
     BY <1>1 DEF Stream
  <1>n. Len(s) \in Nat /\ Len(s) >= 2
     BY <1>1, <1>2, <1>3
  <1>7. GrammarAt(s, 1) /\ GrammarAt(s, 2)
     BY <1>4, <1>n DEF Grammar
  <1>8. s[2].t = "head" /\ s[2].kind = k
     BY <1>1, <1>3, <1>7 DEF GrammarAt
  <1>9. k \in KindType
     BY <1>3, <1>8, <1>n, TokensTyped
  <1>10. /\ b \in Seq(Tokens) /\ Len(b) \in Nat
         /\ k.framing = "none" => Len(b) = 0
         /\ k.framing = "length" => Len(b) = k.body /\ \A j \in 1..Len(b) : b[j].t = "byte"
         /\ k.framing \in {"chunked", "junk"} => AtChunk(b, 1)
         /\ k.body \in Nat /\ k.framing \in {"none", "length", "chunked", "junk"}
     BY <1>9, BodyShape DEF KindType
  <1>11. /\ 2 + Len(b) <= Len(s)
         /\ \A j \in 1..Len(b) : s[2 + j].t = b[j].t
         /\ 2 + Len(b) < Len(s) => s[2 + Len(b) + 1].t = "half"
     BY <1>7, <1>8 DEF GrammarAt
  <1> HIDE DEF s, r, k, b
  <1>12. Len(b) <= Len(r)
     BY <1>5, <1>10, <1>11, <1>n
  <1>13. \A j \in 1..Len(b) : r[j].t = b[j].t
    <2> TAKE j \in 1..Len(b)
    <2>1. j \in 1..Len(r) /\ j + 2 = 2 + j
       BY <1>5, <1>10, <1>12, <1>n
    <2> QED BY <1>5, <1>11, <2>1
  <1>14. AtHead(r, Len(b) + 1)
    <2>1. Len(b) + 1 <= Len(r) =>
             /\ Len(b) + 1 \in 1..Len(r) /\ 2 + Len(b) < Len(s)
             /\ (Len(b) + 1) + 2 = 2 + Len(b) + 1
       BY <1>5, <1>10, <1>n
    <2> QED BY <1>5, <1>11, <2>1 DEF AtHead
  <1>15. InBody(Stream)'
    <2>1. CASE k.framing = "none"
       BY <1>1, <1>6, <1>10, <1>14, <2>1 DEF InBody, AtHead, AtChunk
    <2>2. CASE k.framing = "length"
       BY <1>1, <1>6, <1>10, <1>12, <1>13, <1>14, <2>2 DEF InBody, AtHead, AtChunk
    <2>3. CASE k.framing \in {"chunked", "junk"}
      <3>1. AtChunk(r, 1)
         BY <1>5, <1>10, <1>12, <1>13, <1>n, <2>3 DEF AtChunk
      <3> QED BY <1>1, <1>6, <2>3, <3>1 DEF InBody, AtHead, AtChunk
    <2> QED BY <1>10, <2>1, <2>2, <2>3
  <1>16. Grammar(Stream)'
     BY <1>5, <1>6 DEF Grammar, GrammarAt
  <1> QED BY <1>1, <1>10, <1>15, <1>16 DEF Aligned

LEMMA DataAligned ==
    ASSUME TypeOK, Aligned, ReadData, tr = "open", keep_alive
    PROVE  Aligned'
  <1> DEFINE s == Stream
             n == IF Len(recv_buffer) < request_bytes_left
                    THEN Len(recv_buffer) ELSE request_bytes_left
             r == SubSeq(recv_buffer, n + 1, Len(recv_buffer)) \o planned
  <1>1. /\ recv_buffer' = SubSeq(recv_buffer, n + 1, Len(recv_buffer))
        /\ request_bytes_left' = request_bytes_left - n
        /\ request_bytes_left > 0 /\ recv_buffer # <<>>
        /\ UNCHANGED <<planned, tr, keep_alive, request, request_body>>
        /\ pc = "read" /\ pc' = OnReturn(ctx)
     BY DEF ReadData, client, transport, http
  <1>2. recv_buffer \in Seq(Tokens) /\ planned \in Seq(Tokens) /\ Len(recv_buffer) \in Nat
     BY Typed
  <1>3. request_bytes_left \in Nat /\ ctx \in Frames
     BY DEF TypeOK, BodyType, TaskType
  <1>4. n \in 0..Len(recv_buffer) /\ n >= 1 /\ n <= request_bytes_left
     BY <1>1, <1>2, <1>3
  <1>5. Grammar(s) /\ InBody(s)
     BY <1>1 DEF Aligned, Stops
  <1> HIDE DEF n
  <1>6. /\ r \in Seq(Tokens) /\ Len(r) = Len(s) - n /\ Grammar(r)
        /\ \A i \in 1..Len(r) : r[i] = s[i + n]
     BY <1>2, <1>4, <1>5, StreamDrop DEF Stream
  <1>7. Stream' = r
     BY <1>1 DEF Stream
  <1>8. s \in Seq(Tokens) /\ Len(s) \in Nat /\ Len(s) >= n
     BY <1>2, <1>4, StreamShape DEF Stream
  <1>9. pc' \in {"handler", "after", "drain"}
     BY <1>1, <1>3, FrameTypes
  <1> HIDE DEF s, r
  <1>10. InBody(Stream)'
    <2>1. request_body # "none"
       BY <1>1 DEF Aligned
    <2>2. CASE request_body = "length"
      <3>1. /\ request_bytes_left <= Len(s)
            /\ \A i \in 1..request_bytes_left : s[i].t = "byte"
            /\ AtHead(s, request_bytes_left + 1)
         BY <1>5, <2>2 DEF InBody
      <3>2. request_bytes_left' <= Len(r)
         BY <1>1, <1>3, <1>4, <1>6, <1>8, <3>1
      <3>3. \A i \in 1..request_bytes_left' : r[i].t = "byte"
        <4> TAKE i \in 1..request_bytes_left'
        <4>1. i \in 1..Len(r) /\ i + n \in 1..request_bytes_left
           BY <1>1, <1>3, <1>4, <1>6, <1>8, <3>1
        <4> QED BY <1>6, <3>1, <4>1
      <3>4. AtHead(r, request_bytes_left' + 1)
        <4> DEFINE i == request_bytes_left' + 1
        <4>1. i <= Len(r) => /\ i \in 1..Len(r) /\ i + n = request_bytes_left + 1
                             /\ request_bytes_left + 1 <= Len(s)
           BY <1>1, <1>3, <1>4, <1>6, <1>8
        <4> HIDE DEF i
        <4>2. AtHead(r, i)
           BY <1>6, <3>1, <4>1 DEF AtHead
        <4> QED BY <4>2 DEF i
      <3> QED BY <1>1, <1>7, <2>2, <3>2, <3>3, <3>4 DEF InBody, AtHead, AtChunk
    <2>3. CASE request_body = "chunked"
      <3>1. request_bytes_left = 1 /\ AtChunk(s, 2)
         BY <1>1, <1>5, <2>3 DEF InBody
      <3>2. n = 1 /\ request_bytes_left' = 0
         BY <1>1, <1>4, <3>1
      <3>3. AtChunk(r, 1)
         BY <1>6, <1>8, <3>1, <3>2 DEF AtChunk
      <3>4. AtChunk(Stream', request_bytes_left' + 1)
         BY <1>7, <3>2, <3>3
      <3>5. request_body' = "chunked"
         BY <1>1, <2>3
      <3>6. request_bytes_left' \in 0..1 /\ request_bytes_left' # 1
         BY <3>2
      <3> QED BY <3>4, <3>5, <3>6 DEF InBody, AtChunk
    <2> QED BY <2>1, <2>2, <2>3 DEF TypeOK, BodyType
  <1>11. Grammar(Stream)'
    <2>1. Grammar(Stream')
       BY <1>6, <1>7
    <2> QED BY <2>1 DEF Grammar, GrammarAt
  <1>12. request_body # "none"
     BY <1>1 DEF Aligned
  <1> QED BY <1>1, <1>9, <1>10, <1>11, <1>12 DEF Aligned

LEMMA ChunkAligned ==
    ASSUME TypeOK, Lifecycle, Aligned, ReadChunkHeader, tr = "open", keep_alive
    PROVE  Aligned'
  <1> DEFINE s == Stream
  <1>1. /\ pc = "read" /\ NeedsChunkHeader /\ recv_buffer # <<>>
        /\ UNCHANGED <<planned, tr, request>>
     BY DEF ReadChunkHeader, client
  <1>2. /\ recv_buffer \in Seq(Tokens) /\ planned \in Seq(Tokens)
        /\ Len(recv_buffer) \in Nat /\ Len(recv_buffer) >= 1 /\ Len(planned) \in Nat
     BY <1>1, Typed
  <1>3. Grammar(s) /\ InBody(s)
     BY <1>1 DEF Aligned, Stops
  <1>4. /\ s \in Seq(Tokens) /\ Len(s) = Len(recv_buffer) + Len(planned)
        /\ \A i \in 1..Len(recv_buffer) : s[i] = recv_buffer[i]
     BY <1>2, StreamShape DEF Stream
  <1>n. Len(s) \in Nat /\ Len(s) >= 1 /\ s[1] = recv_buffer[1]
     BY <1>2, <1>4
  <1>5. request_body = "chunked" /\ request_bytes_left = 0 /\ AtChunk(s, 1)
     BY <1>1, <1>3 DEF NeedsChunkHeader, InBody
  <1>6. GrammarAt(s, 1)
     BY <1>3, <1>n DEF Grammar
  <1>7. ctx \in Frames /\ request.framing \notin {"none", "length"} /\ attached
     BY <1>5 DEF TypeOK, TaskType, Aligned, Lifecycle
  <1> HIDE DEF s
  <1>8. CASE recv_buffer[1].t = "size"
    <2> DEFINE r == SubSeq(recv_buffer, 2, Len(recv_buffer)) \o planned
    <2>1. /\ recv_buffer' = Tail(recv_buffer)
          /\ request_bytes_left' = 1
          /\ UNCHANGED <<keep_alive, request_body, pc>>
       BY <1>8 DEF ReadChunkHeader
    <2>2. /\ r \in Seq(Tokens) /\ Len(r) = Len(s) - 1 /\ Grammar(r)
          /\ \A i \in 1..Len(r) : r[i] = s[i + 1]
      <3>1. 1 \in 0..Len(recv_buffer) /\ Grammar(recv_buffer \o planned)
         BY <1>2, <1>3 DEF s, Stream
      <3> QED BY <1>2, <3>1, StreamDrop DEF s, Stream
    <2>3. Stream' = r
      <3>1. Tail(recv_buffer) = SubSeq(recv_buffer, 2, Len(recv_buffer))
         OBVIOUS
      <3> QED BY <1>1, <2>1, <3>1 DEF Stream
    <2> HIDE DEF r
    <2>4. 3 <= Len(s) /\ s[2].t = "byte" /\ s[3].t \in {"size", "zero"}
       BY <1>6, <1>8, <1>n DEF GrammarAt
    <2>5. 2 <= Len(r) /\ r[1].t = "byte" /\ r[2].t \in {"size", "zero"}
       BY <1>n, <2>2, <2>4
    <2>6. AtChunk(Stream', request_bytes_left' + 1)
       BY <2>1, <2>3, <2>5 DEF AtChunk
    <2>7. request_body' = "chunked" /\ request_bytes_left' = 1
       BY <1>5, <2>1
    <2>8. 1 <= Len(Stream') /\ Stream'[1].t = "byte"
       BY <1>n, <2>2, <2>3, <2>5
    <2>9. InBody(Stream)'
       BY <2>6, <2>7, <2>8 DEF InBody, AtChunk
    <2>10. Grammar(Stream)'
      <3>1. Grammar(Stream')
         BY <2>2, <2>3
      <3> QED BY <3>1 DEF Grammar, GrammarAt
    <2> QED BY <1>1, <1>7, <2>1, <2>7, <2>9, <2>10 DEF Aligned
  <1>9. CASE recv_buffer[1].t = "zero" /\ Len(recv_buffer) > 1
    <2> DEFINE r == SubSeq(recv_buffer, 3, Len(recv_buffer)) \o planned
    <2>1. /\ recv_buffer' = SubSeq(recv_buffer, 3, Len(recv_buffer))
          /\ request_body' = "none" /\ request_bytes_left' = 0
          /\ pc' = OnReturn(ctx)
       BY <1>5, <1>9 DEF ReadChunkHeader
    <2>2. /\ r \in Seq(Tokens) /\ Len(r) = Len(s) - 2 /\ Grammar(r)
          /\ \A i \in 1..Len(r) : r[i] = s[i + 2]
      <3>1. 2 \in 0..Len(recv_buffer) /\ Grammar(recv_buffer \o planned)
         BY <1>2, <1>3, <1>9 DEF s, Stream
      <3> QED BY <1>2, <3>1, StreamDrop DEF s, Stream
    <2>3. Stream' = r
       BY <1>1, <2>1 DEF Stream
    <2> HIDE DEF r
    <2>4. 2 < Len(s) => s[3].t = "half"
       BY <1>6, <1>9, <1>n DEF GrammarAt
    <2>5. AtHead(r, 1)
      <3>1. 1 <= Len(r) => r[1] = s[3] /\ 2 < Len(s)
         BY <1>n, <2>2
      <3> QED BY <2>4, <3>1 DEF AtHead
    <2>6. InBody(Stream)'
       BY <2>1, <2>3, <2>5 DEF InBody, AtHead
    <2>7. Grammar(Stream)'
      <3>1. Grammar(Stream')
         BY <2>2, <2>3
      <3> QED BY <3>1 DEF Grammar, GrammarAt
    <2>8. pc' \in {"handler", "after", "drain"}
       BY <1>7, <2>1, FrameTypes
    <2> QED BY <2>1, <2>6, <2>7, <2>8 DEF Aligned
  <1>10. CASE recv_buffer[1].t = "zero" /\ Len(recv_buffer) = 1
    <2>1. /\ request_body' = "none" /\ request_bytes_left' = 0
          /\ data_received' = FALSE /\ pc' = "end_wait"
          /\ UNCHANGED recv_buffer
       BY <1>5, <1>7, <1>10 DEF ReadChunkHeader, ReceiveMore
    <2>2. Grammar(Stream)'
      <3>1. Grammar(Stream')
         BY <1>1, <1>3, <2>1 DEF s, Stream
      <3> QED BY <3>1 DEF Grammar, GrammarAt
    <2>3. AtEnd'
       BY <1>2, <1>10, <2>1 DEF AtEnd
    <2> QED BY <1>1, <1>7, <2>1, <2>2, <2>3 DEF Aligned
  <1>11. CASE recv_buffer[1].t \notin {"size", "zero"}
    <2>1. /\ keep_alive' = FALSE /\ pc' = OnRaise(ctx)
          /\ UNCHANGED <<recv_buffer, request_body, request_bytes_left>>
       BY <1>11 DEF ReadChunkHeader
    <2>2. Grammar(Stream)'
      <3>1. Grammar(Stream')
         BY <1>1, <1>3, <2>1 DEF s, Stream
      <3> QED BY <3>1 DEF Grammar, GrammarAt
    <2>3. pc' \in {"herr", "fail", "err2", "finish"}
       BY <1>7, <2>1, FrameTypes
    <2> QED BY <1>1, <1>5, <1>7, <2>1, <2>2, <2>3 DEF Aligned
  <1>12. Len(recv_buffer) = 1 \/ Len(recv_buffer) > 1
    <2>1. Len(recv_buffer) \in Nat /\ Len(recv_buffer) >= 1
       BY <1>2
    <2>2. \A n \in Nat : n >= 1 => n = 1 \/ n > 1
       OBVIOUS
    <2> QED BY <2>1, <2>2
  <1> QED BY <1>8, <1>9, <1>10, <1>11, <1>12

LEMMA EndAligned ==
    ASSUME TypeOK, Aligned, ReadEndWake, tr = "open", keep_alive
    PROVE  Aligned'
  <1> DEFINE s == Stream
             r == SubSeq(recv_buffer, 3, Len(recv_buffer)) \o planned
  <1>1. /\ pc = "end_wait" /\ data_received /\ pc' = OnReturn(ctx)
        /\ recv_buffer' = SubSeq(recv_buffer, 3, Len(recv_buffer))
        /\ UNCHANGED <<planned, tr, keep_alive, request, request_body, request_bytes_left>>
     BY DEF ReadEndWake, client, transport, http, body
  <1>2. /\ recv_buffer[1].t = "zero" /\ Len(recv_buffer) >= 2
        /\ request_body = "none" /\ request_bytes_left = 0
     BY <1>1 DEF Aligned, AtEnd, Stops
  <1>3. recv_buffer \in Seq(Tokens) /\ planned \in Seq(Tokens) /\ Len(recv_buffer) \in Nat
     BY Typed
  <1>4. /\ s \in Seq(Tokens) /\ Len(s) = Len(recv_buffer) + Len(planned)
        /\ s[1] = recv_buffer[1]
     BY <1>2, <1>3, StreamShape DEF Stream
  <1>5. Grammar(s)
     BY <1>1 DEF Aligned, Stops
  <1>6. /\ r \in Seq(Tokens) /\ Len(r) = Len(s) - 2 /\ Grammar(r)
        /\ \A i \in 1..Len(r) : r[i] = s[i + 2]
    <2>1. 2 \in 0..Len(recv_buffer) /\ Grammar(recv_buffer \o planned)
       BY <1>2, <1>3, <1>5 DEF Stream
    <2> QED BY <1>3, <2>1, StreamDrop DEF Stream
  <1>7. Stream' = r
     BY <1>1 DEF Stream
  <1>n. Len(s) \in Nat /\ Len(s) >= 2
     BY <1>2, <1>3, <1>4
  <1>8. 2 < Len(s) => s[3].t = "half"
    <2>1. GrammarAt(s, 1)
       BY <1>5, <1>n DEF Grammar
    <2> QED BY <1>2, <1>4, <1>n, <2>1 DEF GrammarAt
  <1> HIDE DEF s, r
  <1>9. AtHead(r, 1)
    <2>1. 1 <= Len(r) => r[1] = s[3] /\ 2 < Len(s)
       BY <1>n, <1>6
    <2> QED BY <1>8, <2>1 DEF AtHead
  <1>10. InBody(Stream)'
     BY <1>1, <1>2, <1>7, <1>9 DEF InBody, AtHead
  <1>11. Grammar(Stream)'
    <2>1. Grammar(Stream')
       BY <1>6, <1>7
    <2> QED BY <2>1 DEF Grammar, GrammarAt
  <1>12. pc' \in {"handler", "after", "drain"}
     BY <1>1, FrameTypes DEF TypeOK, TaskType
  <1> QED BY <1>1, <1>2, <1>10, <1>11, <1>12 DEF Aligned

\* A connection that does not go on has nothing to keep in step.
LEMMA OutAligned ==
    ASSUME TypeOK, Aligned, ReadData \/ ReadChunkHeader \/ ReadEndWake,
           tr # "open" \/ ~keep_alive
    PROVE  Aligned'
  <1>0. ctx \in Frames /\ request_bytes_left \in Nat
     BY DEF TypeOK, TaskType, BodyType
  <1>1. UNCHANGED <<tr, request>> /\ (keep_alive' => keep_alive)
     BY DEF ReadData, ReadChunkHeader, ReadEndWake, transport, http
  <1>2. pc' \notin {"idle", "header", "parse", "start", "loop", "nap"}
     BY <1>0, FrameTypes DEF ReadData, ReadChunkHeader, ReadEndWake, ReceiveMore
  <1>3. CASE ReadData
    <2>1. pc' # "end_wait" /\ UNCHANGED request_body /\ request_body # "none"
       BY <1>0, <1>3, FrameTypes DEF ReadData, Aligned
    <2> QED BY <1>1, <1>2, <2>1 DEF Aligned
  <1>4. CASE ReadChunkHeader
    <2>1. request_body = "chunked" /\ request_body' \in {"none", "chunked"}
       BY <1>4 DEF ReadChunkHeader, NeedsChunkHeader
    <2>2. request_body' = "none" => request_bytes_left' = 0
       BY <1>4, <2>1 DEF ReadChunkHeader, NeedsChunkHeader
    <2>3. pc' = "end_wait" => request_body' = "none"
       BY <1>0, <1>4, FrameTypes DEF ReadChunkHeader, ReceiveMore
    <2> QED BY <1>1, <1>2, <2>1, <2>2, <2>3 DEF Aligned
  <1>5. CASE ReadEndWake
    <2>1. pc' # "end_wait" /\ UNCHANGED <<request_body, request_bytes_left>>
       BY <1>0, <1>5, FrameTypes DEF ReadEndWake, body
    <2> QED BY <1>1, <1>2, <2>1 DEF Aligned
  <1> QED BY <1>3, <1>4, <1>5

LEMMA ClientAligned ==
    ASSUME TypeOK, Aligned, ConnectionAssumption, ClientRequest
    PROVE  Aligned'
  <1> DEFINE s == Stream
             Goes == tr = "open" /\ keep_alive /\ pc \notin Stops
  <1>1. PICK k \in Kinds : planned' = Message(k)
     BY DEF ClientRequest
  <1>2. /\ planned = <<>>
        /\ UNCHANGED <<recv_buffer, request, request_body, request_bytes_left,
                       data_received, tr, keep_alive, pc>>
     BY DEF ClientRequest, protocol, http, transport, body, task
  <1>3. recv_buffer \in Seq(Tokens) /\ k \in KindType
     BY Typed, <1>1 DEF ConnectionAssumption
  <1>4. s = recv_buffer
     BY <1>2, <1>3, ConcatEmptySeq DEF Stream
  <1>5. Stream' = s \o Message(k)
     BY <1>1, <1>2, <1>4 DEF Stream
  <1>g. CASE ~Goes
     BY <1>2, <1>g DEF Aligned
  <1>h. SUFFICES ASSUME Goes PROVE Aligned'
     BY <1>g
  <1>6. /\ Stream' \in Seq(Tokens) /\ Grammar(Stream') /\ Len(Stream') > Len(s)
        /\ \A i \in 1..Len(s) : Stream'[i] = s[i]
        /\ Stream'[Len(s) + 1].t = "half"
     BY <1>3, <1>4, <1>5, <1>h, GrammarAppend DEF Aligned
  <1>n. s \in Seq(Tokens) /\ Len(s) \in Nat
     BY <1>3, <1>4
  <1> HIDE DEF s
  <1>7. \A i \in Nat : i >= 1 /\ i - 1 <= Len(s) /\ AtHead(s, i) => AtHead(Stream', i)
    <2> SUFFICES ASSUME NEW i \in Nat, i >= 1, i - 1 <= Len(s), AtHead(s, i)
                 PROVE  AtHead(Stream', i)
       OBVIOUS
    <2>1. CASE i \in 1..Len(s)
       BY <1>6, <2>1 DEF AtHead
    <2>2. CASE i = Len(s) + 1
       BY <1>6, <2>2 DEF AtHead
    <2> QED BY <1>n, <2>1, <2>2
  <1>8. \A i \in Nat : i >= 1 /\ AtChunk(s, i) => AtChunk(Stream', i)
    <2> SUFFICES ASSUME NEW i \in Nat, i >= 1, AtChunk(s, i) PROVE AtChunk(Stream', i)
       OBVIOUS
    <2>1. i \in 1..Len(s)
       BY <1>n DEF AtChunk
    <2> QED BY <1>6, <1>n, <2>1 DEF AtChunk
  <1>9. InBody(s) => InBody(Stream)'
    <2> SUFFICES ASSUME InBody(s) PROVE InBody(Stream)'
       OBVIOUS
    <2>0. request_bytes_left \in Nat
       BY DEF TypeOK, BodyType
    <2>1. CASE request_body = "none"
      <3>1. AtHead(Stream', 1)
         BY <1>7, <1>n, <2>1 DEF InBody
      <3>2. request_body' = "none"
         BY <1>2, <2>1
      <3> QED BY <3>1, <3>2 DEF InBody, AtHead
    <2>2. CASE request_body = "length"
      <3>1. /\ request_bytes_left <= Len(s)
            /\ \A i \in 1..request_bytes_left : s[i].t = "byte"
            /\ AtHead(s, request_bytes_left + 1)
         BY <2>2 DEF InBody
      <3>2. AtHead(Stream', request_bytes_left + 1)
         BY <1>7, <2>0, <3>1
      <3>3. \A i \in 1..request_bytes_left : Stream'[i].t = "byte"
        <4> TAKE i \in 1..request_bytes_left
        <4>1. i \in 1..Len(s)
           BY <1>n, <2>0, <3>1
        <4> QED BY <1>6, <3>1, <4>1
      <3>4. request_bytes_left <= Len(Stream')
         BY <1>6, <1>n, <2>0, <3>1
      <3>5. request_body' = "length" /\ request_bytes_left' = request_bytes_left
         BY <1>2, <2>2
      <3> QED BY <3>2, <3>3, <3>4, <3>5 DEF InBody, AtHead
    <2>3. CASE request_body = "chunked"
      <3>1. /\ request_bytes_left \in 0..1
            /\ request_bytes_left = 1 => 1 <= Len(s) /\ s[1].t = "byte"
            /\ AtChunk(s, request_bytes_left + 1)
         BY <2>3 DEF InBody
      <3>2. AtChunk(Stream', request_bytes_left + 1)
         BY <1>8, <2>0, <3>1
      <3>3. request_bytes_left = 1 => 1 <= Len(Stream') /\ Stream'[1].t = "byte"
         BY <1>6, <1>n, <3>1
      <3>4. request_body' = "chunked" /\ request_bytes_left' = request_bytes_left
         BY <1>2, <2>3
      <3> QED BY <3>1, <3>2, <3>3, <3>4 DEF InBody, AtChunk
    <2> QED BY <2>1, <2>2, <2>3 DEF TypeOK, BodyType
  <1>10. Grammar(Stream)'
     BY <1>6 DEF Grammar, GrammarAt
  <1>11. AtEnd' = AtEnd
     BY <1>2 DEF AtEnd
  <1> QED BY <1>2, <1>9, <1>10, <1>11, <1>h DEF Aligned, s

LEMMA ArriveAligned ==
    ASSUME TypeOK, Aligned, DataReceived
    PROVE  Aligned'
  <1>1. /\ planned # <<>> /\ recv_buffer' = Append(recv_buffer, Head(planned))
        /\ planned' = Tail(planned)
        /\ UNCHANGED <<request, request_body, request_bytes_left, tr, keep_alive, pc>>
     BY DEF DataReceived, http, body, task
  <1>2. recv_buffer \in Seq(Tokens) /\ planned \in Seq(Tokens)
     BY Typed
  <1>3. Stream' = Stream
    <2>1. \A S : \A b, p \in Seq(S) : p # <<>> => Append(b, Head(p)) \o Tail(p) = b \o p
      <3> TAKE S
      <3> TAKE b, p \in Seq(S)
      <3> SUFFICES ASSUME p # <<>> PROVE Append(b, Head(p)) \o Tail(p) = b \o p
         OBVIOUS
      <3> DEFINE a == Append(b, Head(p))
                 t == Tail(p)
      <3>1. /\ a \in Seq(S) /\ Len(a) = Len(b) + 1 /\ a[Len(b) + 1] = p[1]
            /\ \A i \in 1..Len(b) : a[i] = b[i]
         OBVIOUS
      <3>2. /\ t \in Seq(S) /\ Len(t) = Len(p) - 1
            /\ \A i \in 1..Len(t) : t[i] = p[i + 1]
         OBVIOUS
      <3> HIDE DEF a, t
      <3>3. /\ a \o t \in Seq(S) /\ Len(a \o t) = Len(a) + Len(t)
            /\ \A i \in 1..Len(a) + Len(t) :
                  (a \o t)[i] = IF i <= Len(a) THEN a[i] ELSE t[i - Len(a)]
         BY <3>1, <3>2, ConcatProperties
      <3>4. /\ b \o p \in Seq(S) /\ Len(b \o p) = Len(b) + Len(p)
            /\ \A i \in 1..Len(b) + Len(p) :
                  (b \o p)[i] = IF i <= Len(b) THEN b[i] ELSE p[i - Len(b)]
         BY ConcatProperties
      <3>5. Len(a \o t) = Len(b \o p)
         BY <3>1, <3>2, <3>3, <3>4
      <3>6. \A i \in 1..Len(a \o t) : (a \o t)[i] = (b \o p)[i]
        <4> TAKE i \in 1..Len(a \o t)
        <4>1. CASE i \in 1..Len(b)
           BY <3>1, <3>2, <3>3, <3>4, <4>1
        <4>2. CASE i = Len(b) + 1
           BY <3>1, <3>2, <3>3, <3>4, <4>2
        <4>3. CASE i > Len(b) + 1
          <5>1. /\ (a \o t)[i] = t[i - Len(a)] /\ (b \o p)[i] = p[i - Len(b)]
                /\ i - Len(a) \in 1..Len(t) /\ (i - Len(a)) + 1 = i - Len(b)
             BY <3>1, <3>2, <3>3, <3>4, <3>5, <4>3
          <5> QED BY <3>2, <5>1
        <4>4. Len(b) \in Nat /\ i \in Nat /\ i >= 1
           BY <3>3
        <4>5. \A n \in Nat : i \in 1..n \/ i = n + 1 \/ i > n + 1
           BY <4>4
        <4> QED BY <4>1, <4>2, <4>3, <4>4, <4>5
      <3> QED BY <3>3, <3>4, <3>5, <3>6, SeqEqual DEF a, t
    <2> QED BY <1>1, <1>2, <2>1 DEF Stream
  <1>4. InBody(Stream)' = InBody(Stream)
     BY <1>1, <1>3 DEF InBody, AtHead, AtChunk
  <1>5. Grammar(Stream) => Grammar(Stream)'
    <2>1. Grammar(Stream) => Grammar(Stream')
       BY <1>3
    <2> QED BY <2>1 DEF Grammar, GrammarAt
  <1>6. /\ recv_buffer' # <<>> /\ Len(recv_buffer') = Len(recv_buffer) + 1
        /\ recv_buffer # <<>> => recv_buffer'[1] = recv_buffer[1]
        /\ Len(recv_buffer) \in Nat
     BY <1>1, <1>2
  <1>7. AtEnd => AtEnd'
     BY <1>2, <1>6 DEF AtEnd
  <1> QED BY <1>1, <1>4, <1>5, <1>6, <1>7 DEF Aligned

\* What a step that sends leaves alone, as far as reading is concerned.
LEMMA SendAligned ==
    ASSUME TypeOK, Aligned,
           HandlerSend \/ HandlerReturn \/ HandleException \/ After \/ ErrorHandled
    PROVE  Aligned'
  <1>1. /\ pc \notin Stops \cup {"end_wait"} /\ pc' \in Targets
        /\ UNCHANGED <<recv_buffer, planned, request, request_body,
                       request_bytes_left, data_received, tr, keep_alive>>
     BY SendTargets DEF HandlerSend, HandlerReturn, HandleException, After,
        ErrorHandled, InHandler, Stops, client, transport, protocol
  <1> QED BY <1>1, QuietAligned DEF Targets, Stops

LEMMA StepAligned ==
    ASSUME GiveUp \subseteq {"none", "length"}, ConnectionAssumption, TypeOK,
           Lifecycle, Aligned, [Next]_vars
    PROVE  Aligned'
  <1>0. ctx \in Frames
     BY DEF TypeOK, TaskType
  <1>1. CASE HandlerRead
     BY <1>1, QuietAligned DEF HandlerRead, InHandler, client, transport,
        protocol, http, body, Stops
  <1>2. CASE HandlerRespond
     BY <1>2, QuietAligned DEF HandlerRespond, InHandler, client, transport,
        protocol, body, Stops
  <1>3. CASE HandlerSend \/ HandlerReturn \/ HandleException \/ After \/ ErrorHandled
     BY <1>3, SendAligned
  <1>4. CASE HandlerRaise \/ HandlerReturnWebsocket
     BY <1>4, QuietAligned DEF HandlerRaise, HandlerReturnWebsocket, InHandler,
        client, transport, protocol, http, body, Stops
  <1>7. CASE HandlerGivesUp
    <2>1. pc # "end_wait"
       BY <1>7 DEF HandlerGivesUp, Aligned
    <2> QED BY <1>7, <2>1, QuietAligned DEF HandlerGivesUp, client, transport,
            protocol, http, body, Stops
  <1>8. CASE TaskStart
     BY <1>8, QuietAligned DEF TaskStart, client, transport, http, body, Stops
  <1>9. CASE Loop
    <2>1. CASE keep_alive /\ stage = "IDLE"
      <3>1. request_body = "none" /\ request_bytes_left = 0
         BY <1>9, <2>1 DEF Loop, Aligned
      <3>2. /\ request_body' = "none" /\ request_bytes_left' = 0
            /\ UNCHANGED <<recv_buffer, planned, tr, keep_alive>>
            /\ pc' \in {"idle", "parse", "finish"}
            /\ pc' = "idle" => ~data_received'
            /\ pc' = "parse" => recv_buffer # <<>>
         BY <1>9, <2>1 DEF Loop, ReceiveMore, client
      <3>3. Stream' = Stream
         BY <3>2 DEF Stream
      <3>4. InBody(Stream)' = InBody(Stream)
         BY <3>1, <3>2, <3>3 DEF InBody, AtHead
      <3>5. Grammar(Stream) => Grammar(Stream)'
        <4>1. Grammar(Stream) => Grammar(Stream')
           BY <3>3
        <4> QED BY <4>1 DEF Grammar, GrammarAt
      <3>6. pc = "loop"
         BY <1>9 DEF Loop
      <3> QED BY <2>1, <3>1, <3>2, <3>4, <3>5, <3>6 DEF Aligned, Stops
    <2>2. CASE ~(keep_alive /\ stage = "IDLE")
       BY <1>9, <2>2, QuietAligned DEF Loop, client, body, Stops
    <2> QED BY <2>1, <2>2
  <1>10. CASE IdleWake
    <2>1. /\ pc = "idle" /\ pc' = "parse" /\ data_received
          /\ UNCHANGED <<recv_buffer, planned, request, request_body,
                         request_bytes_left, data_received, tr, keep_alive>>
       BY <1>10 DEF IdleWake, client, transport, protocol, body
    <2>2. Stream' = Stream /\ InBody(Stream)' = InBody(Stream)
       BY <2>1 DEF Stream, InBody, AtHead, AtChunk
    <2>3. Grammar(Stream) => Grammar(Stream)'
      <3>1. Grammar(Stream) => Grammar(Stream')
         BY <2>2
      <3> QED BY <3>1 DEF Grammar, GrammarAt
    <2> QED BY <2>1, <2>2, <2>3 DEF Aligned, Stops
  <1>11. CASE ParseWait \/ HeaderWake
    <2>1. /\ pc \in {"parse", "header"} /\ pc' \in {"parse", "header", "fail"}
          /\ UNCHANGED <<recv_buffer, planned, request, request_body,
                         request_bytes_left, tr, keep_alive>>
       BY <1>11 DEF ParseWait, HeaderWake, ReceiveMore, client, transport,
          protocol, http, body
    <2>2. Stream' = Stream /\ InBody(Stream)' = InBody(Stream)
       BY <2>1 DEF Stream, InBody, AtHead, AtChunk
    <2>3. Grammar(Stream) => Grammar(Stream)'
      <3>1. Grammar(Stream) => Grammar(Stream')
         BY <2>2
      <3> QED BY <3>1 DEF Grammar, GrammarAt
    <2> QED BY <2>1, <2>2, <2>3 DEF Aligned, Stops
  <1>13. CASE ParseBad
     BY <1>13, QuietAligned DEF ParseBad, client, transport, protocol, http,
        body, Stops
  <1>14. CASE ParseGood
    <2>1. CASE tr = "open"
       BY <1>14, <2>1, ParseAligned
    <2>2. CASE tr # "open"
      <3>1. /\ pc' = "handler" /\ UNCHANGED tr
            /\ request' = recv_buffer[2].kind
            /\ request_body' = CASE request'.framing = "none"   -> "none"
                                 [] request'.framing = "length" -> "length"
                                 [] OTHER                       -> "chunked"
            /\ request_bytes_left' = IF request'.framing = "length"
                                       THEN request'.body ELSE 0
         BY <1>14 DEF ParseGood, transport
      <3> QED BY <2>2, <3>1 DEF Aligned
    <2> QED BY <2>1, <2>2
  <1>15. CASE Send
     BY <1>15, QuietAligned DEF Send, client, transport, protocol, http, body, Stops
  <1>16. CASE Write
    <2>1. pc' \in {"read", "handler", "after", "drain"}
       BY <1>0, <1>16, FrameTypes DEF Write
    <2> QED BY <1>16, <2>1, QuietAligned DEF Write, MayWrite, client, body, Stops
  <1>17. CASE WriteRefused
    <2>1. pc' \in {"cancel", "finish", "herr", "fail", "err2"} /\ pc \in {"send", "write_wait"}
       BY <1>0, <1>17, FrameTypes DEF WriteRefused, MayWrite
    <2> QED BY <1>17, <2>1, QuietAligned DEF WriteRefused, client, transport,
            protocol, http, body, Stops
  <1>18. CASE WriteCancelled
    <2>1. pc' \in {"cancel", "finish"} /\ pc = "write_wait"
       BY <1>0, <1>18, FrameTypes DEF WriteCancelled
    <2> QED BY <1>18, <2>1, QuietAligned DEF WriteCancelled, client, transport,
            http, body, Stops
  <1>19. CASE ReadContinue
     BY <1>19, QuietAligned DEF ReadContinue, BeginSend, client, transport,
        protocol, http, Stops
  <1>20. CASE ReadWait
    <2>1. pc' \in {"read_wait", "herr", "fail", "err2", "finish"} /\ pc = "read"
       BY <1>0, <1>20, FrameTypes DEF ReadWait, ReceiveMore
    <2>2. data_received' => data_received
       BY <1>20 DEF ReadWait, ReceiveMore
    <2> QED BY <1>20, <2>1, <2>2, QuietAligned DEF ReadWait, client, http, body, Stops
  <1>21. CASE ReadChunkHeader
     BY <1>21, ChunkAligned, OutAligned
  <1>22. CASE ReadTooLarge
    <2>1. pc' \in {"nap", "herr", "fail", "err2", "finish"} /\ pc = "read" /\ ~keep_alive'
       BY <1>0, <1>22, FrameTypes DEF ReadTooLarge
    <2>2. /\ UNCHANGED <<recv_buffer, planned, request, request_body,
                         request_bytes_left, data_received, tr>>
       BY <1>22 DEF ReadTooLarge, client, transport, protocol, body
    <2> QED BY <2>1, <2>2 DEF Aligned
  <1>23. CASE ReadEnd
    <2>1. /\ pc' \in {"handler", "after", "drain"} /\ pc = "read"
          /\ request_body' = "none" /\ request_body # "chunked"
          /\ request_bytes_left = 0
          /\ UNCHANGED <<recv_buffer, planned, request, request_bytes_left,
                         data_received, tr, keep_alive>>
       BY <1>0, <1>23, FrameTypes DEF ReadEnd, NeedsChunkHeader, client,
          transport, protocol, http
    <2>2. Stream' = Stream
       BY <2>1 DEF Stream
    <2>3. InBody(Stream) => AtHead(Stream, 1)
       BY <2>1 DEF InBody, TypeOK, BodyType
    <2>4. InBody(Stream) => InBody(Stream)'
       BY <2>1, <2>2, <2>3 DEF InBody, AtHead
    <2>5. Grammar(Stream) => Grammar(Stream)'
      <3>1. Grammar(Stream) => Grammar(Stream')
         BY <2>2
      <3> QED BY <3>1 DEF Grammar, GrammarAt
    <2> QED BY <2>1, <2>4, <2>5 DEF Aligned, Stops
  <1>24. CASE ReadData
     BY <1>24, DataAligned, OutAligned
  <1>25. CASE ReadWake
     BY <1>25, QuietAligned DEF ReadWake, client, transport, protocol, http,
        body, Stops
  <1>26. CASE ReadEndWake
     BY <1>26, EndAligned, OutAligned
  <1>29. CASE CancelBranch
     BY <1>29, QuietAligned DEF CancelBranch, client, transport, protocol, body, Stops
  <1>30. CASE ErrorResponse
     BY <1>30, QuietAligned DEF ErrorResponse, client, transport, protocol,
        body, Stops, TypeOK, HttpType
  <1>32. CASE Drain
    <2>1. CASE request_body # "none"
       BY <1>32, <2>1, QuietAligned DEF Drain, client, transport, protocol, http, Stops
    <2>2. CASE request_body = "none"
      <3>1. /\ pc' = "loop" /\ pc = "drain"
            /\ UNCHANGED <<recv_buffer, planned, request, request_body,
                           request_bytes_left, data_received, tr, keep_alive>>
         BY <1>32, <2>2 DEF Drain, client, transport, protocol, http
      <3>2. Stream' = Stream /\ InBody(Stream)' = InBody(Stream)
         BY <3>1 DEF Stream, InBody, AtHead, AtChunk
      <3>3. Grammar(Stream) => Grammar(Stream)'
        <4>1. Grammar(Stream) => Grammar(Stream')
           BY <3>2
        <4> QED BY <4>1 DEF Grammar, GrammarAt
      <3> QED BY <2>2, <3>1, <3>2, <3>3 DEF Aligned, Stops
    <2> QED BY <2>1, <2>2
  <1>33. CASE NapEnd
    <2>1. /\ pc' = "loop" /\ pc = "nap"
          /\ UNCHANGED <<recv_buffer, planned, request, request_body,
                         request_bytes_left, data_received, tr, keep_alive>>
       BY <1>33 DEF NapEnd, client, transport, protocol, http, body
    <2> QED BY <2>1 DEF Aligned
  <1>34. CASE Cancelled
    <2>1. pc' \in Stops
       BY <1>0, <1>34, FrameTypes DEF Cancelled, CancelAt, Stops
    <2> QED BY <1>34, <2>1, QuietAligned DEF Cancelled, client, transport, http,
            body, Stops
  <1>35. CASE Finish
     BY <1>35, QuietAligned DEF Finish, Close, client, http, body, Stops
  <1>36. CASE ClientRequest
     BY <1>36, ClientAligned
  <1>37. CASE DataReceived
     BY <1>37, ArriveAligned
  <1>38. CASE PeerClosed \/ SocketDrain \/ ConnectionLost \/ TimePasses
     BY <1>38, QuietAligned DEF PeerClosed, SocketDrain, ConnectionLost,
        TimePasses, client, transport, protocol, http, body, task, Stops
  <1>39. CASE CheckTimeouts \/ CheckClosed
     BY <1>39, QuietAligned DEF CheckTimeouts, CheckClosed, client, transport,
        http, body, task, Stops
  <1>40. CASE CloserAbort \/ ShutdownAbort
     BY <1>40, QuietAligned DEF CloserAbort, ShutdownAbort, Abort, client, http,
        body, task, Stops
  <1>41. CASE ShutdownBegin
     BY <1>41, QuietAligned DEF ShutdownBegin, Close, http, body, task, Stops
  <1>47. CASE UNCHANGED vars
     BY <1>47, QuietAligned DEF vars, client, transport, protocol, http, body,
        task, Stops
  <1> QED
     BY <1>1, <1>2, <1>3, <1>4, <1>7, <1>8, <1>9, <1>10, <1>11, <1>13, <1>14,
        <1>15, <1>16, <1>17, <1>18, <1>19, <1>20, <1>21, <1>22, <1>23, <1>24,
        <1>25, <1>26, <1>29, <1>30, <1>32, <1>33, <1>34, <1>35, <1>36, <1>37,
        <1>38, <1>39, <1>40, <1>41, <1>47 DEF
        Next, Handler, TaskStep, Peer, Loopback, Shutdown

\* On an open connection a request head is only looked for where one begins,
\* whatever the handler read or left unread, and whatever failed.  A handler may
\* give up on waits of its own as long as the body is not a chunked one: with
\* those, the wait it abandons may be the one for the last CRLF.
THEOREM Boundaries ==
    ASSUME GiveUp \subseteq {"none", "length"}
    PROVE  Spec => []RequestBoundary
  <1>1. Init => Aligned
    <2> SUFFICES ASSUME Init PROVE Aligned
       OBVIOUS
    <2>1. recv_buffer = <<>> /\ planned = <<>>
       BY DEF Init
    <2>2. Stream = <<>> /\ Len(Stream) = 0
       BY <2>1 DEF Stream
    <2>3. Grammar(Stream) /\ AtHead(Stream, 1)
       BY <2>2 DEF Grammar, AtHead
    <2> QED BY <2>3 DEF Init, Aligned, InBody, Stops
  <1>2. TypeOK /\ Lifecycle /\ Aligned /\ [Next]_vars => Aligned'
     BY StepAligned, ConnectionAssumption
  <1>3. TypeOK /\ Aligned => RequestBoundary
    <2> SUFFICES ASSUME TypeOK, Aligned, pc = "parse", tr = "open"
                 PROVE  recv_buffer[1].t = "half"
       BY DEF RequestBoundary
    <2>1. recv_buffer # <<>> /\ AtHead(Stream, 1)
       BY DEF Aligned, InBody, Stops
    <2>2. /\ recv_buffer \in Seq(Tokens) /\ planned \in Seq(Tokens)
          /\ Len(recv_buffer) \in Nat /\ Len(recv_buffer) >= 1 /\ Len(planned) \in Nat
       BY <2>1, Typed
    <2>3. Len(Stream) >= 1 /\ Stream[1] = recv_buffer[1]
       BY <2>2, StreamShape DEF Stream
    <2> QED BY <2>1, <2>3 DEF AtHead
  <1> QED BY <1>1, <1>2, <1>3, LifecycleAlways, TypeCorrect, PTL DEF Spec
=============================================================================
