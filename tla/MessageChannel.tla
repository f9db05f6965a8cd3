--------------------------- MODULE MessageChannel ---------------------------
(***************************************************************************)
(* What the receiving side of a websocket promises the handler: the frames *)
(* the client sent, in order, each once; whole messages, except to a       *)
(* handler that streams one, which gets the rest of it before the next.    *)
(* FrameAssembler implements this.                                         *)
(***************************************************************************)
EXTENDS Naturals, Sequences

VARIABLES sent,      \* data frames from the client
          read,      \* data frames the handler was given
          streams,   \* the handler is being streamed a message
          over       \* the handler is no longer there

vars == <<sent, read, streams, over>>

\* The handler may end before it reads anything.
Init == sent = <<>> /\ read = <<>> /\ streams = FALSE /\ over \in BOOLEAN

Arrive ==
    /\ \E fin \in BOOLEAN : sent' = Append(sent, [n |-> Len(sent) + 1, fin |-> fin])
    /\ UNCHANGED <<read, streams, over>>

BetweenMessages == read = <<>> \/ read[Len(read)].fin

\* one message or several
ReadMessages ==
    /\ ~over /\ ~streams
    /\ \E k \in Len(read) + 1 .. Len(sent) :
          sent[k].fin /\ read' = SubSeq(sent, 1, k)
    /\ UNCHANGED <<sent, streams, over>>

\* a stream begins and ends between messages
Stream ==
    /\ ~over /\ BetweenMessages
    /\ streams' = ~streams
    /\ UNCHANGED <<sent, read, over>>

ReadFrame ==
    /\ ~over /\ streams /\ Len(read) < Len(sent)
    /\ read' = SubSeq(sent, 1, Len(read) + 1)
    /\ UNCHANGED <<sent, streams, over>>

End == ~over /\ over' = TRUE /\ streams' = FALSE /\ UNCHANGED <<sent, read>>

Next == Arrive \/ ReadMessages \/ Stream \/ ReadFrame \/ End

Spec == Init /\ [][Next]_vars
=============================================================================
