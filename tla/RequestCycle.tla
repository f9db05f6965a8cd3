---------------------------- MODULE RequestCycle ----------------------------
(***************************************************************************)
(* What one HTTP/1.1 connection promises its peer: requests are taken one  *)
(* at a time, each is answered by at most one response, a request is not   *)
(* taken while the response to the previous one is unfinished, and nothing *)
(* is written once the connection is no longer open.                       *)
(* Http1Connection implements this.                                        *)
(***************************************************************************)
EXTENDS Naturals

VARIABLES taken,    \* requests taken so far
          phase,    \* of the last one: "taken", "begun", "ended"
          open      \* the connection may be written to

vars == <<taken, phase, open>>

Init == taken = 0 /\ phase = "ended" /\ open = TRUE

\* on a connection that is no longer open nobody sees what is taken
Take ==
    /\ open => phase = "ended"
    /\ taken' = taken + 1
    /\ phase' = "taken"
    /\ UNCHANGED open

\* the head of a response, with the body to come
Begin ==
    /\ open /\ phase = "taken"
    /\ phase' = "begun"
    /\ UNCHANGED <<taken, open>>

\* the end of a response, or a whole response in one piece
End ==
    /\ open /\ phase \in {"taken", "begun"}
    /\ phase' = "ended"
    /\ UNCHANGED <<taken, open>>

Close == open /\ open' = FALSE /\ UNCHANGED <<taken, phase>>

Next == Take \/ Begin \/ End \/ Close

Spec == Init /\ [][Next]_vars
=============================================================================
