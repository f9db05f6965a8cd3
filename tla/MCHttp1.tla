------------------------------- MODULE MCHttp1 -------------------------------
(* Small instances of Http1Connection: the requests a client may send. *)
EXTENDS Http1Connection

Get == [body |-> 0, framing |-> "none", keep |-> TRUE, valid |-> TRUE,
        upgrade |-> FALSE, head |-> FALSE, expect |-> FALSE]

Close1   == [Get EXCEPT !.keep = FALSE]
Bad      == [Get EXCEPT !.valid = FALSE]
HeadOnly == [Get EXCEPT !.head = TRUE]
Upgrade  == [Get EXCEPT !.upgrade = TRUE]
PostBig  == [Get EXCEPT !.body = 2, !.framing = "length"]
Expect   == [Get EXCEPT !.body = 1, !.framing = "length", !.expect = TRUE]
Chunked  == [Get EXCEPT !.body = 1, !.framing = "chunked"]
Junk     == [Get EXCEPT !.framing = "junk"]

PlainKinds == {Get, Close1, Bad}
HeadKinds  == {Get, HeadOnly, Bad}
BodyKinds  == {Get, PostBig, Expect, Chunked, Junk}
MixedKinds == {Get, Bad, Upgrade, PostBig, Expect, Chunked, Junk}
==============================================================================
