----------------------------- MODULE Streams_proofs -----------------------------
(***************************************************************************)
(* For any number of runs, chunks, responses and pieces: what is sent of a *)
(* request is one response, and something is sent of every request.        *)
(*                                                                         *)
(* OneResponse is not inductive: whether the next piece belongs to what    *)
(* was sent depends on the stage and on the response that is connected.    *)
(* In HTTP/3 the stage may be HANDLER again when the head is out, and then *)
(* headers_sent keeps the second run from sending; over ASGI the handler   *)
(* that is still to send has the stage HANDLER or the response that began. *)
(***************************************************************************)
EXTENDS Streams, SequenceTheorems, TLAPS

Places  == {"start", "handling", "raised", "checked", "answering"} \cup Over
Piece   == [kind : {"head", "data", "end"}, resp : Nat]
RunType == [at : Places, level : Nat, resp : Nat, cancel : {"no", "soon", "now"}]

StreamsTyped ==
    /\ protocol \in {"none", "refused", "http3", "asgi"}
    /\ http_stage \in {"IDLE", "REQUEST", "HANDLER", "RESPONSE", "FAILED"}
    /\ connected \in Nat /\ responses \in Nat /\ headers_sent \in BOOLEAN /\ reread \in BOOLEAN
    /\ runs \in Seq(RunType) /\ wire \in Seq(Piece)

\* the response that began is the one connected
Continues == wire # <<>> /\ connected = wire[1].resp

\* HTTP/3
OnHttp3 ==
    protocol = "http3" =>
        /\ headers_sent <=> wire # <<>>
        /\ http_stage = "RESPONSE" => Continues /\ ~Ended

\* places of a run that may still send without starting over
MaySend == {"handling", "checked", "answering"}

\* ASGI
OnAsgi ==
    protocol = "asgi" =>
        /\ Len(runs) = 1
        /\ runs[1].at = "start" \/ http_stage = "HANDLER" => wire = <<>>
        /\ runs[1].at \in MaySend =>
              \/ http_stage = "HANDLER"
              \/ /\ Continues /\ http_stage \in {"IDLE", "RESPONSE", "REQUEST"}
                 /\ Ended => http_stage = "IDLE" \/ reread

Unmade ==
    protocol \in {"none", "refused"} =>
        wire = <<>> /\ ~headers_sent /\ runs = <<>> /\ http_stage = "IDLE"

StreamsInv == StreamsTyped /\ Unmade /\ OnHttp3 /\ OnAsgi /\ OneResponse
-----------------------------------------------------------------------------
\* Sequences of one and of two.
LEMMA TwoPieces ==
    ASSUME NEW a \in Piece, NEW b \in Piece PROVE <<>> \o (<<a>> \o <<b>>) = <<a, b>>
  <1>1. <<a>> \in Seq(Piece) /\ <<a, b>> \in Seq(Piece)
    OBVIOUS
  <1>2. <<a>> \o <<b>> = Append(<<a>>, b)
    BY <1>1, AppendIsConcat
  <1>3. Append(<<a>>, b) = <<a, b>>
    <2>1. Append(<<a>>, b) \in Seq(Piece) /\ Len(Append(<<a>>, b)) = 2
      BY <1>1
    <2>2. \A p \in 1..2 : Append(<<a>>, b)[p] = <<a, b>>[p]
      BY <1>1
    <2> QED BY <1>1, <2>1, <2>2, SeqEqual
  <1>4. <<>> \o <<a, b>> = <<a, b>>
    BY <1>1, ConcatEmptySeq
  <1> QED BY <1>2, <1>3, <1>4

\* One run is set.
LEMMA SetRun ==
    ASSUME NEW rs \in Seq(RunType), NEW i \in DOMAIN rs, NEW new \in RunType
    PROVE  /\ [rs EXCEPT ![i] = new] \in Seq(RunType) /\ Len([rs EXCEPT ![i] = new]) = Len(rs)
           /\ [rs EXCEPT ![i] = new][i] = new
  OBVIOUS

\* What is on the wire before it is written to.
LEMMA FirstPieces ==
    ASSUME wire = <<>>, NEW r \in Nat, NEW k \in {"data", "end"},
           wire' = <<[kind |-> "head", resp |-> r], [kind |-> k, resp |-> r]>>
    PROVE  /\ wire' \in Seq(Piece) /\ wire' # <<>> /\ wire'[1].resp = r
           /\ OneResponse' /\ (Ended' <=> k = "end")
  <1>1. Len(wire') = 2 /\ DOMAIN wire' = {1, 2}
    OBVIOUS
  <1>2. wire'[1] = [kind |-> "head", resp |-> r] /\ wire'[2] = [kind |-> k, resp |-> r]
    OBVIOUS
  <1>3. wire' \in Seq(Piece)
    <2>1. [kind |-> "head", resp |-> r] \in Piece /\ [kind |-> k, resp |-> r] \in Piece
      BY DEF Piece
    <2> QED BY <2>1
  <1>4. wire' # <<>> /\ wire'[1].resp = r
    BY <1>1, <1>2
  <1>5. OneResponse'
    BY <1>1, <1>2 DEF OneResponse
  <1>6. Ended' <=> k = "end"
    BY <1>1, <1>2 DEF Ended
  <1> QED BY <1>3, <1>4, <1>5, <1>6

\* One more piece of the response that began.
LEMMA NextPiece ==
    ASSUME wire \in Seq(Piece), wire # <<>>, OneResponse, Ended => reread, UNCHANGED reread,
           NEW k \in {"data", "end"}, wire' = Append(wire, [kind |-> k, resp |-> wire[1].resp])
    PROVE  /\ wire' \in Seq(Piece) /\ wire' # <<>> /\ wire'[1] = wire[1]
           /\ OneResponse' /\ (Ended' <=> Ended \/ k = "end")
  <1> DEFINE new == [kind |-> k, resp |-> wire[1].resp]
  <1>1. new \in Piece
    <2>1. 1 \in DOMAIN wire /\ wire[1] \in Piece
      OBVIOUS
    <2> QED BY <2>1 DEF Piece
  <1>2. /\ wire' \in Seq(Piece) /\ Len(wire') = Len(wire) + 1 /\ Len(wire) \in Nat \ {0}
        /\ \A p \in 1..Len(wire) : wire'[p] = wire[p]
        /\ wire'[Len(wire) + 1] = new
    BY <1>1
  <1>3. DOMAIN wire = 1..Len(wire) /\ DOMAIN wire' = 1..Len(wire) \cup {Len(wire) + 1}
    BY <1>2
  <1>4. wire' # <<>> /\ wire'[1] = wire[1]
    BY <1>2
  <1>5. Ended' <=> Ended \/ k = "end"
    BY <1>2, <1>3 DEF Ended
  <1>6. OneResponse'
    <2> SUFFICES ASSUME NEW p \in DOMAIN wire'
                 PROVE  /\ wire'[p].kind = "head" <=> p = 1
                        /\ wire'[p].resp = wire'[1].resp
                        /\ wire'[p].kind = "end" => p = Len(wire') \/ reread'
      BY DEF OneResponse
    <2>1. CASE p \in DOMAIN wire
      BY <2>1, <1>2, <1>3, <1>4 DEF OneResponse, Ended
    <2>2. CASE p = Len(wire) + 1
      BY <2>2, <1>2, <1>4
    <2> QED BY <2>1, <2>2, <1>3
  <1> QED BY <1>2, <1>4, <1>5, <1>6

\* Nothing is written.
LEMMA WireKept ==
    ASSUME wire' = wire, reread => reread'
    PROVE  (OneResponse => OneResponse') /\ (Ended' <=> Ended)
  <1>1. Ended' <=> Ended
    BY DEF Ended
  <1>2. OneResponse => OneResponse'
    BY DEF OneResponse
  <1> QED BY <1>1, <1>2

\* task.cancel() leaves every run where it is.
LEMMA CancelTyped ==
    ASSUME NEW rs \in Seq(RunType), NEW i, NEW when \in {"now", "soon"}
    PROVE  /\ CancelRun(rs, i, when) \in Seq(RunType) /\ Len(CancelRun(rs, i, when)) = Len(rs)
           /\ \A j \in DOMAIN rs : CancelRun(rs, i, when)[j].at = rs[j].at
  <1>1. CASE i \notin DOMAIN rs
    <2> DEFINE c == CancelRun(rs, i, when)
    <2>1. DOMAIN c = DOMAIN rs /\ \A j \in DOMAIN rs : c[j] = rs[j]
      BY <1>1 DEF CancelRun
    <2>2. c = [j \in DOMAIN rs |-> c[j]] /\ rs = [j \in DOMAIN rs |-> rs[j]]
      BY DEF CancelRun
    <2>3. c = rs
      BY <2>1, <2>2
    <2> QED BY <2>3
  <1>2. CASE i \in DOMAIN rs
    <2> DEFINE new == [rs[i] EXCEPT !.cancel = IF rs[i].at \in Over THEN "no" ELSE when]
    <2>1. rs[i] \in RunType
      BY <1>2
    <2>2. new \in RunType /\ new.at = rs[i].at
      BY <2>1 DEF RunType
    <2>3. CancelRun(rs, i, when) = [rs EXCEPT ![i] = new]
      BY DEF CancelRun
    <2> HIDE DEF new
    <2> QED BY <1>2, <2>2, <2>3
  <1> QED BY <1>1, <1>2

\* So does an exception in handle_request or handle_exception: the stage it leaves is not
\* one in which more may be sent than before.
LEMMA EscapesKeeps ==
    ASSUME StreamsInv, NEW rs \in Seq(RunType), Len(rs) = Len(runs), NEW i \in DOMAIN runs,
           NEW stage \in {http_stage, "FAILED"}, Escapes(rs, i, stage),
           connected' \in Nat, connected' = connected \/ http_stage = "HANDLER",
           UNCHANGED <<protocol, wire, headers_sent, responses, reread>>
    PROVE  StreamsInv'
  <1> USE DEF StreamsInv
  <1>1. i \in DOMAIN rs /\ rs[i] \in RunType
    BY DEF StreamsTyped
  <1> DEFINE new == IF rs[i].level = LastLevel THEN [rs[i] EXCEPT !.at = "failed", !.cancel = "no"]
                    ELSE [Run("raised", rs[i].level + 1) EXCEPT !.cancel = rs[i].cancel]
  <1>2. new \in RunType /\ new.at \in {"failed", "raised"}
    <2>1. CASE rs[i].level = LastLevel
      BY <1>1, <2>1 DEF RunType, Places, Over
    <2>2. CASE rs[i].level # LastLevel
      BY <1>1, <2>2 DEF RunType, Run, Places
    <2> QED BY <2>1, <2>2
  <1>3. runs' = [rs EXCEPT ![i] = new]
    BY DEF Escapes
  <1> HIDE DEF new
  <1>4. runs' \in Seq(RunType) /\ Len(runs') = Len(runs) /\ runs'[i] = new
    BY <1>1, <1>2, <1>3
  <1>5. (http_stage' = "HANDLER" /\ protocol = "http3") \/ http_stage' = stage
    BY DEF Escapes
  <1>6. StreamsTyped'
    BY <1>4, <1>5 DEF StreamsTyped
  <1>7. OneResponse' /\ (Ended' <=> Ended)
    BY WireKept
  <1>8. Unmade'
    BY <1>4 DEF Unmade, StreamsTyped
  <1>9. OnHttp3'
    BY <1>5, <1>7 DEF OnHttp3, Continues
  <1>10. OnAsgi'
    <2>1. protocol = "asgi" => Len(runs) = 1 /\ i = 1
      BY DEF OnAsgi, StreamsTyped
    <2> QED BY <2>1, <1>2, <1>4, <1>5 DEF OnAsgi, MaySend
  <1> QED BY <1>6, <1>7, <1>8, <1>9, <1>10

\* A response is connected before anything is sent over ASGI, and to no more than the stage
\* of a handler in HTTP/3.
LEMMA ConnectKeeps ==
    ASSUME StreamsInv, NEW i \in DOMAIN runs, NEW at \in MaySend, http_stage = "HANDLER",
           Connect(i, at), UNCHANGED <<protocol, wire, headers_sent, reread>>
    PROVE  StreamsInv'
  <1> USE DEF StreamsInv
  <1>1. responses' \in Nat /\ connected' \in Nat
    BY DEF Connect, StreamsTyped
  <1> DEFINE new == [runs[i] EXCEPT !.resp = responses', !.at = at]
  <1>2. new \in RunType /\ new.at = at
    <2>1. runs[i] \in RunType /\ at \in Places
      BY DEF StreamsTyped, MaySend, Places
    <2> QED BY <1>1, <2>1 DEF RunType
  <1>3. runs' = [runs EXCEPT ![i] = new]
    BY DEF Connect
  <1> HIDE DEF new
  <1>9. runs' \in Seq(RunType) /\ Len(runs') = Len(runs) /\ runs'[i].at = at
    <2>1. runs \in Seq(RunType)
      BY DEF StreamsTyped
    <2> QED BY <1>2, <1>3, <2>1, SetRun
  <1>4. StreamsTyped'
    BY <1>1, <1>9 DEF Connect, StreamsTyped
  <1>5. OneResponse' /\ (Ended' <=> Ended)
    BY WireKept
  <1>6. Unmade'
    BY <1>9 DEF Connect, Unmade, StreamsTyped
  <1>7. OnHttp3'
    BY DEF Connect, OnHttp3
  <1>8. OnAsgi'
    <2>1. protocol = "asgi" => Len(runs) = 1 /\ i = 1
      BY DEF OnAsgi, StreamsTyped
    <2> QED BY <2>1, <1>9 DEF Connect, OnAsgi, MaySend
  <1> QED BY <1>4, <1>5, <1>6, <1>7, <1>8

\* send(): the first pieces, or the next one of the response that began.
LEMMA SendKeeps ==
    ASSUME StreamsInv, NEW i \in DOMAIN runs, runs[i].at \in MaySend, NEW end \in BOOLEAN,
           Sends(i, end), Transmit(i, end), http_stage' = IF end THEN "IDLE" ELSE "RESPONSE",
           runs' \in Seq(RunType), Len(runs') = Len(runs), runs'[i].at \in {runs[i].at, "over"},
           UNCHANGED <<protocol, connected, responses, reread>>
    PROVE  StreamsInv'
  <1> USE DEF StreamsInv
  <1> DEFINE k == IF end THEN "end" ELSE "data"
  <1>1. protocol \in {"http3", "asgi"}
    BY DEF Unmade, StreamsTyped
  <1>2. headers_sent' \in BOOLEAN /\ (headers_sent' <=> protocol = "http3")
    BY DEF Transmit
  <1>3. CASE wire = <<>>
    <2>1. Pieces(i, end) = <<[kind |-> "head", resp |-> connected]>> \o <<[kind |-> k, resp |-> connected]>>
      BY <1>1, <1>3 DEF Pieces, OnHttp3, OnAsgi, Continues, StreamsTyped
    <2>2. wire' = <<[kind |-> "head", resp |-> connected], [kind |-> k, resp |-> connected]>>
      <3>1. ~(protocol = "asgi" /\ http_stage = "IDLE")
        BY <1>3 DEF OnAsgi, Continues, StreamsTyped
      <3>2. wire' = <<>> \o Pieces(i, end)
        BY <1>3, <3>1 DEF Transmit
      <3>3. [kind |-> "head", resp |-> connected] \in Piece /\ [kind |-> k, resp |-> connected] \in Piece
        BY DEF StreamsTyped, Piece
      <3> QED BY <2>1, <3>2, <3>3, TwoPieces
    <2>3. /\ wire' \in Seq(Piece) /\ wire' # <<>> /\ wire'[1].resp = connected
          /\ OneResponse' /\ (Ended' <=> k = "end")
      BY <1>3, <2>2, FirstPieces DEF StreamsTyped
    <2>4. StreamsTyped'
      BY <1>2, <2>3 DEF StreamsTyped
    <2>5. Unmade' /\ OnHttp3'
      BY <1>1, <1>2, <2>3 DEF Unmade, OnHttp3, Continues
    <2>6. OnAsgi'
      BY <2>3 DEF OnAsgi, Continues, StreamsTyped, MaySend
    <2> QED BY <2>3, <2>4, <2>5, <2>6
  <1>4. CASE wire # <<>> /\ protocol = "asgi" /\ http_stage = "IDLE"
    <2>1. end /\ wire' = wire
      BY <1>4 DEF Sends, ReadyAsgi, Transmit
    <2>2. OneResponse' /\ (Ended' <=> Ended)
      BY <2>1, WireKept
    <2>3. StreamsTyped' /\ Unmade' /\ OnHttp3'
      BY <1>2, <1>4, <2>1 DEF StreamsTyped, Unmade, OnHttp3
    <2>4. OnAsgi'
      BY <1>4, <2>1, <2>2 DEF OnAsgi, Continues, StreamsTyped, MaySend
    <2> QED BY <2>2, <2>3, <2>4
  <1>5. CASE wire # <<>> /\ ~(protocol = "asgi" /\ http_stage = "IDLE")
    <2>1. Continues /\ (Ended => reread)
      <3>1. CASE protocol = "http3"
        BY <1>5, <3>1 DEF Sends, ReadyHttp3, OnHttp3
      <3>2. CASE protocol = "asgi"
        <4>1. i = 1
          BY <3>2 DEF OnAsgi, StreamsTyped
        <4> QED BY <1>5, <3>2, <4>1 DEF OnAsgi
      <3> QED BY <1>1, <3>1, <3>2
    <2>2. Pieces(i, end) = <<[kind |-> k, resp |-> connected]>>
      <3>1. ~((protocol = "http3" /\ ~headers_sent) \/ (protocol = "asgi" /\ http_stage = "HANDLER"))
        BY <1>5 DEF OnHttp3, OnAsgi
      <3>2. Pieces(i, end) = <<>> \o <<[kind |-> k, resp |-> connected]>>
        BY <3>1 DEF Pieces
      <3> QED BY <3>2
    <2>3. wire' = Append(wire, [kind |-> k, resp |-> wire[1].resp])
      BY <1>5, <2>1, <2>2 DEF Transmit, Continues, StreamsTyped
    <2>4. /\ wire' \in Seq(Piece) /\ wire' # <<>> /\ wire'[1] = wire[1]
          /\ OneResponse' /\ (Ended' <=> Ended \/ k = "end")
      BY <1>5, <2>1, <2>3, NextPiece DEF StreamsTyped
    <2>5. StreamsTyped'
      BY <1>2, <2>4 DEF StreamsTyped
    <2>6. Unmade'
      BY <1>1 DEF Unmade
    <2>7. OnHttp3'
      <3>1. protocol = "http3" => http_stage = "RESPONSE" /\ ~Ended
        BY <1>5 DEF Sends, ReadyHttp3, OnHttp3
      <3> QED BY <1>2, <2>1, <2>4, <3>1 DEF OnHttp3, Continues
    <2>8. OnAsgi'
      BY <2>1, <2>4, <1>5 DEF OnAsgi, Continues, StreamsTyped, MaySend
    <2> QED BY <2>4, <2>5, <2>6, <2>7, <2>8
  <1> QED BY <1>3, <1>4, <1>5
-----------------------------------------------------------------------------
(* The actions *)

\* A run goes on, and nothing is sent: the stage is not the one of a handler again, unless
\* the run starts, nor the one of a response.
LEMMA RunMoves ==
    ASSUME StreamsInv, NEW i \in DOMAIN runs, NEW new \in RunType, runs' = [runs EXCEPT ![i] = new],
           http_stage' \in {http_stage, "IDLE", "HANDLER"}, new.at # "start",
           http_stage' = "HANDLER" => http_stage = "HANDLER" \/ runs[i].at = "start",
           new.at \in MaySend => http_stage' = "HANDLER" \/ (http_stage' = http_stage /\ runs[i].at \in MaySend),
           UNCHANGED <<protocol, connected, headers_sent, responses, reread, wire>>
    PROVE  StreamsInv'
  <1> USE DEF StreamsInv
  <1>1. runs' \in Seq(RunType) /\ Len(runs') = Len(runs) /\ runs'[i] = new
    BY SetRun DEF StreamsTyped
  <1>2. StreamsTyped'
    BY <1>1 DEF StreamsTyped
  <1>3. OneResponse' /\ (Ended' <=> Ended)
    BY WireKept
  <1>4. Unmade'
    BY <1>1 DEF Unmade, StreamsTyped
  <1>5. OnHttp3'
    BY <1>3 DEF OnHttp3, Continues
  <1>6. OnAsgi'
    <2>1. protocol = "asgi" => Len(runs) = 1 /\ i = 1
      BY DEF OnAsgi, StreamsTyped
    <2> QED BY <2>1, <1>1, <1>3 DEF OnAsgi, Continues
  <1> QED BY <1>2, <1>3, <1>4, <1>5, <1>6

\* The first run of a request.
LEMMA MadeKeeps ==
    ASSUME StreamsInv, NEW ok \in BOOLEAN, NEW new \in {"http3", "asgi"}, Made(ok, new)
    PROVE  StreamsInv'
  <1> USE DEF StreamsInv, Made
  <1>1. wire = <<>> /\ ~headers_sent
    BY DEF Unmade
  <1>2. Run("start", 0) \in RunType
    BY DEF Run, RunType, Places
  <1>3. runs' \in Seq(RunType)
    BY <1>2
  <1>4. StreamsTyped'
    BY <1>3 DEF StreamsTyped
  <1>5. OneResponse'
    BY <1>1 DEF OneResponse
  <1>6. Unmade'
    BY <1>1 DEF Unmade
  <1>7. OnHttp3' /\ OnAsgi'
    <2>1. http_stage' = "IDLE"
      BY DEF Unmade
    <2> QED BY <1>1, <2>1 DEF OnHttp3, OnAsgi, Run, MaySend
  <1> QED BY <1>4, <1>5, <1>6, <1>7

\* More of a body, or too much of it: one run is cancelled and another one begins.
LEMMA DataKeeps ==
    ASSUME StreamsInv, DataReceived
    PROVE  StreamsInv'
  <1> USE DEF StreamsInv, DataReceived
  <1>1. Run("start", 2) \in RunType
    BY DEF Run, RunType, Places
  <1>2. CancelRun(runs, future, "now") \in Seq(RunType)
    BY CancelTyped DEF StreamsTyped
  <1>3. runs' \in Seq(RunType)
    <2>1. runs' = runs \/ runs' = Append(CancelRun(runs, future, "now"), Run("start", 2))
      OBVIOUS
    <2>2. runs \in Seq(RunType)
      BY DEF StreamsTyped
    <2>3. Append(CancelRun(runs, future, "now"), Run("start", 2)) \in Seq(RunType)
      BY <1>1, <1>2, AppendProperties
    <2> QED BY <2>1, <2>2, <2>3
  <1>4. StreamsTyped'
    BY <1>3 DEF StreamsTyped
  <1>5. OneResponse' /\ (Ended' <=> Ended)
    BY WireKept
  <1>6. Unmade' /\ OnAsgi'
    BY DEF Unmade, OnAsgi
  <1>7. OnHttp3'
    BY <1>5 DEF OnHttp3, Continues
  <1> QED BY <1>4, <1>5, <1>6, <1>7

\* An ASGI handler reads on.
LEMMA ReadKeeps ==
    ASSUME StreamsInv, NEW i \in DOMAIN runs, NEW more \in BOOLEAN, ReadMessage(i, more)
    PROVE  StreamsInv'
  <1> USE DEF StreamsInv, ReadMessage
  <1>1. StreamsTyped'
    BY DEF StreamsTyped
  <1>2. OneResponse' /\ (Ended' <=> Ended)
    BY WireKept
  <1>3. Unmade' /\ OnHttp3'
    BY DEF Unmade, OnHttp3
  <1>4. OnAsgi'
    <2>1. i = 1 /\ runs[1].at = "handling" /\ protocol = "asgi"
      BY DEF OnAsgi, StreamsTyped, At
    <2> QED BY <2>1, <1>2 DEF OnAsgi, Continues, MaySend
  <1> QED BY <1>1, <1>2, <1>3, <1>4

\* run() and __call__ start, an exception is handled, and a cancellation ends a run or does not.
LEMMA MovesKeep ==
    ASSUME StreamsInv, NEW i \in DOMAIN runs,
           StartRun(i) \/ HandleException(i) \/ CancelEnds(i) \/ CancelCaught(i)
    PROVE  StreamsInv'
  <1>1. runs[i] \in RunType /\ http_stage \in {"IDLE", "REQUEST", "HANDLER", "RESPONSE", "FAILED"}
    BY DEF StreamsInv, StreamsTyped
  <1>2. CASE StartRun(i)
    <2> DEFINE new == [runs[i] EXCEPT !.at = IF runs[i].level = 0 THEN "handling" ELSE "raised"]
    <2>1. new \in RunType /\ new.at # "start"
      BY <1>1 DEF RunType, Places
    <2>2. runs' = [runs EXCEPT ![i] = new] /\ runs[i].at = "start" /\ http_stage' = "HANDLER"
      BY <1>2 DEF StartRun, At
    <2>3. UNCHANGED <<protocol, connected, headers_sent, responses, reread, wire>>
      BY <1>2 DEF StartRun
    <2> HIDE DEF new
    <2> QED BY <2>1, <2>2, <2>3, RunMoves
  <1>3. CASE HandleException(i) /\ http_stage = "HANDLER"
    <2> DEFINE new == [runs[i] EXCEPT !.at = "checked"]
    <2>1. new \in RunType /\ new.at = "checked"
      BY <1>1 DEF RunType, Places
    <2>2. runs' = [runs EXCEPT ![i] = new] /\ http_stage' = "HANDLER"
      BY <1>3 DEF HandleException
    <2>3. UNCHANGED <<protocol, connected, headers_sent, responses, reread, wire>>
      BY <1>3 DEF HandleException
    <2> HIDE DEF new
    <2> QED BY <1>3, <2>1, <2>2, <2>3, RunMoves
  <1>4. CASE HandleException(i) /\ http_stage # "HANDLER"
    <2> DEFINE new == [runs[i] EXCEPT !.at = "over", !.cancel = "no"]
    <2>1. new \in RunType /\ new.at = "over"
      BY <1>1 DEF RunType, Places, Over
    <2>2. runs' = [runs EXCEPT ![i] = new] /\ http_stage' \in {"IDLE", http_stage}
      BY <1>4 DEF HandleException, Leaves
    <2>3. UNCHANGED <<protocol, connected, headers_sent, responses, reread, wire>>
      BY <1>4 DEF HandleException
    <2> HIDE DEF new
    <2> QED BY <1>4, <2>1, <2>2, <2>3, RunMoves DEF MaySend
  <1>5. CASE CancelEnds(i)
    <2> DEFINE new == [runs[i] EXCEPT !.at = "cancelled", !.cancel = "no"]
    <2>1. new \in RunType /\ new.at = "cancelled"
      BY <1>1 DEF RunType, Places, Over
    <2>2. runs' = [runs EXCEPT ![i] = new] /\ http_stage' = http_stage
      BY <1>5 DEF CancelEnds
    <2>3. UNCHANGED <<protocol, connected, headers_sent, responses, reread, wire>>
      BY <1>5 DEF CancelEnds
    <2> HIDE DEF new
    <2> QED BY <2>1, <2>2, <2>3, RunMoves DEF MaySend
  <1>6. CASE CancelCaught(i)
    <2> DEFINE new == [runs[i] EXCEPT !.cancel = "no"]
    <2>1. new \in RunType /\ new.at = "handling" /\ runs[i].at = "handling"
      BY <1>1, <1>6 DEF RunType, CancelCaught
    <2>2. runs' = [runs EXCEPT ![i] = new] /\ http_stage' = http_stage
      BY <1>6 DEF CancelCaught
    <2>3. UNCHANGED <<protocol, connected, headers_sent, responses, reread, wire>>
      BY <1>6 DEF CancelCaught
    <2> HIDE DEF new
    <2> QED BY <2>1, <2>2, <2>3, RunMoves DEF MaySend
  <1> QED BY <1>2, <1>3, <1>4, <1>5, <1>6

\* What is connected is answered.
LEMMA AnsweringKeeps ==
    ASSUME StreamsInv, NEW i \in DOMAIN runs, runs[i].at \in MaySend, http_stage' = http_stage,
           runs' = [runs EXCEPT ![i] = [@ EXCEPT !.at = "answering", !.resp = connected]],
           UNCHANGED <<protocol, connected, headers_sent, responses, reread, wire>>
    PROVE  StreamsInv'
  <1> DEFINE new == [runs[i] EXCEPT !.at = "answering", !.resp = connected]
  <1>1. runs[i] \in RunType /\ connected \in Nat
    BY DEF StreamsInv, StreamsTyped
  <1>2. new \in RunType /\ new.at = "answering"
    BY <1>1 DEF RunType, Places
  <1>3. runs' = [runs EXCEPT ![i] = new]
    OBVIOUS
  <1> HIDE DEF new
  <1> QED BY <1>2, <1>3, RunMoves

\* respond(), by a handler, for one, or by an error handler.
LEMMA RespondKeeps ==
    ASSUME StreamsInv, NEW i \in DOMAIN runs,
           RespondFirst(i) \/ Return(i) \/ RunRaises(i) \/ \E returned \in BOOLEAN : AnswerError(i, returned)
    PROVE  StreamsInv'
  <1>1. connected \in Nat /\ runs \in Seq(RunType)
    BY DEF StreamsInv, StreamsTyped
  <1>2. UNCHANGED <<protocol, headers_sent, reread, wire>>
    BY DEF RespondFirst, Return, RunRaises, AnswerError
  <1>3. runs[i].at \in MaySend
    BY DEF RespondFirst, Return, RunRaises, AnswerError, At, MaySend
  <1>4. \/ \E at \in MaySend : http_stage = "HANDLER" /\ Connect(i, at)
        \/ \E stage \in {http_stage, "FAILED"} : Escapes(runs, i, stage) /\ UNCHANGED <<connected, responses>>
        \/ /\ runs' = [runs EXCEPT ![i] = [@ EXCEPT !.at = "answering", !.resp = connected]]
           /\ UNCHANGED <<connected, responses, http_stage>>
    <2>1. CASE RespondFirst(i)
      BY <2>1, <1>3 DEF RespondFirst
    <2>2. CASE Return(i)
      BY <2>2 DEF Return, MaySend
    <2>3. CASE RunRaises(i)
      BY <2>3 DEF RunRaises
    <2>4. CASE \E returned \in BOOLEAN : AnswerError(i, returned)
      BY <2>4 DEF AnswerError, MaySend
    <2> QED BY <2>1, <2>2, <2>3, <2>4
  <1>5. ASSUME NEW at \in MaySend, http_stage = "HANDLER", Connect(i, at) PROVE StreamsInv'
    BY <1>2, <1>5, ConnectKeeps
  <1>6. ASSUME NEW stage \in {http_stage, "FAILED"}, Escapes(runs, i, stage), UNCHANGED <<connected, responses>>
        PROVE  StreamsInv'
    BY <1>1, <1>2, <1>6, EscapesKeeps
  <1>7. CASE /\ runs' = [runs EXCEPT ![i] = [@ EXCEPT !.at = "answering", !.resp = connected]]
             /\ UNCHANGED <<connected, responses, http_stage>>
    BY <1>2, <1>3, <1>7, AnsweringKeeps
  <1> QED BY <1>4, <1>5, <1>6, <1>7

\* send(), by a handler, for what it returned, or by an error handler.
LEMMA SendingKeeps ==
    ASSUME StreamsInv, NEW i \in DOMAIN runs,
           (\E end \in BOOLEAN : SendPiece(i, end)) \/ AnswerRun(i)
    PROVE  StreamsInv'
  <1>1. connected \in Nat /\ runs \in Seq(RunType)
    BY DEF StreamsInv, StreamsTyped
  <1>2. /\ HeadRun(i) \in Seq(RunType) /\ Len(HeadRun(i)) = Len(runs)
        /\ HeadRun(i)[i].at = runs[i].at
    BY <1>1, CancelTyped DEF HeadRun
  <1>3. UNCHANGED <<protocol, connected, responses, reread>> /\ runs[i].at \in MaySend
    BY DEF SendPiece, AnswerRun, At, MaySend
  <1>4. ASSUME Escapes(runs, i, http_stage), UNCHANGED <<wire, headers_sent>> PROVE StreamsInv'
    BY <1>1, <1>3, <1>4, EscapesKeeps
  <1>5. ASSUME NEW end \in BOOLEAN, SendPiece(i, end) PROVE StreamsInv'
    <2>1. CASE Sends(i, end)
      BY <1>2, <1>3, <1>5, <2>1, SendKeeps DEF SendPiece
    <2>2. CASE ~Sends(i, end)
      BY <1>4, <1>5, <2>2 DEF SendPiece
    <2> QED BY <2>1, <2>2
  <1>6. CASE AnswerRun(i)
    <2>1. CASE Sends(i, TRUE)
      <3> DEFINE new == [HeadRun(i)[i] EXCEPT !.at = "over", !.cancel = "no"]
      <3>1. i \in DOMAIN HeadRun(i) /\ HeadRun(i)[i] \in RunType
        BY <1>1, <1>2
      <3>2. new \in RunType /\ new.at = "over"
        BY <3>1 DEF RunType, Places, Over
      <3>3. runs' = [HeadRun(i) EXCEPT ![i] = new]
        BY <1>6, <2>1 DEF AnswerRun
      <3> HIDE DEF new
      <3>4. runs' \in Seq(RunType) /\ Len(runs') = Len(runs) /\ runs'[i].at = "over"
        BY <1>2, <3>1, <3>2, <3>3, SetRun
      <3>5. Transmit(i, TRUE) /\ http_stage' = "IDLE"
        BY <1>6, <2>1 DEF AnswerRun
      <3> QED BY <1>3, <2>1, <3>4, <3>5, SendKeeps
    <2>2. CASE ~Sends(i, TRUE)
      BY <1>4, <1>6, <2>2 DEF AnswerRun
    <2> QED BY <2>1, <2>2
  <1> QED BY <1>5, <1>6

\* The response of an error that is cancelled on its way, and sent all the same: nothing was
\* sent before.
LEMMA CancelAnsweredKeeps ==
    ASSUME StreamsInv, NEW i \in DOMAIN runs, CancelAnswered(i)
    PROVE  StreamsInv'
  <1>1. runs \in Seq(RunType) /\ runs[i] \in RunType /\ runs[i].resp \in Nat /\ connected \in Nat
    <2>1. runs \in Seq(RunType) /\ connected \in Nat
      BY DEF StreamsInv, StreamsTyped
    <2>2. runs[i] \in RunType
      BY <2>1
    <2> QED BY <2>1, <2>2 DEF RunType
  <1> DEFINE calm == [runs[i] EXCEPT !.cancel = "no"]
             new  == [runs[i] EXCEPT !.at = "cancelled", !.cancel = "no"]
  <1>2. calm \in RunType /\ new \in RunType /\ new.at = "cancelled"
    BY <1>1 DEF RunType, Places, Over
  <1>3. [runs EXCEPT ![i].cancel = "no"] = [runs EXCEPT ![i] = calm]
    OBVIOUS
  <1> HIDE DEF calm
  <1>4. [runs EXCEPT ![i].cancel = "no"] \in Seq(RunType) /\ Len([runs EXCEPT ![i].cancel = "no"]) = Len(runs)
    BY <1>1, <1>2, <1>3, SetRun
  <1>5. UNCHANGED <<protocol, responses, reread>>
    BY DEF CancelAnswered
  <1>6. CASE http_stage # "HANDLER"
    BY <1>1, <1>4, <1>5, <1>6, EscapesKeeps DEF CancelAnswered
  <1>7. CASE http_stage = "HANDLER" /\ headers_sent
    BY <1>1, <1>4, <1>5, <1>7, EscapesKeeps DEF CancelAnswered
  <1>8. CASE http_stage = "HANDLER" /\ ~headers_sent
    <2>1. /\ runs' = [runs EXCEPT ![i] = new]
          /\ headers_sent' = TRUE /\ http_stage' = "IDLE" /\ connected' = runs[i].resp
          /\ wire' = wire \o <<[kind |-> "head", resp |-> connected'], [kind |-> "end", resp |-> connected']>>
      BY <1>8 DEF CancelAnswered
    <2> HIDE DEF new
    <2>2. protocol \in {"http3", "asgi"} /\ wire = <<>>
      BY <1>8 DEF StreamsInv, StreamsTyped, Unmade, OnHttp3, OnAsgi
    <2>3. wire' = <<[kind |-> "head", resp |-> connected'], [kind |-> "end", resp |-> connected']>>
      <3>1. [kind |-> "head", resp |-> connected'] \in Piece /\ [kind |-> "end", resp |-> connected'] \in Piece
        BY <1>1, <2>1 DEF Piece
      <3>2. <<[kind |-> "head", resp |-> connected'], [kind |-> "end", resp |-> connected']>> \in Seq(Piece)
        BY <3>1
      <3> QED BY <2>1, <2>2, <3>2, ConcatEmptySeq
    <2>4. /\ wire' \in Seq(Piece) /\ wire' # <<>> /\ wire'[1].resp = connected'
          /\ OneResponse' /\ Ended'
      BY <1>1, <2>1, <2>2, <2>3, FirstPieces
    <2>5. runs' \in Seq(RunType) /\ Len(runs') = Len(runs) /\ runs'[i].at = "cancelled"
      BY <1>1, <1>2, <2>1, SetRun
    <2>6. StreamsTyped'
      BY <1>1, <1>5, <2>1, <2>4, <2>5 DEF StreamsInv, StreamsTyped
    <2>7. Unmade' /\ OnHttp3'
      BY <1>5, <2>1, <2>2, <2>4 DEF Unmade, OnHttp3
    <2>8. OnAsgi'
      <3>1. protocol = "asgi" => Len(runs) = 1 /\ i = 1
        BY <1>1 DEF StreamsInv, OnAsgi
      <3> QED BY <1>5, <2>1, <2>5, <3>1 DEF OnAsgi, MaySend
    <2> QED BY <2>4, <2>6, <2>7, <2>8 DEF StreamsInv
  <1> QED BY <1>6, <1>7, <1>8

\* The invariant is kept by every step.
LEMMA StreamsKept == StreamsInv /\ [StreamsNext]_stream_vars => StreamsInv'
  <1> SUFFICES ASSUME StreamsInv, [StreamsNext]_stream_vars PROVE StreamsInv'
    OBVIOUS
  <1>1. ASSUME NEW ok \in BOOLEAN, Create(ok) PROVE StreamsInv'
    BY <1>1, MadeKeeps DEF Create
  <1>2. ASSUME NEW ok \in BOOLEAN, NEW is_head \in BOOLEAN, HeadersReceived(ok, is_head) PROVE StreamsInv'
    BY <1>2, MadeKeeps DEF HeadersReceived
  <1>3. CASE DataReceived
    BY <1>3, DataKeeps
  <1>4. ASSUME NEW i \in DOMAIN runs, NEW more \in BOOLEAN, ReadMessage(i, more) PROVE StreamsInv'
    BY <1>4, ReadKeeps
  <1>5. ASSUME NEW i \in DOMAIN runs, StartRun(i) \/ HandleException(i) \/ CancelEnds(i) \/ CancelCaught(i)
        PROVE  StreamsInv'
    BY <1>5, MovesKeep
  <1>6. ASSUME NEW i \in DOMAIN runs,
               RespondFirst(i) \/ Return(i) \/ RunRaises(i) \/ \E returned \in BOOLEAN : AnswerError(i, returned)
        PROVE  StreamsInv'
    BY <1>6, RespondKeeps
  <1>7. ASSUME NEW i \in DOMAIN runs, (\E end \in BOOLEAN : SendPiece(i, end)) \/ AnswerRun(i)
        PROVE  StreamsInv'
    BY <1>7, SendingKeeps
  <1>8. ASSUME NEW i \in DOMAIN runs, CancelAnswered(i) PROVE StreamsInv'
    BY <1>8, CancelAnsweredKeeps
  <1>9. CASE UNCHANGED stream_vars
    BY <1>9 DEF stream_vars, StreamsInv, StreamsTyped, Unmade, OnHttp3, OnAsgi, Continues, Ended, OneResponse
  <1> QED BY <1>1, <1>2, <1>3, <1>4, <1>5, <1>6, <1>7, <1>8, <1>9 DEF StreamsNext

\* It holds of a stream nobody has asked anything of.
LEMMA StreamsBegin == StreamsInit => StreamsInv
  <1> SUFFICES ASSUME StreamsInit PROVE StreamsInv
    OBVIOUS
  <1> USE DEF StreamsInit
  <1>1. StreamsTyped
    <2>1. runs \in Seq(RunType) /\ wire \in Seq(Piece)
      OBVIOUS
    <2> QED BY <2>1 DEF StreamsTyped
  <1>2. Unmade /\ OnHttp3 /\ OnAsgi
    BY DEF Unmade, OnHttp3, OnAsgi
  <1>3. OneResponse
    BY DEF OneResponse
  <1> QED BY <1>1, <1>2, <1>3 DEF StreamsInv

\* However often a handler responds, raises, is cancelled or is run again, and whatever its
\* error handlers do: what is sent of a request is one response, its head first and once, then
\* pieces of the same response, and nothing after its end - over HTTP/3, and over ASGI unless
\* a handler reads on when its response has ended.
\* (HTTPReceiver.respond, send and run; ASGIApp.respond, send and __call__)
THEOREM OnlyOneResponse == StreamsSpec => []OneResponse
  <1>1. StreamsInv => OneResponse
    BY DEF StreamsInv
  <1> QED BY <1>1, StreamsBegin, StreamsKept, PTL DEF StreamsSpec
-----------------------------------------------------------------------------
(***************************************************************************)
(* A request is answered.  As long as nothing was sent, one run is on its  *)
(* way that nobody cancels and that, if it is about to answer, has the     *)
(* response that is connected: what it sends will be sent.  Two things can *)
(* happen to it.  Another run connects a response, and is then the one on  *)
(* its way; or a body that is too large cancels it, and starts a new one.  *)
(* A run that fails for good is never it: until something was sent, only   *)
(* the answer of a response that is no longer connected raises out of      *)
(* handle_exception, so the last level is reached by nobody else.          *)
(***************************************************************************)
Prompt(run, response) ==
    run.at \notin Over /\ run.cancel = "no" /\ (run.at = "answering" => run.resp = response)

Silent ==
    wire = <<>> /\ runs # <<>> =>
        /\ \/ http_stage = "HANDLER"
           \/ http_stage = "IDLE" /\ \A i \in DOMAIN runs : runs[i].at \in {"start", "cancelled"}
        /\ \A i \in DOMAIN runs : runs[i].cancel # "soon"
        /\ \E i \in DOMAIN runs : Prompt(runs[i], connected)

\* what a run has of a response, and at which level it is
Settled(run, response) ==
    /\ run.at \in {"start", "raised"} \/ response = 0 => run.resp = 0
    /\ run.at = "handling" => run.level = 0
    /\ run.at = "answering" => run.resp # 0

Whose ==
    \A i \in DOMAIN runs :
        Settled(runs[i], connected) /\ (runs[i].at = "over" /\ runs[i].resp # 0 => Ended)

\* ASGI: nobody cancels the run, and the stage is IDLE when it has not begun, or has ended
OneRun ==
    /\ protocol # "http3" => head_only = FALSE
    /\ protocol = "asgi" => /\ runs[1].cancel = "no"
                            /\ http_stage = "IDLE" => runs[1].at = "start" \/ Ended

\* HTTP/3: a stream has a run
Begun == protocol = "http3" => runs # <<>>

AnswerInv == Silent /\ Whose /\ OneRun /\ Begun

\* One run goes on, and nothing is sent: if it was the one on its way, it still is, or the
\* one that was is another.
LEMMA RunGoesOn ==
    ASSUME StreamsInv, AnswerInv, NEW i \in DOMAIN runs, NEW new \in RunType,
           runs' = [runs EXCEPT ![i] = new], UNCHANGED <<protocol, head_only, wire>>,
           new.cancel \in {runs[i].cancel, "no"}, new.at = "over" => new.resp = 0,
           Settled(new, connected'), connected' = 0 => connected = 0,
           protocol = "asgi" /\ http_stage' = "IDLE" => http_stage = "IDLE" /\ runs[i].at # "start",
           wire = <<>> =>
              /\ http_stage' = "HANDLER" \/ (http_stage' = http_stage /\ new.at = "cancelled")
              /\ \/ Prompt(new, connected')
                 \/ connected' = connected /\ \E j \in DOMAIN runs \ {i} : Prompt(runs[j], connected)
    PROVE  AnswerInv'
  <1>1. runs \in Seq(RunType)
    BY DEF StreamsInv, StreamsTyped
  <1>2. /\ DOMAIN runs' = DOMAIN runs /\ runs'[i] = new
        /\ \A j \in DOMAIN runs \ {i} : runs'[j] = runs[j]
        /\ runs # <<>> /\ runs' # <<>>
    BY <1>1
  <1>3. Ended' <=> Ended
    BY DEF Ended
  <1>4. Whose'
    <2> SUFFICES ASSUME NEW j \in DOMAIN runs
                 PROVE  Settled(runs'[j], connected') /\ (runs'[j].at = "over" /\ runs'[j].resp # 0 => Ended)
      BY <1>2, <1>3 DEF Whose
    <2>1. CASE j = i
      BY <2>1, <1>2
    <2>2. CASE j # i
      BY <2>2, <1>2 DEF AnswerInv, Whose, Settled
    <2> QED BY <2>1, <2>2
  <1>5. OneRun'
    <2>1. protocol = "asgi" => i = 1
      BY <1>1 DEF StreamsInv, OnAsgi
    <2> QED BY <1>2, <1>3, <2>1 DEF AnswerInv, OneRun
  <1>6. Silent'
    <2> SUFFICES ASSUME wire = <<>>
                 PROVE  /\ \/ http_stage' = "HANDLER"
                           \/ http_stage' = "IDLE" /\ \A j \in DOMAIN runs : runs'[j].at \in {"start", "cancelled"}
                        /\ \A j \in DOMAIN runs : runs'[j].cancel # "soon"
                        /\ \E j \in DOMAIN runs : Prompt(runs'[j], connected')
      BY <1>2 DEF Silent
    <2>1. /\ \/ http_stage = "HANDLER"
             \/ http_stage = "IDLE" /\ \A j \in DOMAIN runs : runs[j].at \in {"start", "cancelled"}
          /\ \A j \in DOMAIN runs : runs[j].cancel # "soon"
      BY <1>2 DEF AnswerInv, Silent
    <2>2. \/ http_stage' = "HANDLER"
          \/ http_stage' = "IDLE" /\ \A j \in DOMAIN runs : runs'[j].at \in {"start", "cancelled"}
      BY <1>2, <2>1
    <2>3. \A j \in DOMAIN runs : runs'[j].cancel # "soon"
      BY <1>2, <2>1
    <2>4. \E j \in DOMAIN runs : Prompt(runs'[j], connected')
      <3>1. CASE Prompt(new, connected')
        BY <1>2, <3>1
      <3>2. CASE connected' = connected /\ \E j \in DOMAIN runs \ {i} : Prompt(runs[j], connected)
        BY <1>2, <3>2
      <3> QED BY <3>1, <3>2
    <2> QED BY <2>2, <2>3, <2>4
  <1>7. Begun'
    BY <1>2 DEF Begun
  <1> QED BY <1>4, <1>5, <1>6, <1>7 DEF AnswerInv

\* An exception leaves handle_request or handle_exception: if nothing was sent, of a handler,
\* or of a run that is not the only one on its way.
LEMMA EscapesAnswered ==
    ASSUME StreamsInv, AnswerInv, NEW i \in DOMAIN runs, runs[i].at \in MaySend,
           NEW calm \in RunType, calm.level = runs[i].level, calm.cancel \in {runs[i].cancel, "no"},
           calm.resp = runs[i].resp,
           NEW stage \in {http_stage, "FAILED"}, Escapes([runs EXCEPT ![i] = calm], i, stage),
           UNCHANGED <<protocol, head_only, wire>>, connected' = 0 => connected = 0,
           wire = <<>> => /\ stage = "HANDLER" /\ connected' = connected
                          /\ \/ runs[i].level = 0
                             \/ \E j \in DOMAIN runs \ {i} : Prompt(runs[j], connected)
    PROVE  AnswerInv'
  <1>1. runs \in Seq(RunType) /\ runs[i] \in RunType
    BY DEF StreamsInv, StreamsTyped
  <1> DEFINE rs  == [runs EXCEPT ![i] = calm]
             new == IF calm.level = LastLevel THEN [calm EXCEPT !.at = "failed", !.cancel = "no"]
                    ELSE [Run("raised", calm.level + 1) EXCEPT !.cancel = calm.cancel]
  <1>2. rs \in Seq(RunType) /\ rs[i] = calm /\ DOMAIN rs = DOMAIN runs
    BY <1>1
  <1>3. new \in RunType
    <2>1. CASE calm.level = LastLevel
      BY <2>1 DEF RunType, Places, Over
    <2>2. CASE calm.level # LastLevel
      BY <2>2 DEF RunType, Places, Run
    <2> QED BY <2>1, <2>2
  <1>4. runs' = [runs EXCEPT ![i] = new]
    <2>1. runs' = [rs EXCEPT ![i] = new]
      BY <1>2 DEF Escapes
    <2> QED BY <1>1, <2>1
  <1>5. new.at \in {"failed", "raised"} /\ new.cancel \in {calm.cancel, "no"}
    BY DEF RunType, Run
  <1>6. Settled(new, connected')
    <2>1. runs[i].resp \in Nat /\ (connected = 0 => runs[i].resp = 0)
      BY <1>1 DEF RunType, AnswerInv, Whose, Settled
    <2>2. CASE calm.level = LastLevel
      <3>1. new.at = "failed" /\ new.resp = runs[i].resp
        BY <2>2 DEF RunType
      <3> QED BY <2>1, <3>1 DEF Settled
    <2>3. CASE calm.level # LastLevel
      <3>1. new.at = "raised" /\ new.resp = 0
        BY <2>3 DEF Run
      <3> QED BY <3>1 DEF Settled
    <2> QED BY <2>2, <2>3
  <1>7. http_stage' = "HANDLER" \/ http_stage' = stage
    BY DEF Escapes
  <1>8. protocol = "asgi" /\ http_stage' = "IDLE" => http_stage = "IDLE" /\ runs[i].at # "start"
    BY <1>7 DEF MaySend
  <1>9. ASSUME wire = <<>>
        PROVE  Prompt(new, connected') \/ \E j \in DOMAIN runs \ {i} : Prompt(runs[j], connected)
    <2>1. PICK j \in DOMAIN runs : Prompt(runs[j], connected)
      BY <1>1, <1>9 DEF AnswerInv, Silent
    <2>2. CASE j # i
      BY <2>1, <2>2
    <2>3. CASE j = i /\ runs[i].level = 0
      <3>1. calm.level # LastLevel
        BY <2>3 DEF LastLevel
      <3>2. new.at = "raised" /\ new.cancel = calm.cancel
        BY <3>1 DEF Run
      <3> QED BY <2>1, <2>3, <3>2 DEF Prompt, Over
    <2> QED BY <2>2, <2>3, <1>9
  <1> HIDE DEF new
  <1> QED BY <1>3, <1>4, <1>5, <1>6, <1>7, <1>8, <1>9, RunGoesOn

\* Who connects a response is the one on its way: it was not cancelled.
LEMMA ConnectAnswered ==
    ASSUME StreamsInv, AnswerInv, NEW i \in DOMAIN runs, NEW at \in MaySend, Working(i),
           at = "handling" => runs[i].at = "handling", http_stage = "HANDLER", Connect(i, at),
           UNCHANGED <<protocol, head_only, wire>>
    PROVE  AnswerInv'
  <1>1. runs \in Seq(RunType) /\ runs[i] \in RunType /\ responses \in Nat
    BY DEF StreamsInv, StreamsTyped
  <1> DEFINE new == [runs[i] EXCEPT !.resp = responses', !.at = at]
  <1>2. responses' \in Nat /\ responses' # 0 /\ connected' = responses' /\ runs' = [runs EXCEPT ![i] = new]
    BY <1>1 DEF Connect
  <1>3. new \in RunType /\ new.at = at /\ new.resp = connected' /\ new.cancel = runs[i].cancel
        /\ new.level = runs[i].level
    BY <1>1, <1>2 DEF RunType, MaySend, Places
  <1>4. at \notin {"start", "raised"} /\ at \notin Over
    BY DEF MaySend, Over
  <1>5. Settled(new, connected')
    BY <1>2, <1>3, <1>4 DEF Settled, AnswerInv, Whose
  <1>6. wire = <<>> => runs[i].cancel = "no"
    BY <1>1 DEF AnswerInv, Silent, Working, RunType
  <1>7. wire = <<>> => Prompt(new, connected')
    BY <1>3, <1>4, <1>6 DEF Prompt
  <1>8. http_stage' = "HANDLER"
    BY DEF Connect
  <1> HIDE DEF new
  <1> QED BY <1>2, <1>3, <1>4, <1>5, <1>7, <1>8, RunGoesOn DEF Over

\* So is who answers with what is connected.
LEMMA FoundAnswered ==
    ASSUME StreamsInv, AnswerInv, NEW i \in DOMAIN runs, runs[i].at \in MaySend, Working(i), connected # 0,
           runs' = [runs EXCEPT ![i] = [@ EXCEPT !.at = "answering", !.resp = connected]],
           UNCHANGED <<protocol, head_only, wire, connected, http_stage>>
    PROVE  AnswerInv'
  <1>1. runs \in Seq(RunType) /\ runs[i] \in RunType /\ connected \in Nat
    BY DEF StreamsInv, StreamsTyped
  <1> DEFINE new == [runs[i] EXCEPT !.at = "answering", !.resp = connected]
  <1>2. runs' = [runs EXCEPT ![i] = new]
    OBVIOUS
  <1>3. new \in RunType /\ new.at = "answering" /\ new.resp = connected /\ new.cancel = runs[i].cancel
    BY <1>1 DEF RunType, Places
  <1>4. Settled(new, connected')
    BY <1>3 DEF Settled
  <1>5. wire = <<>> => http_stage = "HANDLER" /\ runs[i].cancel = "no"
    BY <1>1 DEF AnswerInv, Silent, Working, RunType, MaySend
  <1>6. wire = <<>> => Prompt(new, connected')
    BY <1>3, <1>5 DEF Prompt, Over
  <1>7. runs[i].at # "start"
    BY DEF MaySend
  <1> HIDE DEF new
  <1> QED BY <1>2, <1>3, <1>4, <1>5, <1>6, <1>7, RunGoesOn


-----------------------------------------------------------------------------
\* The first run of a request is on its way.
LEMMA MadeAnswered ==
    ASSUME StreamsInv, AnswerInv, NEW ok \in BOOLEAN, NEW new \in {"http3", "asgi"}, Made(ok, new),
           head_only' = FALSE \/ protocol' = "http3"
    PROVE  AnswerInv'
  <1> USE DEF Made
  <1>1. wire = <<>> /\ http_stage = "IDLE"
    BY DEF StreamsInv, Unmade
  <1>2. /\ protocol' = (IF ok THEN new ELSE "refused") /\ runs' = (IF ok THEN <<Run("start", 0)>> ELSE <<>>)
        /\ UNCHANGED <<http_stage, connected, wire>>
    OBVIOUS
  <1>3. CASE ok
    <2>1. DOMAIN runs' = {1} /\ runs'[1] = Run("start", 0)
      BY <1>2, <1>3
    <2>2. /\ runs'[1].at = "start" /\ runs'[1].cancel = "no" /\ runs'[1].resp = 0
      BY <2>1 DEF Run
    <2> QED BY <1>1, <1>2, <2>1, <2>2 DEF AnswerInv, Silent, Whose, OneRun, Begun, Prompt, Over, Settled
  <1>4. CASE ~ok
    <2>1. DOMAIN runs' = {} /\ runs' = <<>> /\ protocol' = "refused"
      BY <1>2, <1>4
    <2> QED BY <2>1 DEF AnswerInv, Silent, Whose, OneRun, Begun
  <1> QED BY <1>3, <1>4

\* What task.cancel() does to runs: nothing but a mark on one of them.
LEMMA CancelMarks ==
    ASSUME NEW rs \in Seq(RunType), NEW i, NEW when \in {"now", "soon"}, NEW j \in DOMAIN rs
    PROVE  LET new == CancelRun(rs, i, when)[j]
           IN  /\ new.at = rs[j].at /\ new.level = rs[j].level /\ new.resp = rs[j].resp
               /\ new.cancel \in {rs[j].cancel, "no", when}
  <1>1. rs[j] \in RunType
    OBVIOUS
  <1>2. CASE j # i
    BY <1>2 DEF CancelRun
  <1>3. CASE j = i
    <2> DEFINE new == [rs[j] EXCEPT !.cancel = IF rs[j].at \in Over THEN "no" ELSE when]
    <2>1. CancelRun(rs, i, when)[j] = new
      BY <1>3 DEF CancelRun
    <2>2. /\ new.at = rs[j].at /\ new.level = rs[j].level /\ new.resp = rs[j].resp
          /\ new.cancel \in {"no", when}
      BY <1>1 DEF RunType
    <2> HIDE DEF new
    <2> QED BY <2>1, <2>2
  <1> QED BY <1>2, <1>3

\* A body that is too large cancels who is on its way, and the run that it starts is.
LEMMA DataAnswered ==
    ASSUME StreamsInv, AnswerInv, DataReceived
    PROVE  AnswerInv'
  <1>1. runs \in Seq(RunType)
    BY DEF StreamsInv, StreamsTyped
  <1>2. protocol = "http3" /\ UNCHANGED <<protocol, http_stage, connected, head_only, wire>>
    BY DEF DataReceived
  <1>3. OneRun' /\ (Ended' <=> Ended)
    BY <1>2 DEF AnswerInv, OneRun, Ended
  <1>4. CASE UNCHANGED runs
    BY <1>2, <1>3, <1>4 DEF AnswerInv, Silent, Whose, Begun
  <1>5. CASE runs' = Append(CancelRun(runs, future, "now"), Run("start", 2))
    <2> DEFINE marked == CancelRun(runs, future, "now")
               last   == Len(runs) + 1
    <2>1. marked \in Seq(RunType) /\ Len(marked) = Len(runs)
      BY <1>1, CancelTyped
    <2>2. Run("start", 2) \in RunType
      BY DEF Run, RunType, Places
    <2>3. \A j \in DOMAIN runs : /\ marked[j].at = runs[j].at /\ marked[j].level = runs[j].level
                                 /\ marked[j].resp = runs[j].resp
                                 /\ marked[j].cancel \in {runs[j].cancel, "no", "now"}
      BY <1>1, CancelMarks
    <2> HIDE DEF marked
    <2>4. /\ DOMAIN runs' = DOMAIN runs \cup {last} /\ runs'[last] = Run("start", 2) /\ runs' # <<>>
          /\ \A j \in DOMAIN runs : runs'[j] = marked[j]
      BY <1>1, <1>5, <2>1, <2>2 DEF marked
    <2>5. runs'[last].at = "start" /\ runs'[last].cancel = "no" /\ runs'[last].resp = 0
      BY <2>4 DEF Run
    <2>6. Whose'
      <3> SUFFICES ASSUME NEW j \in DOMAIN runs'
                   PROVE  Settled(runs'[j], connected) /\ (runs'[j].at = "over" /\ runs'[j].resp # 0 => Ended)
        BY <1>2, <1>3 DEF Whose
      <3>1. CASE j = last
        BY <2>5, <3>1 DEF Settled
      <3>2. CASE j \in DOMAIN runs
        BY <2>3, <2>4, <3>2 DEF AnswerInv, Whose, Settled
      <3> QED BY <2>4, <3>1, <3>2
    <2>7. Silent'
      <3> SUFFICES ASSUME wire = <<>>
                   PROVE  /\ \/ http_stage = "HANDLER"
                             \/ http_stage = "IDLE" /\ \A j \in DOMAIN runs' : runs'[j].at \in {"start", "cancelled"}
                          /\ \A j \in DOMAIN runs' : runs'[j].cancel # "soon"
                          /\ \E j \in DOMAIN runs' : Prompt(runs'[j], connected)
        BY <1>2, <2>4 DEF Silent
      <3>1. Prompt(runs'[last], connected)
        BY <2>5 DEF Prompt, Over
      <3>2. runs # <<>>
        BY <1>2 DEF AnswerInv, Begun
      <3>3. /\ \/ http_stage = "HANDLER"
               \/ http_stage = "IDLE" /\ \A j \in DOMAIN runs : runs[j].at \in {"start", "cancelled"}
            /\ \A j \in DOMAIN runs : runs[j].cancel # "soon"
        BY <3>2 DEF AnswerInv, Silent
      <3> QED BY <2>3, <2>4, <2>5, <3>1, <3>3
    <2>8. Begun'
      BY <2>4 DEF Begun
    <2> QED BY <1>3, <2>6, <2>7, <2>8 DEF AnswerInv
  <1> QED BY <1>4, <1>5 DEF DataReceived

\* An ASGI handler that reads on when nothing was sent leaves the stage as it is.
LEMMA ReadAnswered ==
    ASSUME StreamsInv, AnswerInv, NEW i \in DOMAIN runs, NEW more \in BOOLEAN, ReadMessage(i, more)
    PROVE  AnswerInv'
  <1>1. /\ runs[i].at = "handling" /\ http_stage' = (IF http_stage = "IDLE" THEN "REQUEST" ELSE http_stage)
        /\ UNCHANGED <<protocol, connected, head_only, runs, wire>>
    BY DEF ReadMessage, At
  <1>2. Ended' <=> Ended
    BY <1>1 DEF Ended
  <1>3. Whose' /\ OneRun' /\ Begun'
    BY <1>1, <1>2 DEF AnswerInv, Whose, OneRun, Begun
  <1>4. Silent'
    BY <1>1 DEF AnswerInv, Silent
  <1> QED BY <1>3, <1>4 DEF AnswerInv

\* run() and __call__ start, an exception is handled, and a cancellation ends a run or does
\* not: if nothing was sent, handle_exception is not silent, and who is cancelled was not
\* the one on its way.
LEMMA MovesAnswered ==
    ASSUME StreamsInv, AnswerInv, NEW i \in DOMAIN runs,
           StartRun(i) \/ HandleException(i) \/ CancelEnds(i) \/ CancelCaught(i)
    PROVE  AnswerInv'
  <1>1. runs \in Seq(RunType) /\ runs[i] \in RunType
    BY DEF StreamsInv, StreamsTyped
  <1>2. UNCHANGED <<protocol, connected, head_only, wire>>
    BY DEF StartRun, HandleException, CancelEnds, CancelCaught
  <1>3. Settled(runs[i], connected)
    BY DEF AnswerInv, Whose
  <1>4. protocol = "asgi" => i = 1
    BY <1>1 DEF StreamsInv, OnAsgi
  <1>5. wire = <<>> => \E j \in DOMAIN runs : Prompt(runs[j], connected)
    BY <1>1 DEF AnswerInv, Silent
  <1>6. CASE StartRun(i)
    <2> DEFINE new == [runs[i] EXCEPT !.at = IF runs[i].level = 0 THEN "handling" ELSE "raised"]
    <2>1. /\ new \in RunType /\ new.at \in {"handling", "raised"} /\ (new.at = "handling" => new.level = 0)
          /\ new.cancel = runs[i].cancel /\ new.resp = runs[i].resp
      BY <1>1 DEF RunType, Places
    <2>2. runs' = [runs EXCEPT ![i] = new] /\ runs[i].at = "start" /\ http_stage' = "HANDLER"
      BY <1>6 DEF StartRun, At
    <2> HIDE DEF new
    <2>3. Settled(new, connected')
      BY <1>2, <1>3, <2>1, <2>2 DEF Settled
    <2>4. Prompt(runs[i], connected) => Prompt(new, connected)
      BY <2>1 DEF Prompt, Over
    <2> QED BY <1>2, <1>5, <2>1, <2>2, <2>3, <2>4, RunGoesOn
  <1>7. CASE HandleException(i) /\ http_stage = "HANDLER"
    <2> DEFINE new == [runs[i] EXCEPT !.at = "checked"]
    <2>1. new \in RunType /\ new.at = "checked" /\ new.cancel = runs[i].cancel /\ new.resp = runs[i].resp
      BY <1>1 DEF RunType, Places
    <2>2. runs' = [runs EXCEPT ![i] = new] /\ runs[i].at = "raised" /\ http_stage' = "HANDLER"
      BY <1>7 DEF HandleException, At
    <2> HIDE DEF new
    <2>3. Settled(new, connected')
      BY <1>2, <1>3, <2>1, <2>2 DEF Settled
    <2>4. Prompt(runs[i], connected) => Prompt(new, connected)
      BY <2>1 DEF Prompt, Over
    <2> QED BY <1>2, <1>5, <2>1, <2>2, <2>3, <2>4, RunGoesOn
  <1>8. CASE HandleException(i) /\ http_stage # "HANDLER"
    <2> DEFINE new == [runs[i] EXCEPT !.at = "over", !.cancel = "no"]
    <2>1. new \in RunType /\ new.at = "over" /\ new.cancel = "no" /\ new.resp = runs[i].resp
      BY <1>1 DEF RunType, Places, Over
    <2>2. /\ runs' = [runs EXCEPT ![i] = new] /\ runs[i].at = "raised"
          /\ http_stage' = IF protocol = "http3" THEN "IDLE" ELSE http_stage
      BY <1>8 DEF HandleException, At, Leaves
    <2> HIDE DEF new
    <2>3. new.resp = 0 /\ Settled(new, connected')
      BY <1>2, <1>3, <2>1, <2>2 DEF Settled
    <2>4. wire # <<>>
      BY <1>1, <1>8, <2>2 DEF AnswerInv, Silent
    <2> QED BY <1>2, <2>1, <2>2, <2>3, <2>4, RunGoesOn
  <1>9. CASE CancelEnds(i)
    <2> DEFINE new == [runs[i] EXCEPT !.at = "cancelled", !.cancel = "no"]
    <2>1. new \in RunType /\ new.at = "cancelled" /\ new.cancel = "no" /\ new.resp = runs[i].resp
      BY <1>1 DEF RunType, Places, Over
    <2>2. runs' = [runs EXCEPT ![i] = new] /\ runs[i].cancel # "no" /\ http_stage' = http_stage
      BY <1>9 DEF CancelEnds
    <2> HIDE DEF new
    <2>3. Settled(new, connected')
      BY <1>2, <1>3, <2>1 DEF Settled
    <2>4. protocol # "asgi"
      BY <1>4, <2>2 DEF AnswerInv, OneRun
    <2>5. ~Prompt(runs[i], connected)
      BY <2>2 DEF Prompt
    <2> QED BY <1>2, <1>5, <2>1, <2>2, <2>3, <2>4, <2>5, RunGoesOn
  <1>10. CASE CancelCaught(i)
    <2> DEFINE new == [runs[i] EXCEPT !.cancel = "no"]
    <2>1. /\ new \in RunType /\ new.at = runs[i].at /\ new.cancel = "no" /\ new.resp = runs[i].resp
          /\ new.level = runs[i].level
      BY <1>1 DEF RunType
    <2>2. runs' = [runs EXCEPT ![i] = new] /\ runs[i].at = "handling" /\ http_stage' = http_stage
      BY <1>10 DEF CancelCaught
    <2> HIDE DEF new
    <2>3. Settled(new, connected')
      BY <1>2, <1>3, <2>1 DEF Settled
    <2>4. wire = <<>> => http_stage = "HANDLER"
      BY <1>1, <2>2 DEF AnswerInv, Silent
    <2>5. Prompt(new, connected)
      BY <2>1, <2>2 DEF Prompt, Over
    <2> QED BY <1>2, <2>1, <2>2, <2>3, <2>4, <2>5, RunGoesOn
  <1> QED BY <1>6, <1>7, <1>8, <1>9, <1>10

\* The same of an exception that nobody's cancellation gave way to.
LEMMA RaisesAnswered ==
    ASSUME StreamsInv, AnswerInv, NEW i \in DOMAIN runs, runs[i].at \in MaySend,
           NEW stage \in {http_stage, "FAILED"}, Escapes(runs, i, stage),
           UNCHANGED <<protocol, head_only, wire, connected>>,
           wire = <<>> => /\ stage = "HANDLER"
                          /\ \/ runs[i].level = 0
                             \/ \E j \in DOMAIN runs \ {i} : Prompt(runs[j], connected)
    PROVE  AnswerInv'
  <1>1. runs \in Seq(RunType) /\ runs[i] \in RunType
    BY DEF StreamsInv, StreamsTyped
  <1>2. [runs EXCEPT ![i] = runs[i]] = runs
    BY <1>1
  <1> QED BY <1>1, <1>2, EscapesAnswered

\* While nothing was sent a run that may send finds the stage of a handler.
LEMMA StageOfHandler ==
    ASSUME AnswerInv, NEW i \in DOMAIN runs, runs[i].at \in MaySend, wire = <<>>, runs \in Seq(RunType)
    PROVE  http_stage = "HANDLER" /\ (runs[i].at = "handling" => runs[i].level = 0)
  <1>1. runs # <<>>
    OBVIOUS
  <1> QED BY <1>1 DEF AnswerInv, Silent, Whose, Settled, MaySend

\* respond(), by a handler, for one, or by an error handler.
LEMMA RespondAnswered ==
    ASSUME StreamsInv, AnswerInv, NEW i \in DOMAIN runs,
           RespondFirst(i) \/ Return(i) \/ RunRaises(i) \/ \E returned \in BOOLEAN : AnswerError(i, returned)
    PROVE  AnswerInv'
  <1>1. runs \in Seq(RunType)
    BY DEF StreamsInv, StreamsTyped
  <1>2. UNCHANGED <<protocol, head_only, wire>>
    BY DEF RespondFirst, Return, RunRaises, AnswerError
  <1>3. runs[i].at \in {"handling", "checked"} /\ runs[i].at \in MaySend /\ Working(i)
    BY DEF RespondFirst, Return, RunRaises, AnswerError, At, MaySend
  <1>4. wire = <<>> => http_stage = "HANDLER" /\ (runs[i].at = "handling" => runs[i].level = 0)
    BY <1>1, <1>3, StageOfHandler
  <1>5. connected = 0 => runs[i].resp = 0
    BY DEF AnswerInv, Whose, Settled
  <1> DEFINE Connects == \E at \in MaySend : /\ at = "handling" => runs[i].at = "handling"
                                            /\ http_stage = "HANDLER" /\ Connect(i, at)
             Raises == \E stage \in {http_stage, "FAILED"} :
                          /\ Escapes(runs, i, stage) /\ UNCHANGED connected
                          /\ http_stage = "HANDLER" => stage = "HANDLER" /\ runs[i].at = "handling"
             Finds == /\ runs' = [runs EXCEPT ![i] = [@ EXCEPT !.at = "answering", !.resp = connected]]
                      /\ connected # 0 /\ UNCHANGED <<connected, http_stage>>
  <1>6. Connects \/ Raises \/ Finds
    <2>1. CASE RespondFirst(i)
      BY <1>3, <2>1 DEF RespondFirst
    <2>2. CASE Return(i)
      BY <2>2 DEF Return, MaySend, At
    <2>3. CASE RunRaises(i)
      BY <2>3 DEF RunRaises, At
    <2>4. CASE \E returned \in BOOLEAN : AnswerError(i, returned)
      BY <1>5, <2>4 DEF AnswerError, MaySend
    <2> QED BY <2>1, <2>2, <2>3, <2>4
  <1>7. CASE Connects
    <2>1. PICK at \in MaySend : /\ at = "handling" => runs[i].at = "handling"
                                /\ http_stage = "HANDLER" /\ Connect(i, at)
      BY <1>7
    <2> QED BY <1>2, <1>3, <2>1, ConnectAnswered
  <1>8. CASE Raises
    <2>1. PICK stage \in {http_stage, "FAILED"} :
             /\ Escapes(runs, i, stage) /\ UNCHANGED connected
             /\ http_stage = "HANDLER" => stage = "HANDLER" /\ runs[i].at = "handling"
      BY <1>8
    <2> QED BY <1>2, <1>3, <1>4, <2>1, RaisesAnswered
  <1>9. CASE Finds
    BY <1>2, <1>3, <1>9, FoundAnswered
  <1> HIDE DEF Connects, Raises, Finds
  <1> QED BY <1>6, <1>7, <1>8, <1>9

\* What is sent is on the wire, and its end ends it.
LEMMA Written ==
    ASSUME wire \in Seq(Piece), connected \in Nat, NEW i, NEW end \in BOOLEAN, Transmit(i, end),
           protocol = "asgi" /\ http_stage = "IDLE" => wire # <<>> /\ Ended
    PROVE  wire' # <<>> /\ (Ended => Ended') /\ (end => Ended')
  <1>1. CASE protocol = "asgi" /\ http_stage = "IDLE"
    BY <1>1 DEF Transmit, Ended
  <1>2. CASE ~(protocol = "asgi" /\ http_stage = "IDLE")
    <2> DEFINE head == [kind |-> "head", resp |-> connected]
               last == [kind |-> IF end THEN "end" ELSE "data", resp |-> connected]
    <2>1. PICK first \in Seq(Piece) : wire' = wire \o (first \o <<last>>)
      <3>1. <<head>> \in Seq(Piece) /\ <<>> \in Seq(Piece)
        <4>1. head \in Piece
          BY DEF Piece
        <4> QED BY <4>1
      <3>2. \E first \in {<<head>>, <<>>} : Pieces(i, end) = first \o <<last>>
        BY DEF Pieces
      <3> QED BY <1>2, <3>1, <3>2 DEF Transmit
    <2>2. last \in Piece /\ last.kind = (IF end THEN "end" ELSE "data")
      BY DEF Piece
    <2> HIDE DEF last
    <2>3. first \o <<last>> \in Seq(Piece) /\ Len(first \o <<last>>) = Len(first) + 1
          /\ (first \o <<last>>)[Len(first) + 1] = last
      BY <2>2
    <2> DEFINE more == first \o <<last>>
    <2> HIDE DEF more
    <2>4. /\ wire' \in Seq(Piece) /\ Len(wire') = Len(wire) + Len(more)
          /\ \A p \in 1..Len(wire) : wire'[p] = wire[p]
          /\ wire'[Len(wire) + Len(more)] = more[Len(more)]
          /\ Len(more) \in Nat \ {0} /\ more[Len(more)] = last
      <3>1. more \in Seq(Piece) /\ Len(more) \in Nat \ {0} /\ more[Len(more)] = last
        BY <2>3 DEF more
      <3>2. wire' = wire \o more
        BY <2>1 DEF more
      <3>3. wire' \in Seq(Piece) /\ Len(wire') = Len(wire) + Len(more)
        BY <3>1, <3>2
      <3>4. \A p \in 1..Len(wire) : wire'[p] = wire[p]
        BY <3>1, <3>2
      <3>5. wire'[Len(wire) + Len(more)] = more[Len(more)]
        BY <3>1, <3>2
      <3> QED BY <3>1, <3>3, <3>4, <3>5
    <2>5. Ended => Ended'
      BY <2>4 DEF Ended
    <2>6. end => Ended'
      BY <2>2, <2>4 DEF Ended
    <2> QED BY <2>4, <2>5, <2>6
  <1> QED BY <1>1, <1>2

\* send(): a run that was the one on its way has sent, and nobody has to be any more.
LEMMA SendAnswered ==
    ASSUME StreamsInv, AnswerInv, NEW i \in DOMAIN runs, runs[i].at \in MaySend, NEW end \in BOOLEAN,
           Transmit(i, end), http_stage' = IF end THEN "IDLE" ELSE "RESPONSE",
           runs' \in Seq(RunType), Len(runs') = Len(runs),
           \A j \in DOMAIN runs :
              /\ runs'[j].at = runs[j].at \/ (j = i /\ end /\ runs'[j].at = "over")
              /\ runs'[j].level = runs[j].level /\ runs'[j].resp = runs[j].resp
              /\ ~head_only => runs'[j].cancel \in {runs[j].cancel, "no"},
           UNCHANGED <<protocol, connected, head_only>>
    PROVE  AnswerInv'
  <1>1. runs \in Seq(RunType) /\ wire \in Seq(Piece) /\ connected \in Nat
    BY DEF StreamsInv, StreamsTyped
  <1>2. DOMAIN runs' = DOMAIN runs /\ runs' # <<>>
    BY <1>1
  <1>3. protocol = "asgi" => i = 1
    BY <1>1 DEF StreamsInv, OnAsgi
  <1>4. protocol = "asgi" /\ http_stage = "IDLE" => wire # <<>> /\ Ended
    <2>1. wire = <<>> => http_stage = "HANDLER"
      BY <1>1, StageOfHandler
    <2> QED BY <1>3, <2>1 DEF AnswerInv, OneRun, MaySend
  <1>5. wire' # <<>> /\ (Ended => Ended') /\ (end => Ended')
    BY <1>1, <1>4, Written
  <1>6. Silent' /\ Begun'
    BY <1>2, <1>5 DEF Silent, Begun
  <1>7. Whose'
    BY <1>2, <1>5 DEF AnswerInv, Whose, Settled
  <1>8. OneRun'
    BY <1>3, <1>5 DEF AnswerInv, OneRun
  <1> QED BY <1>6, <1>7, <1>8 DEF AnswerInv

\* send(), by a handler, for what it returned, or by an error handler.
LEMMA SendingAnswered ==
    ASSUME StreamsInv, AnswerInv, NEW i \in DOMAIN runs,
           (\E end \in BOOLEAN : SendPiece(i, end)) \/ AnswerRun(i)
    PROVE  AnswerInv'
  <1>1. runs \in Seq(RunType)
    BY DEF StreamsInv, StreamsTyped
  <1>2. UNCHANGED <<protocol, connected, head_only>> /\ runs[i].at \in MaySend
    BY DEF SendPiece, AnswerRun, At, MaySend
  <1>3. HeadRun(i) \in Seq(RunType) /\ Len(HeadRun(i)) = Len(runs)
    BY <1>1, CancelTyped DEF HeadRun
  <1>4. \A j \in DOMAIN runs :
            /\ HeadRun(i)[j].at = runs[j].at /\ HeadRun(i)[j].level = runs[j].level
            /\ HeadRun(i)[j].resp = runs[j].resp
            /\ ~head_only => HeadRun(i)[j].cancel = runs[j].cancel
    BY <1>1, CancelMarks DEF HeadRun
  <1>5. wire = <<>> => http_stage = "HANDLER" /\ (runs[i].at = "handling" => runs[i].level = 0)
    BY <1>1, <1>2, StageOfHandler
  <1>6. ASSUME NEW end \in BOOLEAN, SendPiece(i, end) PROVE AnswerInv'
    <2>1. CASE Sends(i, end)
      <3>1. Transmit(i, end) /\ http_stage' = (IF end THEN "IDLE" ELSE "RESPONSE") /\ runs' = HeadRun(i)
        BY <1>6, <2>1 DEF SendPiece
      <3> QED BY <1>2, <1>3, <1>4, <3>1, SendAnswered
    <2>2. CASE ~Sends(i, end)
      <3>1. runs[i].at = "handling" /\ Escapes(runs, i, http_stage) /\ UNCHANGED wire
        BY <1>6, <2>2 DEF SendPiece
      <3> QED BY <1>2, <1>5, <3>1, RaisesAnswered
    <2> QED BY <2>1, <2>2
  <1>7. CASE AnswerRun(i) /\ Sends(i, TRUE)
    <2> DEFINE new == [HeadRun(i)[i] EXCEPT !.at = "over", !.cancel = "no"]
    <2>1. Transmit(i, TRUE) /\ http_stage' = "IDLE" /\ runs' = [HeadRun(i) EXCEPT ![i] = new]
      BY <1>7 DEF AnswerRun
    <2>2. HeadRun(i)[i] \in RunType /\ i \in DOMAIN HeadRun(i)
      BY <1>3, <1>1
    <2>3. /\ new \in RunType /\ new.at = "over" /\ new.cancel = "no"
          /\ new.level = runs[i].level /\ new.resp = runs[i].resp
      BY <1>4, <2>2 DEF RunType, Places, Over
    <2> HIDE DEF new
    <2>4. /\ runs' \in Seq(RunType) /\ Len(runs') = Len(runs) /\ runs'[i] = new
          /\ \A j \in DOMAIN runs \ {i} : runs'[j] = HeadRun(i)[j]
      BY <1>1, <1>3, <2>1, <2>2, <2>3
    <2>5. \A j \in DOMAIN runs :
              /\ runs'[j].at = runs[j].at \/ (j = i /\ runs'[j].at = "over")
              /\ runs'[j].level = runs[j].level /\ runs'[j].resp = runs[j].resp
              /\ ~head_only => runs'[j].cancel \in {runs[j].cancel, "no"}
      BY <1>4, <2>3, <2>4
    <2> QED BY <1>2, <2>1, <2>4, <2>5, SendAnswered
  <1>8. CASE AnswerRun(i) /\ ~Sends(i, TRUE)
    <2>1. Escapes(runs, i, http_stage) /\ UNCHANGED wire /\ runs[i].at = "answering"
      BY <1>8 DEF AnswerRun, At
    <2>2. ASSUME wire = <<>> PROVE \E j \in DOMAIN runs \ {i} : Prompt(runs[j], connected)
      <3>1. protocol \in {"http3", "asgi"} /\ (protocol = "http3" => ~headers_sent)
        BY <1>1, <2>2 DEF StreamsInv, StreamsTyped, Unmade, OnHttp3
      <3>2. runs[i].resp # connected
        BY <1>5, <1>8, <2>2, <3>1 DEF Sends, ReadyHttp3, ReadyAsgi
      <3>3. PICK j \in DOMAIN runs : Prompt(runs[j], connected)
        BY <1>1, <2>2 DEF AnswerInv, Silent
      <3> QED BY <2>1, <3>2, <3>3 DEF Prompt
    <2> QED BY <1>2, <1>5, <2>1, <2>2, RaisesAnswered
  <1> QED BY <1>6, <1>7, <1>8

\* The response of an error that is cancelled on its way is sent, or something was: over
\* ASGI nobody cancels.
LEMMA CancelAnsweredAnswered ==
    ASSUME StreamsInv, AnswerInv, NEW i \in DOMAIN runs, CancelAnswered(i)
    PROVE  AnswerInv'
  <1>1. runs \in Seq(RunType) /\ runs[i] \in RunType /\ wire \in Seq(Piece) /\ connected \in Nat
    BY DEF StreamsInv, StreamsTyped
  <1>2. /\ runs[i].at = "answering" /\ runs[i].at \in MaySend /\ runs[i].cancel # "no"
        /\ UNCHANGED <<protocol, head_only>>
    BY DEF CancelAnswered, MaySend
  <1>3. runs[i].resp \in Nat \ {0}
    BY <1>1, <1>2 DEF RunType, AnswerInv, Whose, Settled
  <1>4. protocol = "http3"
    <2>1. protocol # "asgi"
      BY <1>1, <1>2 DEF StreamsInv, OnAsgi, AnswerInv, OneRun
    <2>2. runs # <<>>
      BY <1>1
    <2> QED BY <2>1, <2>2 DEF StreamsInv, StreamsTyped, Unmade
  <1>5. wire = <<>> => http_stage = "HANDLER" /\ ~headers_sent
    BY <1>1, <1>2, <1>4, StageOfHandler DEF StreamsInv, OnHttp3
  <1> DEFINE calm == [runs[i] EXCEPT !.cancel = "no"]
             new  == [runs[i] EXCEPT !.at = "cancelled", !.cancel = "no"]
  <1>6. /\ calm \in RunType /\ calm.level = runs[i].level /\ calm.resp = runs[i].resp /\ calm.cancel = "no"
        /\ new \in RunType /\ new.at = "cancelled"
    BY <1>1 DEF RunType, Places, Over
  <1>7. [runs EXCEPT ![i].cancel = "no"] = [runs EXCEPT ![i] = calm]
    OBVIOUS
  <1> HIDE DEF calm, new
  <1>8. CASE http_stage # "HANDLER"
    <2>1. Escapes([runs EXCEPT ![i] = calm], i, "FAILED") /\ UNCHANGED <<connected, wire>>
      BY <1>7, <1>8 DEF CancelAnswered
    <2> QED BY <1>2, <1>5, <1>6, <1>8, <2>1, EscapesAnswered
  <1>9. CASE http_stage = "HANDLER" /\ headers_sent
    <2>1. Escapes([runs EXCEPT ![i] = calm], i, http_stage) /\ connected' = runs[i].resp /\ UNCHANGED wire
      BY <1>7, <1>9 DEF CancelAnswered
    <2> QED BY <1>2, <1>3, <1>5, <1>6, <1>9, <2>1, EscapesAnswered
  <1>10. CASE http_stage = "HANDLER" /\ ~headers_sent
    <2>1. /\ runs' = [runs EXCEPT ![i] = new] /\ connected' = runs[i].resp
          /\ wire' = wire \o <<[kind |-> "head", resp |-> connected'], [kind |-> "end", resp |-> connected']>>
      BY <1>10 DEF CancelAnswered, new
    <2>2. wire = <<>>
      BY <1>4, <1>10 DEF StreamsInv, OnHttp3
    <2>3. wire' # <<>> /\ Ended'
      <3>1. [kind |-> "head", resp |-> connected'] \in Piece /\ [kind |-> "end", resp |-> connected'] \in Piece
        BY <1>3, <2>1 DEF Piece
      <3>2. wire' = <<[kind |-> "head", resp |-> connected'], [kind |-> "end", resp |-> connected']>>
        BY <2>1, <2>2, <3>1, ConcatEmptySeq
      <3> QED BY <3>2 DEF Ended
    <2>4. /\ DOMAIN runs' = DOMAIN runs /\ runs'[i] = new /\ runs' # <<>>
          /\ \A j \in DOMAIN runs \ {i} : runs'[j] = runs[j]
      BY <1>1, <1>6, <2>1
    <2>5. Silent' /\ Begun' /\ OneRun'
      BY <1>2, <1>4, <2>3, <2>4 DEF Silent, Begun, OneRun
    <2>6. Whose'
      <3> SUFFICES ASSUME NEW j \in DOMAIN runs PROVE Settled(runs'[j], connected')
        BY <2>3, <2>4 DEF Whose
      <3> QED BY <1>3, <1>6, <2>1, <2>4 DEF AnswerInv, Whose, Settled
    <2> QED BY <2>5, <2>6 DEF AnswerInv
  <1> QED BY <1>8, <1>9, <1>10

\* Somebody is on its way after every step, or something was sent.
LEMMA AnswerKept == StreamsInv /\ AnswerInv /\ [StreamsNext]_stream_vars => AnswerInv'
  <1> SUFFICES ASSUME StreamsInv, AnswerInv, [StreamsNext]_stream_vars PROVE AnswerInv'
    OBVIOUS
  <1>1. ASSUME NEW ok \in BOOLEAN, Create(ok) PROVE AnswerInv'
    <2>1. head_only' = FALSE
      BY <1>1 DEF Create, Made, AnswerInv, OneRun
    <2> QED BY <1>1, <2>1, MadeAnswered DEF Create
  <1>2. ASSUME NEW ok \in BOOLEAN, NEW is_head \in BOOLEAN, HeadersReceived(ok, is_head) PROVE AnswerInv'
    <2>1. head_only' = FALSE \/ protocol' = "http3"
      BY <1>2 DEF HeadersReceived, Made
    <2> QED BY <1>2, <2>1, MadeAnswered DEF HeadersReceived
  <1>3. CASE DataReceived
    BY <1>3, DataAnswered
  <1>4. ASSUME NEW i \in DOMAIN runs, NEW more \in BOOLEAN, ReadMessage(i, more) PROVE AnswerInv'
    BY <1>4, ReadAnswered
  <1>5. ASSUME NEW i \in DOMAIN runs, StartRun(i) \/ HandleException(i) \/ CancelEnds(i) \/ CancelCaught(i)
        PROVE  AnswerInv'
    BY <1>5, MovesAnswered
  <1>6. ASSUME NEW i \in DOMAIN runs,
               RespondFirst(i) \/ Return(i) \/ RunRaises(i) \/ \E returned \in BOOLEAN : AnswerError(i, returned)
        PROVE  AnswerInv'
    BY <1>6, RespondAnswered
  <1>7. ASSUME NEW i \in DOMAIN runs, (\E end \in BOOLEAN : SendPiece(i, end)) \/ AnswerRun(i)
        PROVE  AnswerInv'
    BY <1>7, SendingAnswered
  <1>8. ASSUME NEW i \in DOMAIN runs, CancelAnswered(i) PROVE AnswerInv'
    BY <1>8, CancelAnsweredAnswered
  <1>9. CASE UNCHANGED stream_vars
    BY <1>9 DEF stream_vars, AnswerInv, Silent, Whose, OneRun, Begun, Ended
  <1> QED BY <1>1, <1>2, <1>3, <1>4, <1>5, <1>6, <1>7, <1>8, <1>9 DEF StreamsNext

\* A request is answered: when every run of it is over something was sent, although a body
\* that is too large cancels who was about to answer, responses replace one another and
\* error handlers raise; and a run that came to answer has sent an end, or found one.
\* (Http3.http_event_received; HTTPReceiver.run and error_response; ASGIApp.__call__)
THEOREM AlwaysAnswered == StreamsSpec => []AnsweredAtEnd
  <1>1. StreamsInit => AnswerInv
    BY DEF StreamsInit, AnswerInv, Silent, Whose, OneRun, Begun
  <1>2. StreamsInv /\ AnswerInv => AnsweredAtEnd
    <2> SUFFICES ASSUME StreamsInv, AnswerInv, runs # <<>>, \A i \in DOMAIN runs : runs[i].at \in Over
                 PROVE  wire # <<>>
      BY DEF AnsweredAtEnd, AnswerInv, Whose
    <2> QED BY DEF AnswerInv, Silent, Prompt
  <1> QED BY <1>1, <1>2, StreamsBegin, StreamsKept, AnswerKept, PTL DEF StreamsSpec
=================================================================================
