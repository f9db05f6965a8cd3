----------------------------- MODULE MCWebsocket -----------------------------
(* Small instances of the two halves of a websocket, checked side by side: *)
(* a behaviour is one of FrameAssembler, or one of WebsocketClosing.  They *)
(* share no variable; the half that is not checked stays in its last state.*)
EXTENDS FrameAssembler, WebsocketClosing

\* handlers that end when they are cancelled, or may catch that and go on
Ends     == {"ended"}
MayCatch == {"ended", "idle"}

AssemblerOff ==
    /\ sent = <<>> /\ read = <<>> /\ state = "CLOSED" /\ events = <<>>
    /\ reading = TRUE /\ can_pause = TRUE
    /\ chunks = <<>> /\ streaming = FALSE /\ sentinel = FALSE
    /\ message_complete = FALSE /\ message_fetched = FALSE
    /\ get_in_progress = FALSE /\ paused = FALSE /\ putting = FALSE
    /\ get = NoGet /\ handler = "ended" /\ recv_cancel = "none"
    /\ messages = <<>> /\ failsafe = FALSE

ClosingOff ==
    /\ proto = "CLOSED" /\ link = "lost" /\ blocked = FALSE /\ listening = FALSE
    /\ at = [u \in Users |-> "end"] /\ cancelled = FALSE
    /\ auto = "done" /\ data_fut = "result" /\ aborting = FALSE /\ packets = <<>>
    /\ peer_closed = TRUE /\ pings = <<>> /\ waiter = [p \in Pingers |-> "none"]
    /\ pinged = 0 /\ got = 0 /\ closes = 0 /\ stopping = "forced"

HalvesInit == (Init /\ ClosingOff) \/ (AssemblerOff /\ ClosingInit)

HalvesNext == (Next /\ UNCHANGED closing_vars) \/ (ClosingNext /\ UNCHANGED vars)

HalvesSpec ==
    /\ HalvesInit /\ [][HalvesNext]_<<vars, closing_vars>>
    /\ AssemblerFairness /\ ClosingFairness

\* Every variable of either half keeps its type.
HalvesTypeOK == TypeOK /\ ClosingTypeOK
==============================================================================
