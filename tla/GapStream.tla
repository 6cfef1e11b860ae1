------------------------------ MODULE GapStream ------------------------------
(***************************************************************************)
(* What WebSocketClient promises to the stream runtimes built on it.       *)
(* WebSocketClient.tla is checked to implement it; UserStream,             *)
(* OrderbookManager, PublicStream and JsonRpcWs are composed with it.      *)
(*                                                                         *)
(* The IXWebSocket thread walks through the phases of `link'.  A gap draws *)
(* a new generation and then reports it to the runtime; the thread that    *)
(* drew it reports it, so two reports may arrive in the opposite order.    *)
(***************************************************************************)
EXTENDS Naturals

VARIABLES
    link,      \* "off", or the phase the connection is in
    gen,       \* stream_generation_
    reports,   \* gaps drawn by a thread that is not done with them yet
    pending,   \* resnapshot_pending_
    closing    \* the connection has ended; its close event is to come

gapVars == <<link, gen, reports, pending, closing>>

Phases == {"off", "dial", "opened", "restore", "replay", "connect", "up", "lost",
           "closed", "failed"}
(* state_ is CONNECTED, which is_connected() tests. *)
Connected == link \in {"restore", "replay", "connect", "up", "lost"}
(* own: drawn by the IXWebSocket thread in handle_open, handle_close or handle_error,
   which goes on when the callback returns; otherwise drawn by request_resnapshot.
   told: the stream_gap callback has returned. *)
Reports == [gen : Nat, own : BOOLEAN, told : BOOLEAN]
OwnReported == \A r \in reports : ~r.own

GapInit == link = "off" /\ gen = 0 /\ reports = {}
           /\ pending = FALSE /\ closing = FALSE

(* mark_stream_gap draws the next generation ... *)
Draw(own) ==
    /\ gen' = gen + 1
    /\ reports' = reports \cup {[gen |-> gen + 1, own |-> own, told |-> FALSE]}

(* ... and runs the stream_gap callback for it, unless a stop came first. *)
Report(r) ==
    /\ r \in reports /\ ~r.told
    /\ reports' = (reports \ {r}) \cup (IF r.own THEN {} ELSE {[r EXCEPT !.told = TRUE]})
    /\ UNCHANGED <<link, gen, pending, closing>>
Abandon(r) ==
    /\ link = "off" /\ r \in reports
    /\ reports' = reports \ {r}
    /\ UNCHANGED <<link, gen, pending, closing>>

(* request_resnapshot: the thread that wins resnapshot_pending_ draws a gap.  The
   runtimes see both at once, WebSocketClient takes two steps ... *)
Ask ==
    /\ pending' = TRUE
    /\ UNCHANGED <<link, gen, reports, closing>>
DrawRequest ==
    /\ Draw(FALSE)
    /\ UNCHANGED <<link, pending, closing>>
Request ==
    /\ IF pending \/ link = "off" THEN UNCHANGED <<gen, reports, pending>>
       ELSE Draw(FALSE) /\ pending' = TRUE
    /\ UNCHANGED <<link, closing>>
(* ... and closes the socket when the report is over. *)
CloseSocket(r) ==
    /\ r \in reports /\ r.told
    /\ reports' = reports \ {r}
    /\ \/ closing' = (closing \/ link \in {"opened", "restore", "replay", "connect", "up"})
       \/ link = "dial" /\ closing' = TRUE   \* open, and about to call handle_open
    /\ UNCHANGED <<link, gen, pending>>

(* connect(), which starts the transport of a client that has none. *)
Start ==
    /\ IF link = "off" THEN link' = "dial" /\ pending' = FALSE /\ closing' = FALSE
       ELSE UNCHANGED <<link, pending, closing>>
    /\ UNCHANGED <<gen, reports>>
(* disconnect() and stop() tear it down. *)
Stop ==
    /\ link' = "off" /\ pending' = FALSE /\ closing' = FALSE
    /\ reports' \in {reports, {}}
    /\ UNCHANGED gen

-----------------------------------------------------------------------------
(* handle_open draws a gap of its own ... *)
Open ==
    /\ link = "dial" /\ OwnReported
    /\ Draw(TRUE)
    /\ link' = "opened"
    /\ UNCHANGED <<pending, closing>>
(* ... publishes CONNECTED once it is reported ... *)
Publish ==
    /\ link = "opened" /\ OwnReported
    /\ link' = "restore" /\ pending' = FALSE
    /\ UNCHANGED <<gen, reports, closing>>
(* ... restore_subscriptions copies the tracked messages under its lock ... *)
CopySubscriptions ==
    /\ link = "restore"
    /\ link' = "replay"
    /\ UNCHANGED <<gen, reports, pending, closing>>
(* ... and sends them without it; a failed send requests a new connection ... *)
Replay ==
    /\ link \in {"restore", "replay"}
    /\ link' = "connect"
    /\ UNCHANGED <<gen, reports, pending, closing>>
ReplayFails ==
    /\ link \in {"restore", "replay"}
    /\ link' = "up"
    /\ \/ UNCHANGED <<gen, reports, pending>>
       \/ ~pending /\ pending' = TRUE /\ Draw(TRUE)
    /\ UNCHANGED closing
(* ... and the connect callback ends it. *)
OnConnect ==
    /\ link = "connect"
    /\ link' = "up"
    /\ UNCHANGED <<gen, reports, pending, closing>>

(* External: the peer or the network ends the connection. *)
PeerCloses ==
    /\ link \in {"opened", "restore", "replay", "connect", "up"}
    /\ closing' = TRUE
    /\ UNCHANGED <<link, gen, reports, pending>>
(* handle_close reports a gap before the connection is given up ... *)
Drop ==
    /\ link = "up" /\ closing /\ OwnReported
    /\ Draw(TRUE)
    /\ link' = "lost" /\ closing' = FALSE
    /\ UNCHANGED pending
Lost ==
    /\ link = "lost" /\ OwnReported
    /\ link' = "closed"
    /\ UNCHANGED <<gen, reports, pending, closing>>
(* ... the close callback returns and the next attempt begins. *)
Closed ==
    /\ link = "closed"
    /\ link' = "dial"
    /\ UNCHANGED <<gen, reports, pending, closing>>

(* handle_error: an attempt has failed; the next one begins, or it was the last. *)
DialFails ==
    /\ link = "dial" /\ ~closing /\ OwnReported
    /\ Draw(TRUE)
    /\ link' = "failed"
    /\ UNCHANGED <<pending, closing>>
Failed ==
    /\ link = "failed" /\ OwnReported
    /\ link' = "dial"
    /\ UNCHANGED <<gen, reports, pending, closing>>

-----------------------------------------------------------------------------
GapNext ==
    \/ Start \/ Stop \/ Ask \/ DrawRequest \/ Request
    \/ \E r \in reports : Report(r) \/ Abandon(r) \/ CloseSocket(r)
    \/ Open \/ Publish \/ CopySubscriptions \/ Replay \/ ReplayFails \/ OnConnect
    \/ PeerCloses \/ Drop \/ Lost \/ Closed \/ DialFails \/ Failed

GapSpec == GapInit /\ [][GapNext]_gapVars
=============================================================================
