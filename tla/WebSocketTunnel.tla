--------------------------- MODULE WebSocketTunnel ---------------------------
(***************************************************************************)
(* WebSocketTunnel: a worker thread that accepts one loopback connection   *)
(* at a time, opens the remote one through libcurl, and relays bytes both  *)
(* ways until a side closes or the tunnel is destroyed.                    *)
(*                                                                         *)
(* Each direction counts where its bytes are: `wire' in the socket the     *)
(* worker reads from, `held' already inside libcurl, `pending' in          *)
(* PendingBytes, `buffer' in the receiver's socket, and `got' taken by the *)
(* receiver.  The sizes of the code are scaled down, but not to one: a     *)
(* read brings several bytes after one test of the room.                   *)
(***************************************************************************)
EXTENDS Integers, FiniteSets

CONSTANTS
    MaxPending,  \* max_pending_bytes
    Chunk,       \* relay_chunk_bytes, the most one read brings
    Buffer,      \* what a receiver's socket holds
    Record,      \* the most libcurl takes from the socket at once
    Budgets      \* [bytes, connections, faults]

VARIABLES
    pc,          \* where the worker is
    up, down,    \* the two directions, client to upstream and back
    closed,      \* the sides that have closed their socket
    eof,         \* client_eof and upstream_eof, as sets of sides
    backlog,     \* loopback connections waiting to be accepted
    stopping,    \* stopping_, and the byte in the wake pipe
    owner,       \* ~WebSocketTunnel: "alive", "joining" or "gone"
    failed,      \* history: a send or a read of this connection failed
    budget

vars == <<pc, up, down, closed, eof, backlog, stopping, owner, failed, budget>>

Empty == [wire |-> 0, held |-> 0, pending |-> 0, buffer |-> 0, got |-> 0, sent |-> 0]

(* The constructor: the pipe, the listener, the worker. *)
InitState ==
    /\ pc = "accept" /\ up = Empty /\ down = Empty /\ closed = {} /\ eof = {} /\ backlog = 0
    /\ stopping = FALSE /\ owner = "alive" /\ failed = FALSE
Init == InitState /\ budget \in Budgets

Spend(kind) == budget[kind] > 0 /\ budget' = [budget EXCEPT ![kind] = @ - 1]
Lesser(a, b) == IF a < b THEN a ELSE b
HasRoom(d) == d.pending < MaxPending
Relaying == pc \in {"readClient", "readUpstream", "sendClient", "sendUpstream", "poll"}

-----------------------------------------------------------------------------
(* The two sides (external). *)
Dial ==
    /\ owner = "alive" /\ backlog = 0 /\ Spend("connections") /\ backlog' = 1
    /\ UNCHANGED <<pc, up, down, closed, eof, stopping, owner, failed>>
ClientWrites ==
    /\ Relaying /\ "client" \notin closed /\ Spend("bytes")
    /\ up' = [up EXCEPT !.wire = @ + 1, !.sent = @ + 1]
    /\ UNCHANGED <<pc, down, closed, eof, backlog, stopping, owner, failed>>
UpstreamWrites ==
    /\ Relaying /\ "upstream" \notin closed /\ Spend("bytes")
    /\ down' = [down EXCEPT !.wire = @ + 1, !.sent = @ + 1]
    /\ UNCHANGED <<pc, up, closed, eof, backlog, stopping, owner, failed>>
Drains(d) == [d EXCEPT !.got = @ + d.buffer, !.buffer = 0]
PeersRead ==
    /\ \/ up.buffer > 0 /\ up' = Drains(up) /\ UNCHANGED down
       \/ down.buffer > 0 /\ down' = Drains(down) /\ UNCHANGED up
    /\ UNCHANGED <<pc, closed, eof, backlog, stopping, owner, failed, budget>>
Closes(side) ==
    /\ Relaying /\ side \notin closed /\ Spend("faults") /\ closed' = closed \cup {side}
    /\ UNCHANGED <<pc, up, down, eof, backlog, stopping, owner, failed>>

-----------------------------------------------------------------------------
(* run(): the wake pipe goes before a connection. *)
Accept ==
    /\ pc = "accept" /\ (stopping \/ backlog > 0)
    /\ IF stopping THEN pc' = "done" /\ UNCHANGED backlog ELSE pc' = "open" /\ backlog' = 0
    /\ UNCHANGED <<up, down, closed, eof, stopping, owner, failed, budget>>

(* open_upstream, and serve() around it: connected, failed, or aborted by the progress
   callback. *)
OpenUpstream ==
    /\ pc = "open" /\ up' = Empty /\ down' = Empty /\ closed' = {} /\ eof' = {} /\ failed' = FALSE
    /\ \/ ~stopping /\ pc' = "readClient" /\ UNCHANGED budget
       \/ ~stopping /\ Spend("faults") /\ pc' = "accept"
       \/ stopping /\ pc' = "accept" /\ UNCHANGED budget
    /\ UNCHANGED <<backlog, stopping, owner>>

(* recv of the client until there is nothing left, no room, or the end; it brings up to a
   chunk, whatever room the test has found.  An error ends the connection. *)
ReadClient ==
    /\ pc = "readClient"
    /\ \/ ("client" \in eof \/ ~HasRoom(up)) /\ pc' = "readUpstream" /\ UNCHANGED <<up, eof, failed, budget>>
       \/ /\ "client" \notin eof /\ HasRoom(up)
          /\ \/ /\ \E n \in 1..Lesser(Chunk, up.wire) :
                      up' = [up EXCEPT !.wire = @ - n, !.pending = @ + n]
                /\ UNCHANGED <<pc, eof, failed, budget>>
             \/ /\ up.wire = 0
                /\ IF "client" \in closed THEN eof' = eof \cup {"client"} /\ UNCHANGED pc
                   ELSE pc' = "readUpstream" /\ UNCHANGED eof
                /\ UNCHANGED <<up, failed, budget>>
             \/ Spend("faults") /\ failed' = TRUE /\ pc' = "accept" /\ UNCHANGED <<up, eof>>
    /\ UNCHANGED <<down, closed, backlog, stopping, owner>>

(* What curl_easy_recv leaves: it takes a whole record off the socket and returns up to a
   chunk of what it holds. *)
CurlRecv(d) ==
    LET r == Lesser(d.wire, Record)
    IN  IF d.held > 0
        THEN {[d EXCEPT !.held = @ - n, !.pending = @ + n] : n \in 1..Lesser(Chunk, d.held)}
        ELSE {[d EXCEPT !.wire = @ - r, !.held = r - n, !.pending = @ + n] : n \in 1..Lesser(Chunk, r)}

ReadUpstream ==
    /\ pc = "readUpstream"
    /\ \/ ("upstream" \in eof \/ ~HasRoom(down)) /\ pc' = "sendClient" /\ UNCHANGED <<down, eof, failed, budget>>
       \/ /\ "upstream" \notin eof /\ HasRoom(down)
          /\ \/ down' \in CurlRecv(down) /\ UNCHANGED <<pc, eof, failed, budget>>
             \/ /\ down.held + down.wire = 0
                /\ IF "upstream" \in closed THEN eof' = eof \cup {"upstream"} /\ UNCHANGED pc
                   ELSE pc' = "sendClient" /\ UNCHANGED eof
                /\ UNCHANGED <<down, failed, budget>>
             \/ /\ Spend("faults") /\ failed' = TRUE /\ eof' = eof \cup {"upstream"}
                /\ UNCHANGED <<pc, down>>
    /\ UNCHANGED <<up, closed, backlog, stopping, owner>>

Push(d) == LET n == Lesser(d.pending, Buffer - d.buffer)
           IN [d EXCEPT !.pending = @ - n, !.buffer = @ + n]

(* send to the client; a client that has gone is an error. *)
SendClient ==
    /\ pc = "sendClient"
    /\ IF "client" \in eof \/ down.pending = 0 \/ down.buffer = Buffer
       THEN pc' = "sendUpstream" /\ UNCHANGED <<down, failed>>
       ELSE IF "client" \in closed THEN pc' = "accept" /\ failed' = TRUE /\ UNCHANGED down
       ELSE down' = Push(down) /\ UNCHANGED <<pc, failed>>
    /\ UNCHANGED <<up, closed, eof, backlog, stopping, owner, budget>>

(* Mutant: the connection ends as soon as either side has. *)
OverEarly == eof # {}

(* Close both legs once either side has closed and its last bytes were delivered. *)
Over ==
    \/ "upstream" \in eof /\ down.pending = 0
    \/ "client" \in eof /\ up.pending = 0
    \/ eof = {"client", "upstream"}

(* curl_easy_send, then the decision to close. *)
SendUpstream ==
    /\ pc = "sendUpstream"
    /\ IF "upstream" \in eof \/ up.pending = 0 \/ up.buffer = Buffer
       THEN pc' = (IF Over THEN "accept" ELSE "poll") /\ UNCHANGED <<up, failed>>
       ELSE IF "upstream" \in closed THEN pc' = "accept" /\ failed' = TRUE /\ UNCHANGED up
       ELSE up' = Push(up) /\ UNCHANGED <<pc, failed>>
    /\ UNCHANGED <<down, closed, eof, backlog, stopping, owner, budget>>

(* What poll() waits for. *)
Ready ==
    \/ stopping
    \/ "client" \notin eof /\ HasRoom(up) /\ (up.wire > 0 \/ "client" \in closed)
    \/ "client" \notin eof /\ down.pending > 0 /\ (down.buffer < Buffer \/ "client" \in closed)
    \/ "upstream" \notin eof /\ HasRoom(down) /\ (down.wire > 0 \/ "upstream" \in closed)
    \/ "upstream" \notin eof /\ up.pending > 0 /\ (up.buffer < Buffer \/ "upstream" \in closed)

Poll ==
    /\ pc = "poll" /\ Ready /\ pc' = (IF stopping THEN "accept" ELSE "readClient")
    /\ UNCHANGED <<up, down, closed, eof, backlog, stopping, owner, failed, budget>>

(* Mutant: the worker is not woken. *)
DestroyUnwoken ==
    /\ \/ owner = "alive" /\ owner' = "joining" /\ UNCHANGED stopping
       \/ owner = "joining" /\ pc = "done" /\ owner' = "gone" /\ UNCHANGED stopping
    /\ UNCHANGED <<pc, up, down, closed, eof, backlog, failed, budget>>

(* ~WebSocketTunnel: the flag and the wake pipe, then the join. *)
Destroy ==
    /\ \/ owner = "alive" /\ owner' = "joining" /\ stopping' = TRUE
       \/ owner = "joining" /\ pc = "done" /\ owner' = "gone" /\ UNCHANGED stopping
    /\ UNCHANGED <<pc, up, down, closed, eof, backlog, failed, budget>>

Worker ==
    \/ Accept \/ OpenUpstream \/ ReadClient \/ ReadUpstream \/ SendClient \/ SendUpstream \/ Poll

Next ==
    \/ Worker \/ Destroy
    \/ Dial \/ ClientWrites \/ UpstreamWrites \/ PeersRead \/ Closes("client") \/ Closes("upstream")

(* The worker and the destructor run, and a peer reads what has arrived. *)
Fairness == WF_vars(Worker) /\ WF_vars(owner = "joining" /\ Destroy) /\ WF_vars(PeersRead)
Spec == Init /\ [][Next]_vars /\ Fairness

-----------------------------------------------------------------------------
(* PendingBytes holds less than max_pending_bytes and a chunk, which a read may bring when
   there is room for one byte; no byte is lost or made up on the way; and a connection that
   ends because a side closed, with no error and no stop, has handed on everything that
   side wrote. *)
TunnelKeepsBytes ==
    /\ up.pending < MaxPending + Chunk /\ down.pending < MaxPending + Chunk
    /\ up.sent = up.wire + up.held + up.pending + up.buffer + up.got
    /\ down.sent = down.wire + down.held + down.pending + down.buffer + down.got
    /\ pc = "accept" /\ ~stopping /\ ~failed =>
         \/ eof = {"upstream"} /\ down.pending = 0 /\ down.held = 0 /\ down.wire = 0
         \/ eof = {"client"} /\ up.pending = 0 /\ up.wire = 0
         \/ eof = {"client", "upstream"} \/ (up = Empty /\ down = Empty)

(* What a client wrote is on its way. *)
Carrying == Relaying /\ up.wire + up.pending > 0
=============================================================================
