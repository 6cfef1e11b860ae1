------------------------- MODULE MCWebSocketClient -------------------------
(* WebSocketClient for TLC: one user thread beside the library's threads.  *)
EXTENDS WebSocketClient

CONSTANT c1

(* Two kinds of history, each within its part of the bounds: connects, stops, a failed
   dial, a dropped connection and bursts; and one connection with one of the other causes
   of a resnapshot (a request, a throwing callback, the idle check) and either a burst that
   overflows the queue or a drop. *)
Spent(kind, connects, stops, requests, messages, drops, failures, throws, idles) ==
    [kind |-> kind, connects |-> connects, stops |-> stops, requests |-> requests,
     messages |-> messages, drops |-> drops, failures |-> failures, throws |-> throws,
     idles |-> idles]
MCInit ==
    /\ InitState
    /\ \/ budget = Spent("calls", 0, 0, MaxRequests, 0, 0, 0, MaxThrows, MaxIdles)
       \/ \E causes \in {<<MaxRequests, 0, 0>>, <<0, MaxThrows, 0>>, <<0, 0, MaxIdles>>} :
          \E ends \in {<<MaxMessages - 3, MaxDrops>>, <<MaxMessages - 2, 0>>} :
            budget = Spent("resnapshots", MaxConnects - 1, MaxStops, causes[1],
                           ends[1], ends[2], MaxFailures, causes[2], causes[3])
MCSpec == MCInit /\ [][Next]_vars

(* Without requested resnapshots all gaps but those of overflows are marked by the IX
   thread, and no message is delivered after a hole, across calls, failures and bursts;
   when two threads mark gaps at once this fails (ws_gap_overlap). *)
InOrderAcrossCalls == budget.kind = "calls" => InOrder
=============================================================================
