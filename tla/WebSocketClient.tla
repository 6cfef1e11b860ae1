--------------------------- MODULE WebSocketClient ---------------------------
(***************************************************************************)
(* WebSocketClientState of polymarket-cpp-client: connection lifecycle,    *)
(* bounded message queue, stream generations, resnapshot and teardown,     *)
(* with the EvmTransportEpoch filter as the consumer of the stream.        *)
(*                                                                         *)
(* Threads: user threads (Callers), the IXWebSocket thread ("ix"), the     *)
(* message worker ("worker") and the detached transport worker             *)
(* ("teardown").  A step is one atomic access or one critical section.     *)
(* pc[t] is the stack of what thread t still has to do; its head is next.  *)
(* IXWebSocket and the server are external.                                *)
(***************************************************************************)
EXTENDS Integers, Sequences, FiniteSets

CONSTANTS
    Callers,           \* user threads that call connect, disconnect, request_resnapshot
    QueueLimit,        \* options.message_queue_limit
    ReconnectEnabled,  \* options.reconnect_enabled
    MaxAttempts,       \* options.max_reconnect_attempts, 0 for no limit
    CallerStops,       \* do user threads call disconnect / stop?
    ConnectsWhenActive, \* do user threads call connect on a client that is not DISCONNECTED?
    CallbackStops,     \* do user callbacks call disconnect / stop?
    MaxConnects, MaxStops, MaxRequests,             \* bounds: calls of the user
    MaxMessages, MaxDrops, MaxFailures, MaxThrows, MaxIdles  \* bounds: events

ASSUME OptionsAssumption ==
    /\ QueueLimit \in Nat \ {0} /\ MaxAttempts \in Nat
    /\ {ReconnectEnabled, CallerStops, CallbackStops, ConnectsWhenActive} \subseteq BOOLEAN
    /\ {MaxConnects, MaxStops, MaxRequests, MaxMessages, MaxDrops, MaxFailures,
        MaxThrows, MaxIdles} \subseteq Nat
    /\ Callers \cap {"ix", "worker", "teardown"} = {}

VARIABLES
    state,      \* state_
    gen,        \* stream_generation_
    resnap,     \* resnapshot_pending_
    stopping,   \* transport_stop_pending_
    running,    \* worker_running_
    active,     \* transport_worker_active_
    requested,  \* transport_stop_requested_
    queue,      \* messages of the BoundedMessageQueue
    closed,     \* its closed_
    ix,         \* external: the IXWebSocket object and the connection
    pc,         \* what every thread still has to do
    msg,        \* the message in the hands of the ix and the worker thread
    mark,       \* generation a thread's mark_stream_gap has drawn
    epoch,      \* EvmTransportEpoch::generation_ of the consumer
    recv,       \* history: messages the client received in this generation
    got,        \* history: messages of it the consumer admitted
    ordered,    \* history: the consumer admitted them in order, without holes
    budget      \* how many events of each bounded kind have happened

vars == <<state, gen, resnap, stopping, running, active, requested, queue, closed,
          ix, pc, msg, mark, epoch, recv, got, ordered, budget>>
flagVars    == <<resnap, stopping, running>>
teardownVars == <<active, requested>>
queueVars   == <<queue, closed>>
streamVars  == <<gen, mark, epoch, recv, got, ordered>>

Threads == Callers \cup {"ix", "worker", "teardown"}
NoMessage == [gen |-> 0, n |-> 0]

At(t, step) == pc[t] # <<>> /\ Head(pc[t]) = step
(* Thread t replaces its current step by `next'. *)
Go(t, next) == pc' = [pc EXCEPT ![t] = next \o Tail(@)]

(* connect holds lifecycle_mutex from its check to ws_.start(). *)
LifecycleFree == \A c \in Callers : ~At(c, "launch")

(* is_internal_callback: on a library thread, or inside a gap callback. *)
Internal(t) == t \in {"ix", "worker"} \/ Len(pc[t]) > 1

Spend(kind, bound) ==
    /\ budget[kind] < bound
    /\ budget' = [budget EXCEPT ![kind] = @ + 1]

(* The user's callback returns, or first calls disconnect() / stop(). *)
UserCallback(t, next) ==
    \/ Go(t, next) /\ UNCHANGED budget
    \/ CallbackStops /\ Spend("stops", MaxStops) /\ Go(t, <<"disconnect">> \o next)

InitState ==
    /\ state = "DISCONNECTED"
    /\ gen = 0 /\ epoch = 0 /\ recv = 0 /\ got = 0 /\ ordered = TRUE
    /\ resnap = FALSE /\ stopping = FALSE /\ running = FALSE
    /\ active = FALSE /\ requested = FALSE
    /\ queue = <<>> /\ closed = FALSE
    /\ ix = [auto |-> ReconnectEnabled, stop |-> FALSE, conn |-> "down",
             first |-> FALSE, retries |-> 0, callback |-> FALSE, subscribed |-> FALSE]
    /\ pc = [t \in Threads |-> <<>>]
    /\ msg = [t \in {"ix", "worker"} |-> NoMessage]
    /\ mark = [t \in Threads |-> 0]
Init ==
    /\ InitState
    /\ budget = [connects |-> 0, stops |-> 0, requests |-> 0, messages |-> 0,
                 drops |-> 0, failures |-> 0, throws |-> 0, idles |-> 0]

-----------------------------------------------------------------------------
(* mark_stream_gap and request_resnapshot, on any thread.                  *)

(* mark_stream_gap: draw the next generation ... *)
MarkGap(t) ==
    /\ At(t, "mark")
    /\ \/ stopping /\ Go(t, <<>>) /\ UNCHANGED <<gen, mark, recv, got>>
       \/ /\ ~stopping
          /\ gen' = gen + 1
          /\ mark' = [mark EXCEPT ![t] = gen + 1]
          /\ recv' = 0 /\ got' = 0
          /\ Go(t, <<"discard">>)
    /\ UNCHANGED <<state, flagVars, teardownVars, queueVars, ix, msg, epoch, ordered, budget>>

(* ... discard_pending ... *)
DiscardPending(t) ==
    /\ At(t, "discard")
    /\ queue' = <<>>
    /\ Go(t, <<"gap">>)
    /\ UNCHANGED <<state, flagVars, teardownVars, closed, ix, msg, streamVars, budget>>

(* ... and the stream_gap callback, which is EvmTransportEpoch::advance. *)
StreamGapCallback(t) ==
    /\ At(t, "gap")
    /\ \/ stopping /\ Go(t, <<>>) /\ UNCHANGED <<epoch, budget>>
       \/ /\ ~stopping
          /\ epoch' = IF mark[t] > epoch THEN mark[t] ELSE epoch
          /\ UserCallback(t, <<>>)
    /\ UNCHANGED <<state, flagVars, teardownVars, queueVars, ix, msg, gen, mark, recv,
                   got, ordered>>

(* request_resnapshot: nothing while a stop is pending ... *)
ResnapshotCheck(t) ==
    /\ At(t, "resnapshot")
    /\ Go(t, IF stopping THEN <<>> ELSE <<"exchange">>)
    /\ UNCHANGED <<state, flagVars, teardownVars, queueVars, ix, msg, streamVars, budget>>

(* ... one thread wins resnapshot_pending_ and reports the gap ... *)
ResnapshotExchange(t) ==
    /\ At(t, "exchange")
    /\ resnap' = TRUE
    /\ Go(t, IF resnap THEN <<>> ELSE <<"mark", "close">>)
    /\ UNCHANGED <<state, stopping, running, teardownVars, queueVars, ix, msg, streamVars,
                   budget>>

(* Mutant: the socket is not closed, so nothing reconnects. *)
ResnapshotKeepsSocket(t) ==
    /\ At(t, "close") /\ LifecycleFree
    /\ ix' = [ix EXCEPT !.auto = @ \/ ~ReconnectEnabled]
    /\ Go(t, <<>>)
    /\ UNCHANGED <<state, flagVars, teardownVars, queueVars, msg, streamVars, budget>>

(* ... and closes the socket, which reconnects. *)
ResnapshotClose(t) ==
    /\ At(t, "close") /\ LifecycleFree
    /\ ix' = IF stopping THEN ix
             ELSE [ix EXCEPT !.auto = @ \/ ~ReconnectEnabled,
                             !.conn = IF @ = "open" THEN "closing" ELSE @]
    /\ Go(t, <<>>)
    /\ UNCHANGED <<state, flagVars, teardownVars, queueVars, msg, streamVars, budget>>

-----------------------------------------------------------------------------
(* Calls of the user threads.                                              *)

CallConnect(c) ==
    /\ pc[c] = <<>> /\ Spend("connects", MaxConnects)
    /\ state = "DISCONNECTED" \/ ConnectsWhenActive
    /\ pc' = [pc EXCEPT ![c] = <<"connect">>]
    /\ UNCHANGED <<state, flagVars, teardownVars, queueVars, ix, msg, streamVars>>

CallDisconnect(c) ==
    /\ pc[c] = <<>> /\ CallerStops /\ Spend("stops", MaxStops)
    /\ pc' = [pc EXCEPT ![c] = <<"disconnect">>]
    /\ UNCHANGED <<state, flagVars, teardownVars, queueVars, ix, msg, streamVars>>

CallResnapshot(c) ==
    /\ pc[c] = <<>> /\ Spend("requests", MaxRequests)
    /\ pc' = [pc EXCEPT ![c] = <<"resnapshot">>]
    /\ UNCHANGED <<state, flagVars, teardownVars, queueVars, ix, msg, streamVars>>

(* connect: wait for a pending stop, then look at the state. *)
ConnectEntry(c) ==
    /\ \/ At(c, "connect") /\ Go(c, IF stopping THEN <<"await", "check">> ELSE <<"check">>)
       \/ At(c, "check") /\ Go(c, IF state = "DISCONNECTED" THEN <<"retire">> ELSE <<"start">>)
    /\ UNCHANGED <<state, flagVars, teardownVars, queueVars, ix, msg, streamVars, budget>>

(* connect: a transport that was closed by the peer is torn down first. *)
ConnectRetire(c) ==
    /\ \/ /\ At(c, "retire")
          /\ Go(c, IF active THEN <<"request", "await", "start">> ELSE <<"start">>)
          /\ UNCHANGED <<stopping, requested>>
       \/ /\ At(c, "request")
          /\ stopping' = (stopping \/ active)
          /\ requested' = (requested \/ active)
          /\ Go(c, <<>>)
    /\ UNCHANGED <<state, resnap, running, active, queueVars, ix, msg, streamVars, budget>>

(* wait_for_transport_stop *)
AwaitTransportStop(t) ==
    /\ At(t, "await") /\ ~active
    /\ Go(t, <<>>)
    /\ UNCHANGED <<state, flagVars, teardownVars, queueVars, ix, msg, streamVars, budget>>

TeardownSteps == <<"ws_stop", "ws_join", "worker_stop", "worker_join", "reset", "clear", "publish">>

(* connect under lifecycle_mutex: return, start the transport worker, or fail
   in prepare_route_locked and clean up. *)
ConnectStart(c) ==
    /\ At(c, "start") /\ LifecycleFree
    /\ \/ /\ state # "DISCONNECTED"
          /\ Go(c, <<>>)
          /\ UNCHANGED <<state, running, stopping, closed, teardownVars, budget>>
       \/ /\ state = "DISCONNECTED"
          /\ pc' = [pc EXCEPT ![c] = <<"launch">> \o Tail(@),
                              !["teardown"] = IF active THEN @ ELSE <<"wait">>]
          /\ active' = TRUE
          /\ requested' = (requested /\ active)
          /\ stopping' = (stopping /\ active)
          /\ UNCHANGED <<state, running, closed, budget>>
       \/ /\ state = "DISCONNECTED" /\ Spend("failures", MaxFailures)
          /\ state' = "CLOSING"
          /\ closed' = TRUE /\ running' = FALSE
          /\ stopping' = (stopping \/ active)
          /\ requested' = (requested \/ active)
          /\ Go(c, IF active THEN <<"await">> ELSE TeardownSteps)
          /\ UNCHANGED active
    /\ UNCHANGED <<resnap, queue, ix, msg, streamVars>>

(* connect, the rest of its critical section: start_message_worker joins a
   finished worker and ws_.start() does nothing while its thread exists. *)
ConnectLaunch(c) ==
    /\ At(c, "launch")
    /\ running \/ pc["worker"] \in {<<>>, <<"done">>}
    /\ state' = "CONNECTING"
    /\ resnap' = FALSE /\ running' = TRUE
    /\ IF ~running /\ pc["worker"] # <<>>
       THEN queue' = <<>> /\ closed' = FALSE
       ELSE UNCHANGED queueVars
    /\ ix' = [ix EXCEPT !.auto = @ \/ ReconnectEnabled, !.callback = TRUE,
                        !.first = @ \/ pc["ix"] = <<>>]
    /\ pc' = [pc EXCEPT ![c] = Tail(@),
                        !["worker"] = IF running THEN @ ELSE <<"loop">>,
                        !["ix"] = IF @ = <<>> THEN <<"dial">> ELSE @]
    /\ UNCHANGED <<stopping, teardownVars, msg, streamVars, budget>>

(* Mutant: disconnect tears the transport down itself, on any thread. *)
DisconnectInline(t) ==
    /\ At(t, "disconnect") /\ LifecycleFree
    /\ state' = "CLOSING"
    /\ resnap' = FALSE /\ running' = FALSE /\ closed' = TRUE
    /\ ix' = [ix EXCEPT !.auto = FALSE]
    /\ stopping' = (stopping \/ active)
    /\ Go(t, TeardownSteps)
    /\ UNCHANGED <<teardownVars, queue, msg, streamVars, budget>>

(* Mutant: disconnect waits for the teardown in a callback as well. *)
DisconnectAlwaysWaits(t) ==
    /\ At(t, "disconnect") /\ LifecycleFree
    /\ state' = "CLOSING"
    /\ resnap' = FALSE /\ running' = FALSE /\ closed' = TRUE
    /\ ix' = [ix EXCEPT !.auto = FALSE]
    /\ stopping' = (stopping \/ active)
    /\ requested' = (requested \/ active)
    /\ Go(t, IF active THEN <<"await">> ELSE TeardownSteps)
    /\ UNCHANGED <<active, queue, msg, streamVars, budget>>

(* disconnect, also from a callback, where it does not wait. *)
Disconnect(t) ==
    /\ At(t, "disconnect") /\ LifecycleFree
    /\ state' = "CLOSING"
    /\ resnap' = FALSE /\ running' = FALSE /\ closed' = TRUE
    /\ ix' = [ix EXCEPT !.auto = FALSE]
    /\ stopping' = (stopping \/ active)
    /\ requested' = (requested \/ active)
    /\ Go(t, IF ~active THEN TeardownSteps
             ELSE IF Internal(t) THEN <<>> ELSE <<"await">>)
    /\ UNCHANGED <<active, queue, msg, streamVars, budget>>

-----------------------------------------------------------------------------
(* Teardown: by the transport worker, or by disconnect when there is none. *)

TransportWake ==
    /\ At("teardown", "wait") /\ requested
    /\ Go("teardown", TeardownSteps \o <<"final">>)
    /\ UNCHANGED <<state, flagVars, teardownVars, queueVars, ix, msg, streamVars, budget>>

(* finish_disconnect: ws_.stop() closes the connection and joins ... *)
WsStop(t) ==
    /\ \/ /\ At(t, "ws_stop")
          /\ ix' = [ix EXCEPT !.stop = pc["ix"] # <<>>,
                              !.conn = IF @ = "open" THEN "closing" ELSE @]
          /\ Go(t, <<>>)
       \/ /\ At(t, "ws_join") /\ pc["ix"] \in {<<>>, <<"done">>}
          /\ ix' = [ix EXCEPT !.stop = FALSE]
          /\ pc' = [pc EXCEPT ![t] = Tail(@), !["ix"] = <<>>]
    /\ UNCHANGED <<state, flagVars, teardownVars, queueVars, msg, streamVars, budget>>

(* ... stop_message_worker closes the queue, joins and resets the queue ... *)
StopMessageWorker(t) ==
    /\ \/ /\ At(t, "worker_stop")
          /\ closed' = TRUE /\ running' = FALSE
          /\ Go(t, <<>>)
          /\ UNCHANGED queue
       \/ /\ At(t, "worker_join") /\ pc["worker"] \in {<<>>, <<"done">>}
          /\ pc' = [pc EXCEPT ![t] = Tail(@), !["worker"] = <<>>]
          /\ UNCHANGED <<queueVars, running>>
       \/ /\ At(t, "reset") /\ LifecycleFree
          /\ queue' = <<>> /\ closed' = FALSE
          /\ Go(t, <<>>)
          /\ UNCHANGED running
    /\ UNCHANGED <<state, resnap, stopping, teardownVars, ix, msg, streamVars, budget>>

(* Mutant: the end of the teardown is not published. *)
PublishNothing(t) ==
    /\ At(t, "clear") \/ At(t, "publish")
    /\ ix' = [ix EXCEPT !.callback = FALSE]
    /\ Go(t, <<>>)
    /\ UNCHANGED <<state, flagVars, teardownVars, queueVars, msg, streamVars, budget>>

(* ... the callback is removed and publish_disconnected ends it. *)
Publish(t) ==
    /\ \/ /\ At(t, "clear")
          /\ ix' = [ix EXCEPT !.callback = FALSE]
          /\ UNCHANGED state
       \/ /\ At(t, "publish")
          /\ state' = "DISCONNECTED"
          /\ UNCHANGED ix
    /\ Go(t, <<>>)
    /\ UNCHANGED <<flagVars, teardownVars, queueVars, msg, streamVars, budget>>

(* Mutant: transport_worker_active_ is not cleared. *)
TransportFinalStaysActive ==
    /\ At("teardown", "final")
    /\ requested' = FALSE /\ stopping' = FALSE
    /\ Go("teardown", <<>>)
    /\ UNCHANGED <<state, resnap, running, active, queueVars, ix, msg, streamVars, budget>>

(* The last critical section of transport_worker_loop. *)
TransportFinal ==
    /\ At("teardown", "final")
    /\ active' = FALSE /\ requested' = FALSE /\ stopping' = FALSE
    /\ Go("teardown", <<>>)
    /\ UNCHANGED <<state, resnap, running, queueVars, ix, msg, streamVars, budget>>

-----------------------------------------------------------------------------
(* The IXWebSocket thread: dialing, and the transport callbacks.           *)

CanDial == ~ix.stop /\ (ix.first \/ ix.auto)
Handler(steps) == IF ix.callback THEN steps ELSE <<>>

(* External: one attempt to connect succeeds or fails, or the thread ends. *)
Dial ==
    /\ At("ix", "dial")
    /\ \/ /\ CanDial
          /\ ix' = [ix EXCEPT !.conn = "open", !.first = FALSE, !.retries = 0,
                              !.subscribed = FALSE]
          /\ Go("ix", Handler(<<"mark", "opened">>) \o <<"poll">>)
       \/ ~CanDial /\ Go("ix", <<"done">>) /\ UNCHANGED ix
    /\ UNCHANGED <<state, flagVars, teardownVars, queueVars, msg, streamVars, budget>>

DialFails ==
    /\ At("ix", "dial") /\ CanDial /\ Spend("failures", MaxFailures)
    /\ ix' = [ix EXCEPT !.first = FALSE, !.retries = @ + 1]
    /\ Go("ix", Handler(<<"error">>) \o <<"dial">>)
    /\ UNCHANGED <<state, flagVars, teardownVars, queueVars, msg, streamVars>>

(* External: the peer or the network closes an open connection, or the closing
   handshake of one ends. *)
ConnectionDrops ==
    /\ At("ix", "poll")
    /\ \/ ix.conn = "open" /\ Spend("drops", MaxDrops)
       \/ ix.conn = "closing" /\ UNCHANGED budget
    /\ ix' = [ix EXCEPT !.conn = "down"]
    /\ Go("ix", Handler(<<"closed">>) \o <<"dial">>)
    /\ UNCHANGED <<state, flagVars, teardownVars, queueVars, msg, streamVars>>

(* handle_open after its mark_stream_gap: publish CONNECTED ... *)
HandleOpen ==
    /\ At("ix", "opened") /\ LifecycleFree
    /\ \/ stopping /\ Go("ix", <<>>) /\ UNCHANGED <<state, resnap, ix>>
       \/ /\ ~stopping
          /\ resnap' = FALSE
          /\ ix' = [ix EXCEPT !.auto = @ /\ ~(resnap /\ ~ReconnectEnabled)]
          /\ state' = "CONNECTED"
          /\ Go("ix", <<"restore">>)
    /\ UNCHANGED <<stopping, running, teardownVars, queueVars, msg, streamVars, budget>>

(* ... restore_subscriptions, whose send fails once the socket is closing ... *)
RestoreSubscriptions ==
    /\ At("ix", "restore")
    /\ \/ /\ ix.conn = "open"
          /\ ix' = [ix EXCEPT !.subscribed = TRUE]
          /\ Go("ix", <<"on_connect">>)
       \/ ix.conn # "open" /\ Go("ix", <<"resnapshot">>) /\ UNCHANGED ix
    /\ UNCHANGED <<state, flagVars, teardownVars, queueVars, msg, streamVars, budget>>

(* ... and the connect callback.  Also the disconnect and error callbacks. *)
TransportCallback ==
    /\ \/ At("ix", "on_connect") /\ UserCallback("ix", <<>>)
       \/ At("ix", "on_close")
          /\ IF stopping THEN Go("ix", <<>>) /\ UNCHANGED budget
             ELSE UserCallback("ix", <<"on_disconnect">>)
       \/ At("ix", "on_disconnect")
          /\ IF stopping THEN Go("ix", <<>>) /\ UNCHANGED budget
             ELSE UserCallback("ix", <<>>)
       \/ At("ix", "on_error") /\ UserCallback("ix", <<>>)
    /\ UNCHANGED <<state, flagVars, teardownVars, queueVars, ix, msg, streamVars>>

Reconnecting == ReconnectEnabled \/ resnap

(* Mutant: the gap of a lost connection is marked after the state was published. *)
HandleCloseMarksLate ==
    /\ \/ At("ix", "closed") /\ Go("ix", <<"close_state">>) /\ UNCHANGED state
       \/ /\ At("ix", "close_state") /\ LifecycleFree
          /\ state' = IF stopping THEN state
                      ELSE IF Reconnecting THEN "RECONNECTING" ELSE "DISCONNECTED"
          /\ Go("ix", IF stopping THEN <<"on_close">> ELSE <<"mark", "on_close">>)
    /\ UNCHANGED <<flagVars, teardownVars, queueVars, ix, msg, streamVars, budget>>

(* handle_close *)
HandleClose ==
    /\ \/ /\ At("ix", "closed")
          /\ Go("ix", IF stopping THEN <<"close_state">> ELSE <<"mark", "close_state">>)
          /\ UNCHANGED state
       \/ /\ At("ix", "close_state") /\ LifecycleFree
          /\ state' = IF stopping THEN state
                      ELSE IF Reconnecting THEN "RECONNECTING" ELSE "DISCONNECTED"
          /\ Go("ix", <<"on_close">>)
    /\ UNCHANGED <<flagVars, teardownVars, queueVars, ix, msg, streamVars, budget>>

(* reconnect_limit_reached *)
LimitReached == MaxAttempts > 0 /\ ix.retries >= MaxAttempts

(* handle_error *)
HandleError ==
    /\ \/ /\ At("ix", "error")
          /\ Go("ix", IF stopping THEN <<>> ELSE <<"mark", "error_state">>)
          /\ UNCHANGED <<state, ix>>
       \/ /\ At("ix", "error_state") /\ LifecycleFree
          /\ IF stopping THEN Go("ix", <<>>) /\ UNCHANGED <<state, ix>>
             ELSE /\ ix' = [ix EXCEPT !.auto = @ /\ ~LimitReached]
                  /\ state' = IF Reconnecting /\ ~LimitReached THEN "RECONNECTING"
                              ELSE "DISCONNECTED"
                  /\ Go("ix", <<"on_error">>)
    /\ UNCHANGED <<flagVars, teardownVars, queueVars, msg, streamVars, budget>>

(* External: a text frame arrives. *)
Receive ==
    /\ At("ix", "poll") /\ ix.conn # "down" /\ Spend("messages", MaxMessages)
    /\ Go("ix", Handler(<<"enqueue">>) \o <<"poll">>)
    /\ UNCHANGED <<state, flagVars, teardownVars, queueVars, ix, msg, streamVars>>

(* enqueue_message: dropped while a resnapshot is pending ... *)
EnqueueCheck ==
    /\ At("ix", "enqueue")
    /\ recv' = IF resnap THEN recv + 1 ELSE recv
    /\ Go("ix", IF resnap THEN <<>> ELSE <<"stamp">>)
    /\ UNCHANGED <<state, flagVars, teardownVars, queueVars, ix, msg, gen, mark, epoch, got,
                   ordered, budget>>

(* ... stamped with the stream generation ... *)
EnqueueStamp ==
    /\ At("ix", "stamp")
    /\ msg' = [msg EXCEPT !["ix"] = [gen |-> gen, n |-> recv + 1]]
    /\ recv' = recv + 1
    /\ Go("ix", <<"push">>)
    /\ UNCHANGED <<state, flagVars, teardownVars, queueVars, ix, gen, mark, epoch, got,
                   ordered, budget>>

(* Mutant: an overflowing push drops only the new message. *)
PushDropsNewest ==
    /\ At("ix", "push")
    /\ queue' = IF closed \/ Len(queue) >= QueueLimit THEN queue ELSE Append(queue, msg["ix"])
    /\ Go("ix", <<>>)
    /\ UNCHANGED <<state, flagVars, teardownVars, closed, ix, msg, streamVars, budget>>

(* Mutant: one message too many. *)
PushOffByOne ==
    /\ At("ix", "push")
    /\ IF closed \/ Len(queue) > QueueLimit
       THEN UNCHANGED queue /\ Go("ix", IF closed THEN <<>> ELSE <<"resnapshot">>)
       ELSE queue' = Append(queue, msg["ix"]) /\ Go("ix", <<>>)
    /\ UNCHANGED <<state, flagVars, teardownVars, closed, ix, msg, streamVars, budget>>

(* ... and BoundedMessageQueue::push; an overflow empties the queue. *)
Push ==
    /\ At("ix", "push")
    /\ \/ closed /\ Go("ix", <<>>) /\ UNCHANGED queue
       \/ /\ ~closed /\ Len(queue) >= QueueLimit
          /\ queue' = <<>>
          /\ Go("ix", <<"resnapshot">>)
       \/ /\ ~closed /\ Len(queue) < QueueLimit
          /\ queue' = Append(queue, msg["ix"])
          /\ Go("ix", <<>>)
    /\ UNCHANGED <<state, flagVars, teardownVars, closed, ix, msg, streamVars, budget>>

-----------------------------------------------------------------------------
(* The message worker.                                                     *)

WorkerLoop ==
    /\ At("worker", "loop")
    /\ Go("worker", IF running THEN <<"pop">> ELSE <<"done">>)
    /\ UNCHANGED <<state, flagVars, teardownVars, queueVars, ix, msg, streamVars, budget>>

(* BoundedMessageQueue::pop, or pop_for followed by check_idle. *)
Pop ==
    /\ At("worker", "pop")
    /\ \/ /\ queue # <<>>
          /\ msg' = [msg EXCEPT !["worker"] = Head(queue)]
          /\ queue' = Tail(queue)
          /\ Go("worker", <<"message", "loop">>)
          /\ UNCHANGED budget
       \/ /\ queue = <<>> /\ closed
          /\ Go("worker", <<"done">>)
          /\ UNCHANGED <<queue, msg, budget>>
       \/ /\ queue = <<>> /\ ~closed /\ state = "CONNECTED" /\ Spend("idles", MaxIdles)
          /\ Go("worker", <<"resnapshot", "loop">>)
          /\ UNCHANGED <<queue, msg>>
    /\ UNCHANGED <<state, flagVars, teardownVars, closed, ix, streamVars>>

Superseded == ~running \/ stopping \/ msg["worker"].gen # gen

(* Mutant: an exception of a callback is swallowed. *)
CallbackSwallowsThrow(next) ==
    \/ UserCallback("worker", next)
    \/ Spend("throws", MaxThrows) /\ Go("worker", <<>>)

(* dispatch_message: a callback returns, stops the client, or throws and
   makes the client ask for a resnapshot. *)
Callback(next) ==
    \/ UserCallback("worker", next)
    \/ Spend("throws", MaxThrows) /\ Go("worker", <<"resnapshot">>)

DispatchMessage ==
    /\ \/ /\ At("worker", "message")
          /\ IF msg["worker"].gen # gen THEN Go("worker", <<>>) /\ UNCHANGED budget
             ELSE Callback(<<"sequenced">>)
       \/ /\ At("worker", "sequenced")
          /\ Go("worker", IF Superseded THEN <<>> ELSE <<"deliver">>)
          /\ UNCHANGED budget
       \/ /\ At("worker", "typed")
          /\ IF Superseded THEN Go("worker", <<>>) /\ UNCHANGED budget
             ELSE Callback(<<>>)
    /\ UNCHANGED <<state, flagVars, teardownVars, queueVars, ix, msg, streamVars>>

(* The sequenced callback: EvmTransportEpoch::admit.  `got' counts the messages of the
   current generation only: a later generation tells the consumer to start over. *)
Deliver ==
    /\ At("worker", "deliver")
    /\ LET m == msg["worker"]
           admitted == m.gen = epoch /\ m.gen = gen
       IN  /\ got' = IF admitted THEN m.n ELSE got
           /\ ordered' = (ordered /\ (admitted => m.n = got + 1))
    /\ Callback(<<"typed">>)
    /\ UNCHANGED <<state, flagVars, teardownVars, queueVars, ix, msg, gen, mark, epoch, recv>>

-----------------------------------------------------------------------------
GapStep(t) ==
    \/ MarkGap(t) \/ DiscardPending(t) \/ StreamGapCallback(t)
    \/ ResnapshotCheck(t) \/ ResnapshotExchange(t) \/ ResnapshotClose(t)
TeardownStep(t) == WsStop(t) \/ StopMessageWorker(t) \/ Publish(t)
CallStep(c) ==
    \/ ConnectEntry(c) \/ ConnectRetire(c) \/ ConnectStart(c) \/ ConnectLaunch(c)
ThreadStep(t) == GapStep(t) \/ TeardownStep(t) \/ Disconnect(t) \/ AwaitTransportStop(t)
IxStep ==
    \/ HandleOpen \/ RestoreSubscriptions \/ TransportCallback \/ HandleClose
    \/ HandleError \/ EnqueueCheck \/ EnqueueStamp \/ Push
WorkerStep == WorkerLoop \/ Pop \/ DispatchMessage \/ Deliver
TransportStep == TransportWake \/ TransportFinal
Environment == DialFails \/ Receive \/ Dial \/ ConnectionDrops

Next ==
    \/ Environment \/ IxStep \/ WorkerStep \/ TransportStep
    \/ \E t \in Threads : ThreadStep(t)
    \/ \E c \in Callers :
          CallStep(c) \/ CallConnect(c) \/ CallDisconnect(c) \/ CallResnapshot(c)

Spec == Init /\ [][Next]_vars

(* Every thread that can take a step takes it; the server accepts a connection
   and finishes a closing handshake.  Calls, messages and faults need not happen. *)
Fairness ==
    /\ WF_vars(IxStep) /\ WF_vars(WorkerStep) /\ WF_vars(TransportStep)
    /\ WF_vars(Dial) /\ WF_vars(ix.conn = "closing" /\ ConnectionDrops)
    /\ \A t \in Threads : WF_vars(ThreadStep(t))
    /\ \A c \in Callers : WF_vars(CallStep(c))

FairSpec == Spec /\ Fairness

-----------------------------------------------------------------------------
(* Properties.                                                             *)

Steps == {"mark", "discard", "gap", "resnapshot", "exchange", "close", "connect", "check",
          "retire", "request", "await", "start", "launch", "disconnect", "wait", "ws_stop",
          "ws_join", "worker_stop", "worker_join", "reset", "clear", "publish", "final",
          "dial", "poll", "opened", "restore", "on_connect", "closed", "close_state",
          "on_close", "on_disconnect", "error", "error_state", "on_error", "enqueue",
          "stamp", "push", "loop", "pop", "message", "sequenced", "deliver", "typed", "done"}

(* Every variable has the type its C++ member has, and the BoundedMessageQueue
   never holds more than message_queue_limit messages. *)
TypeOK ==
    /\ state \in {"DISCONNECTED", "CONNECTING", "CONNECTED", "RECONNECTING", "CLOSING"}
    /\ {gen, epoch, recv, got} \subseteq Nat
    /\ {resnap, stopping, running, active, requested, closed, ordered} \subseteq BOOLEAN
    /\ queue \in Seq([gen : Nat, n : Nat]) /\ Len(queue) <= QueueLimit
    /\ ix \in [auto : BOOLEAN, stop : BOOLEAN, conn : {"down", "open", "closing"},
               first : BOOLEAN, retries : Nat, callback : BOOLEAN, subscribed : BOOLEAN]
    /\ pc \in [Threads -> Seq(Steps)]
    /\ msg \in [{"ix", "worker"} -> [gen : Nat, n : Nat]]
    /\ mark \in [Threads -> Nat]

CallersIdle == \A c \in Callers : pc[c] = <<>>

(* Connected, every received message dispatched, and no call or stop under way. *)
Settled ==
    /\ state = "CONNECTED" /\ ~resnap /\ ~stopping /\ CallersIdle
    /\ pc["ix"] = <<"poll">> /\ ix.conn = "open"
    /\ pc["worker"] \in {<<>>, <<"done">>, <<"pop">>} /\ queue = <<>>
    /\ pc["teardown"] \in {<<>>, <<"wait">>}

(* A message is delivered or the consumer was told of a gap after it: once the client
   is settled, the consumer's epoch is the stream's generation, it has admitted every
   message received in it, and the subscriptions were restored.  Overflow, a throwing
   callback, idle reconnects and dropped connections all go through mark_stream_gap. *)
NoSilentLoss == Settled => epoch = gen /\ got = recv /\ ix.subscribed

(* Within a generation dispatch_message hands the messages to the consumer in the
   order they were received, with no hole before a message it admits. *)
InOrder == ordered

(* finish_disconnect never joins the thread it runs on: a stop from a callback is
   left to the transport worker. *)
NoSelfJoin == ~At("ix", "ws_join") /\ ~At("worker", "worker_join")

(* When a disconnect has returned and its teardown is over, the client is
   DISCONNECTED and can be connected again. *)
StopFinishes ==
    (CallersIdle /\ ~active /\ pc["ix"] = <<>> /\ pc["worker"] = <<>>)
        => state = "DISCONNECTED"

(* Every connect, disconnect and request_resnapshot of a user thread returns. *)
CallsReturn == \A c \in Callers : pc[c] # <<>> ~> pc[c] = <<>>

(* A pending transport stop is carried out, whichever thread asked for it. *)
TeardownCompletes == stopping ~> ~stopping

(* A requested resnapshot ends in a new connection (handle_open clears it), or
   the client leaves the connected states. *)
ResnapshotEnds ==
    (resnap /\ state = "CONNECTED") ~> (~resnap \/ state \in {"DISCONNECTED", "CLOSING"})
-----------------------------------------------------------------------------
(* Refinement: the client implements GapStream, which the stream runtimes use.  *)

Does(t, steps) == \E i \in DOMAIN pc[t] : pc[t][i] \in steps
LinkOf ==
    IF stopping \/ state \in {"DISCONNECTED", "CLOSING"} THEN "off"
    ELSE IF state = "CONNECTED"
         THEN IF Does("ix", {"restore"}) THEN "restore"
              ELSE IF Does("ix", {"on_connect"}) THEN "connect"
              ELSE IF Does("ix", {"close_state"}) /\ ~Does("ix", {"mark"}) THEN "lost"
              ELSE "up"
         ELSE IF Does("ix", {"mark"}) THEN "dial"
              ELSE IF Does("ix", {"opened"}) THEN "opened"
              ELSE IF Does("ix", {"error_state"}) THEN "failed"
              ELSE IF Does("ix", {"on_close", "on_disconnect"}) THEN "closed"
              ELSE "dial"
ReportsOf ==
    {[gen |-> mark[t], own |-> ~Does(t, {"close"}), told |-> ~Does(t, {"discard", "gap"})] :
        t \in {u \in Threads : /\ ~stopping /\ ~Does(u, {"mark"})
                               /\ Does(u, {"discard", "gap", "close"})}}

Gap == INSTANCE GapStream WITH
           link <- LinkOf, reports <- ReportsOf,
           pending <- resnap /\ LinkOf # "off",
           closing <- \/ ix.conn = "closing" /\ LinkOf # "off"
                      \/ ix.conn = "down" /\ LinkOf \in {"opened", "restore", "connect", "up"}

(* The client implements GapStream: a connection comes up and goes down only after a
   new generation was drawn and its stream_gap callback returned. *)
ImplementsGapStream == Gap!GapSpec
=============================================================================
