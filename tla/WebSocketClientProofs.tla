------------------------ MODULE WebSocketClientProofs ------------------------
(***************************************************************************)
(* Theorems about WebSocketClient, for every queue limit, every set of     *)
(* user threads and every bound on the events: its types and its stops.    *)
(***************************************************************************)
EXTENDS MCWebSocketClient, SequenceTheorems, TLAPS

-----------------------------------------------------------------------------
(* Types.                                                                  *)

IxType == [auto : BOOLEAN, stop : BOOLEAN, conn : {"down", "open", "closing"},
           first : BOOLEAN, retries : Nat, callback : BOOLEAN, subscribed : BOOLEAN]
Messages == [gen : Nat, n : Nat]
QueueOK == queue \in Seq(Messages) /\ Len(queue) <= QueueLimit
StreamOK ==
    /\ gen \in Nat /\ epoch \in Nat /\ recv \in Nat /\ got \in Nat /\ ordered \in BOOLEAN
    /\ mark \in [Threads -> Nat]
FlagsOK ==
    /\ state \in {"DISCONNECTED", "CONNECTING", "CONNECTED", "RECONNECTING", "CLOSING"}
    /\ resnap \in BOOLEAN /\ stopping \in BOOLEAN /\ running \in BOOLEAN
    /\ active \in BOOLEAN /\ requested \in BOOLEAN /\ closed \in BOOLEAN
StacksOK == pc \in [Threads -> Seq(Steps)]
MsgOK == msg \in [{"ix", "worker"} -> Messages]

(* TypeOK variable by variable. *)
TypeParts == QueueOK /\ StreamOK /\ FlagsOK /\ StacksOK /\ MsgOK /\ ix \in IxType

LEMMA TypeSplit == TypeOK <=> TypeParts
<1>1. {gen, epoch, recv, got} \subseteq Nat
        <=> gen \in Nat /\ epoch \in Nat /\ recv \in Nat /\ got \in Nat
  BY Zenon
<1>2. {resnap, stopping, running, active, requested, closed, ordered} \subseteq BOOLEAN
        <=> /\ resnap \in BOOLEAN /\ stopping \in BOOLEAN /\ running \in BOOLEAN
            /\ active \in BOOLEAN /\ requested \in BOOLEAN /\ closed \in BOOLEAN
            /\ ordered \in BOOLEAN
  BY Zenon
<1>. QED  BY <1>1, <1>2, Zenon DEF TypeOK, TypeParts, QueueOK, StreamOK, FlagsOK, StacksOK,
             MsgOK, IxType, Messages

-----------------------------------------------------------------------------
(* Stacks of steps.                                                        *)

(* What a handler, a call or a callback puts on a stack is a sequence of steps. *)
LEMMA PushedSteps ==
    <<>> \in Seq(Steps) /\ TeardownSteps \in Seq(Steps)
BY DEF TeardownSteps, Steps

(* Two sequences of steps make one. *)
LEMMA ConcatSteps ==
    ASSUME NEW r \in Seq(Steps), NEW s \in Seq(Steps)
    PROVE  r \o s \in Seq(Steps)
BY ConcatProperties

(* Replacing the head of a stack leaves stacks. *)
LEMMA GoType ==
    ASSUME StacksOK, NEW t \in Threads, pc[t] # <<>>, NEW next \in Seq(Steps), Go(t, next)
    PROVE  StacksOK'
<1>1. pc \in [Threads -> Seq(Steps)] /\ pc[t] \in Seq(Steps)
  BY DEF StacksOK
<1>2. Tail(pc[t]) \in Seq(Steps)
  BY <1>1
<1>3. next \o Tail(pc[t]) \in Seq(Steps)
  BY <1>2, ConcatSteps
<1>. QED  BY <1>1, <1>3 DEF Go, StacksOK

(* A callback of the user returns or calls disconnect first. *)
LEMMA UserCallbackType ==
    ASSUME StacksOK, NEW t \in Threads, pc[t] # <<>>, NEW next \in Seq(Steps),
           UserCallback(t, next)
    PROVE  StacksOK'
<1>1. <<"disconnect">> \in Seq(Steps)
  BY DEF Steps
<1>2. <<"disconnect">> \o next \in Seq(Steps)
  BY <1>1, ConcatSteps
<1>3. Go(t, next) \/ Go(t, <<"disconnect">> \o next)
  BY DEF UserCallback
<1>. QED  BY <1>2, <1>3, GoType

(* A queue that is kept or emptied is within its limit. *)
LEMMA QueueKept ==
    ASSUME QueueOK, queue' = queue \/ queue' = <<>>
    PROVE  QueueOK'
<1>1. CASE queue' = queue
  BY <1>1 DEF QueueOK
<1>2. CASE queue' = <<>>
  BY <1>2, OptionsAssumption DEF QueueOK
<1>. QED  BY <1>1, <1>2

LEMMA LibraryThreads ==
    /\ Callers \subseteq Threads /\ {"ix", "worker", "teardown"} \subseteq Threads
BY DEF Threads

-----------------------------------------------------------------------------
(* Types are preserved.                                                    *)

LEMMA TypeInit == InitState => TypeParts
<1>. SUFFICES ASSUME InitState PROVE TypeParts  OBVIOUS
<1>1. ix \in IxType
  <2>. DEFINE b == FALSE
  <2>1. b \in BOOLEAN /\ ReconnectEnabled \in BOOLEAN
    BY OptionsAssumption
  <2>2. ix = [auto |-> ReconnectEnabled, stop |-> b, conn |-> "down",
             first |-> b, retries |-> 0, callback |-> b, subscribed |-> b]
    BY DEF InitState
  <2>. HIDE DEF b
  <2>. QED  BY <2>1, <2>2 DEF IxType
<1>2. QueueOK /\ StacksOK /\ MsgOK /\ StreamOK
  BY OptionsAssumption DEF InitState, QueueOK, StacksOK, MsgOK, StreamOK, Messages, NoMessage
<1>3. FlagsOK
  BY DEF InitState, FlagsOK
<1>. QED  BY <1>1, <1>2, <1>3 DEF TypeParts

(* Gap reports and resnapshots. *)
LEMMA TypeGapStep ==
    ASSUME TypeParts, NEW t \in Threads, GapStep(t)
    PROVE  TypeParts'
<1>. USE DEF flagVars, teardownVars, queueVars, streamVars, TypeParts
<1>s. /\ <<"discard">> \in Seq(Steps) /\ <<"gap">> \in Seq(Steps) /\ <<"exchange">> \in Seq(Steps)
      /\ <<"mark", "close">> \in Seq(Steps) /\ <<>> \in Seq(Steps)
  BY DEF Steps
<1>1. CASE MarkGap(t)
  <2>1. StacksOK'
    BY <1>1, <1>s, GoType DEF MarkGap, At
  <2>2. StreamOK'
    BY <1>1 DEF MarkGap, StreamOK
  <2>. QED  BY <1>1, <2>1, <2>2 DEF MarkGap, FlagsOK, QueueOK, MsgOK
<1>2. CASE DiscardPending(t)
  <2>1. StacksOK'
    BY <1>2, <1>s, GoType DEF DiscardPending, At
  <2>2. QueueOK'
    BY <1>2, OptionsAssumption DEF DiscardPending, QueueOK
  <2>. QED  BY <1>2, <2>1, <2>2 DEF DiscardPending, FlagsOK, StreamOK, MsgOK
<1>3. CASE StreamGapCallback(t)
  <2>1. StacksOK'
    BY <1>3, <1>s, GoType, UserCallbackType DEF StreamGapCallback, At
  <2>2. StreamOK'
    BY <1>3 DEF StreamGapCallback, StreamOK
  <2>. QED  BY <1>3, <2>1, <2>2 DEF StreamGapCallback, FlagsOK, QueueOK, MsgOK
<1>4. CASE ResnapshotCheck(t)
  <2>1. StacksOK'
    BY <1>4, <1>s, GoType DEF ResnapshotCheck, At
  <2>. QED  BY <1>4, <2>1 DEF ResnapshotCheck, FlagsOK, QueueOK, StreamOK, MsgOK
<1>5. CASE ResnapshotExchange(t)
  <2>1. StacksOK'
    BY <1>5, <1>s, GoType DEF ResnapshotExchange, At
  <2>. QED  BY <1>5, <2>1 DEF ResnapshotExchange, FlagsOK, QueueOK, StreamOK, MsgOK
<1>6. CASE ResnapshotClose(t)
  <2>1. StacksOK'
    BY <1>6, <1>s, GoType DEF ResnapshotClose, At
  <2>2. ix' \in IxType
    BY <1>6, OptionsAssumption DEF ResnapshotClose, IxType
  <2>. QED  BY <1>6, <2>1, <2>2 DEF ResnapshotClose, FlagsOK, QueueOK, StreamOK, MsgOK
<1>. QED  BY <1>1, <1>2, <1>3, <1>4, <1>5, <1>6 DEF GapStep

(* The steps of a teardown, disconnect and the wait for it. *)
LEMMA TypeTeardown ==
    ASSUME TypeParts, NEW t \in Threads,
           TeardownStep(t) \/ Disconnect(t) \/ AwaitTransportStop(t)
    PROVE  TypeParts'
<1>. USE DEF flagVars, teardownVars, queueVars, streamVars, TypeParts
<1>s. /\ <<>> \in Seq(Steps) /\ <<"await">> \in Seq(Steps) /\ TeardownSteps \in Seq(Steps)
  BY PushedSteps DEF Steps
<1>p. /\ pc \in [Threads -> Seq(Steps)] /\ "ix" \in Threads /\ "worker" \in Threads
  BY LibraryThreads DEF StacksOK
<1>1. CASE WsStop(t)
  <2>1. StacksOK'
    <3>1. CASE At(t, "ws_stop") /\ Go(t, <<>>)
      BY <3>1, <1>s, GoType DEF At
    <3>2. CASE At(t, "ws_join") /\ pc' = [pc EXCEPT ![t] = Tail(@), !["ix"] = <<>>]
      <4>1. Tail(pc[t]) \in Seq(Steps)
        BY <3>2, <1>p DEF At
      <4>. QED  BY <4>1, <3>2, <1>p, <1>s DEF StacksOK
    <3>. QED  BY <1>1, <3>1, <3>2 DEF WsStop
  <2>2. ix' \in IxType
    <3>. DEFINE b == pc["ix"] # <<>>
    <3>1. b \in BOOLEAN /\ FALSE \in BOOLEAN
      OBVIOUS
    <3>2. \/ ix' = [ix EXCEPT !.stop = b, !.conn = IF @ = "open" THEN "closing" ELSE @]
          \/ ix' = [ix EXCEPT !.stop = FALSE]
      BY <1>1 DEF WsStop
    <3>. HIDE DEF b
    <3>. QED  BY <3>1, <3>2 DEF IxType
  <2>. QED  BY <1>1, <2>1, <2>2 DEF WsStop, FlagsOK, QueueOK, StreamOK, MsgOK
<1>2. CASE StopMessageWorker(t)
  <2>1. StacksOK'
    <3>1. CASE (At(t, "worker_stop") \/ At(t, "reset")) /\ Go(t, <<>>)
      BY <3>1, <1>s, GoType DEF At
    <3>2. CASE At(t, "worker_join") /\ pc' = [pc EXCEPT ![t] = Tail(@), !["worker"] = <<>>]
      <4>1. Tail(pc[t]) \in Seq(Steps)
        BY <3>2, <1>p DEF At
      <4>. QED  BY <4>1, <3>2, <1>p, <1>s DEF StacksOK
    <3>. QED  BY <1>2, <3>1, <3>2 DEF StopMessageWorker
  <2>2. QueueOK'
    BY <1>2, QueueKept DEF StopMessageWorker
  <2>3. closed' \in BOOLEAN /\ running' \in BOOLEAN
    BY <1>2 DEF StopMessageWorker, FlagsOK
  <2>. QED  BY <1>2, <2>1, <2>2, <2>3 DEF StopMessageWorker, FlagsOK, StreamOK, MsgOK
<1>3. CASE Publish(t)
  <2>1. StacksOK'
    BY <1>3, <1>s, GoType DEF Publish, At
  <2>2. ix' \in IxType
    BY <1>3 DEF Publish, IxType
  <2>. QED  BY <1>3, <2>1, <2>2 DEF Publish, FlagsOK, QueueOK, StreamOK, MsgOK
<1>4. CASE Disconnect(t)
  <2>1. StacksOK'
    BY <1>4, <1>s, GoType DEF Disconnect, At
  <2>2. ix' \in IxType
    BY <1>4 DEF Disconnect, IxType
  <2>3. FlagsOK'
    BY <1>4 DEF Disconnect, FlagsOK
  <2>. QED  BY <1>4, <2>1, <2>2, <2>3 DEF Disconnect, QueueOK, StreamOK, MsgOK
<1>5. CASE AwaitTransportStop(t)
  <2>1. StacksOK'
    BY <1>5, <1>s, GoType DEF AwaitTransportStop, At
  <2>. QED  BY <1>5, <2>1 DEF AwaitTransportStop, FlagsOK, QueueOK, StreamOK, MsgOK
<1>. QED  BY <1>1, <1>2, <1>3, <1>4, <1>5 DEF TeardownStep

(* The calls of a user thread. *)
LEMMA TypeCall ==
    ASSUME TypeParts, NEW c \in Callers,
           CallStep(c) \/ CallConnect(c) \/ CallDisconnect(c) \/ CallResnapshot(c)
    PROVE  TypeParts'
<1>. USE DEF flagVars, teardownVars, queueVars, streamVars, TypeParts
<1>s. /\ <<>> \in Seq(Steps) /\ <<"await">> \in Seq(Steps) /\ TeardownSteps \in Seq(Steps)
      /\ <<"await", "check">> \in Seq(Steps) /\ <<"check">> \in Seq(Steps)
      /\ <<"retire">> \in Seq(Steps) /\ <<"start">> \in Seq(Steps)
      /\ <<"request", "await", "start">> \in Seq(Steps) /\ <<"connect">> \in Seq(Steps)
      /\ <<"disconnect">> \in Seq(Steps) /\ <<"resnapshot">> \in Seq(Steps)
      /\ <<"launch">> \in Seq(Steps) /\ <<"wait">> \in Seq(Steps)
      /\ <<"loop">> \in Seq(Steps) /\ <<"dial">> \in Seq(Steps)
  BY PushedSteps DEF Steps
<1>p. /\ pc \in [Threads -> Seq(Steps)] /\ c \in Threads
      /\ "ix" \in Threads /\ "worker" \in Threads /\ "teardown" \in Threads
  BY LibraryThreads DEF StacksOK
<1>1. CASE ConnectEntry(c)
  <2>1. StacksOK'
    BY <1>1, <1>s, <1>p, GoType DEF ConnectEntry, At
  <2>. QED  BY <1>1, <2>1 DEF ConnectEntry, FlagsOK, QueueOK, StreamOK, MsgOK
<1>2. CASE ConnectRetire(c)
  <2>1. StacksOK'
    BY <1>2, <1>s, <1>p, GoType DEF ConnectRetire, At
  <2>2. FlagsOK'
    BY <1>2 DEF ConnectRetire, FlagsOK
  <2>. QED  BY <1>2, <2>1, <2>2 DEF ConnectRetire, QueueOK, StreamOK, MsgOK
<1>3. CASE ConnectStart(c)
  <2>1. StacksOK'
    <3>1. CASE Go(c, <<>>) \/ Go(c, <<"await">>) \/ Go(c, TeardownSteps)
      BY <3>1, <1>3, <1>s, <1>p, GoType DEF ConnectStart, At
    <3>2. CASE pc' = [pc EXCEPT ![c] = <<"launch">> \o Tail(@),
                              !["teardown"] = IF active THEN @ ELSE <<"wait">>]
      <4>1. Tail(pc[c]) \in Seq(Steps)
        BY <1>3, <1>p DEF ConnectStart, At
      <4>2. <<"launch">> \o Tail(pc[c]) \in Seq(Steps)
        BY <4>1, <1>s, ConcatSteps
      <4>. QED  BY <4>2, <3>2, <1>p, <1>s DEF StacksOK
    <3>. QED  BY <1>3, <3>1, <3>2 DEF ConnectStart
  <2>2. FlagsOK'
    BY <1>3 DEF ConnectStart, FlagsOK
  <2>. QED  BY <1>3, <2>1, <2>2 DEF ConnectStart, QueueOK, StreamOK, MsgOK
<1>4. CASE ConnectLaunch(c)
  <2>1. StacksOK'
    <3>1. Tail(pc[c]) \in Seq(Steps)
      BY <1>4, <1>p DEF ConnectLaunch, At
    <3>. QED  BY <3>1, <1>4, <1>p, <1>s DEF ConnectLaunch, StacksOK
  <2>2. QueueOK'
    BY <1>4, QueueKept DEF ConnectLaunch
  <2>3. FlagsOK'
    BY <1>4 DEF ConnectLaunch, FlagsOK
  <2>4. ix' \in IxType
    <3>. DEFINE b == pc["ix"] = <<>>
                a == TRUE
    <3>1. a \in BOOLEAN /\ b \in BOOLEAN /\ ReconnectEnabled \in BOOLEAN
      BY OptionsAssumption
    <3>2. ix' = [ix EXCEPT !.auto = @ \/ ReconnectEnabled, !.callback = a, !.first = @ \/ b]
      BY <1>4 DEF ConnectLaunch
    <3>. HIDE DEF a, b
    <3>. QED  BY <3>1, <3>2 DEF IxType
  <2>. QED  BY <1>4, <2>1, <2>2, <2>3, <2>4 DEF ConnectLaunch, StreamOK, MsgOK
<1>5. CASE CallConnect(c) \/ CallDisconnect(c) \/ CallResnapshot(c)
  <2>1. StacksOK'
    BY <1>5, <1>s, <1>p DEF CallConnect, CallDisconnect, CallResnapshot, StacksOK
  <2>. QED  BY <1>5, <2>1 DEF CallConnect, CallDisconnect, CallResnapshot, FlagsOK, QueueOK,
               StreamOK, MsgOK
<1>. QED  BY <1>1, <1>2, <1>3, <1>4, <1>5 DEF CallStep

(* The IXWebSocket thread: what the network does ... *)
LEMMA TypeEnvironment ==
    ASSUME TypeParts, Environment
    PROVE  TypeParts'
<1>. USE DEF flagVars, teardownVars, queueVars, streamVars, TypeParts
<1>s. /\ <<>> \in Seq(Steps) /\ <<"poll">> \in Seq(Steps) /\ <<"dial">> \in Seq(Steps)
      /\ <<"mark", "opened">> \in Seq(Steps) /\ <<"done">> \in Seq(Steps)
      /\ <<"error">> \in Seq(Steps) /\ <<"closed">> \in Seq(Steps) /\ <<"enqueue">> \in Seq(Steps)
      /\ "ix" \in Threads
  BY LibraryThreads DEF Steps
<1>h. ASSUME NEW h \in Seq(Steps), NEW s \in Seq(Steps)
      PROVE  Handler(h) \o s \in Seq(Steps)
  BY <1>s, <1>h, ConcatSteps DEF Handler
<1>1. CASE Dial
  <2>1. Handler(<<"mark", "opened">>) \o <<"poll">> \in Seq(Steps)
    BY <1>s, <1>h
  <2>2. StacksOK'
    BY <1>1, <1>s, <2>1, GoType DEF Dial, At
  <2>3. ix' \in IxType
    <3>. DEFINE b == FALSE
                z == 0
    <3>1. b \in BOOLEAN /\ z \in Nat
      OBVIOUS
    <3>2. \/ ix' = [ix EXCEPT !.conn = "open", !.first = b, !.retries = z, !.subscribed = b]
          \/ ix' = ix
      BY <1>1 DEF Dial
    <3>. HIDE DEF b, z
    <3>3. CASE ix' = ix
      BY <3>3
    <3>4. CASE ix' = [ix EXCEPT !.conn = "open", !.first = b, !.retries = z, !.subscribed = b]
      BY <3>1, <3>4 DEF IxType
    <3>. QED  BY <3>2, <3>3, <3>4
  <2>. QED  BY <1>1, <2>2, <2>3 DEF Dial, FlagsOK, QueueOK, StreamOK, MsgOK
<1>2. CASE DialFails
  <2>1. Handler(<<"error">>) \o <<"dial">> \in Seq(Steps)
    BY <1>s, <1>h
  <2>2. StacksOK'
    BY <1>2, <1>s, <2>1, GoType DEF DialFails, At
  <2>3. ix' \in IxType
    <3>. DEFINE b == FALSE
                n == ix.retries + 1
    <3>1. ix.retries \in Nat
      BY DEF IxType
    <3>2. b \in BOOLEAN /\ n \in Nat
      BY <3>1
    <3>3. ix' = [ix EXCEPT !.first = b, !.retries = n]
      BY <1>2 DEF DialFails
    <3>. HIDE DEF b, n
    <3>. QED  BY <3>2, <3>3 DEF IxType
  <2>. QED  BY <1>2, <2>2, <2>3 DEF DialFails, FlagsOK, QueueOK, StreamOK, MsgOK
<1>3. CASE ConnectionDrops
  <2>1. Handler(<<"closed">>) \o <<"dial">> \in Seq(Steps)
    BY <1>s, <1>h
  <2>2. StacksOK'
    BY <1>3, <1>s, <2>1, GoType DEF ConnectionDrops, At
  <2>3. ix' \in IxType
    BY <1>3 DEF ConnectionDrops, IxType
  <2>. QED  BY <1>3, <2>2, <2>3 DEF ConnectionDrops, FlagsOK, QueueOK, StreamOK, MsgOK
<1>4. CASE Receive
  <2>1. Handler(<<"enqueue">>) \o <<"poll">> \in Seq(Steps)
    BY <1>s, <1>h
  <2>2. StacksOK'
    BY <1>4, <1>s, <2>1, GoType DEF Receive, At
  <2>. QED  BY <1>4, <2>2 DEF Receive, FlagsOK, QueueOK, StreamOK, MsgOK
<1>. QED  BY <1>1, <1>2, <1>3, <1>4 DEF Environment

(* ... and the transport callbacks. *)
LEMMA TypeIx ==
    ASSUME TypeParts, IxStep
    PROVE  TypeParts'
<1>. USE DEF flagVars, teardownVars, queueVars, streamVars, TypeParts
<1>s. /\ <<>> \in Seq(Steps) /\ <<"restore">> \in Seq(Steps) /\ <<"on_connect">> \in Seq(Steps)
      /\ <<"resnapshot">> \in Seq(Steps) /\ <<"on_disconnect">> \in Seq(Steps)
      /\ <<"close_state">> \in Seq(Steps) /\ <<"mark", "close_state">> \in Seq(Steps)
      /\ <<"on_close">> \in Seq(Steps) /\ <<"mark", "error_state">> \in Seq(Steps)
      /\ <<"on_error">> \in Seq(Steps) /\ <<"stamp">> \in Seq(Steps) /\ <<"push">> \in Seq(Steps)
      /\ "ix" \in Threads
  BY LibraryThreads DEF Steps
<1>1. CASE HandleOpen
  <2>1. StacksOK'
    BY <1>1, <1>s, GoType DEF HandleOpen, At
  <2>2. ix' \in IxType
    BY <1>1 DEF HandleOpen, IxType
  <2>3. FlagsOK'
    BY <1>1 DEF HandleOpen, FlagsOK
  <2>. QED  BY <1>1, <2>1, <2>2, <2>3 DEF HandleOpen, QueueOK, StreamOK, MsgOK
<1>2. CASE RestoreSubscriptions
  <2>1. StacksOK'
    BY <1>2, <1>s, GoType DEF RestoreSubscriptions, At
  <2>2. ix' \in IxType
    BY <1>2 DEF RestoreSubscriptions, IxType
  <2>. QED  BY <1>2, <2>1, <2>2 DEF RestoreSubscriptions, FlagsOK, QueueOK, StreamOK, MsgOK
<1>3. CASE TransportCallback
  <2>1. StacksOK'
    BY <1>3, <1>s, GoType, UserCallbackType DEF TransportCallback, At
  <2>. QED  BY <1>3, <2>1 DEF TransportCallback, FlagsOK, QueueOK, StreamOK, MsgOK
<1>4. CASE HandleClose
  <2>1. StacksOK'
    BY <1>4, <1>s, GoType DEF HandleClose, At
  <2>2. FlagsOK'
    BY <1>4 DEF HandleClose, FlagsOK
  <2>. QED  BY <1>4, <2>1, <2>2 DEF HandleClose, QueueOK, StreamOK, MsgOK
<1>5. CASE HandleError
  <2>1. StacksOK'
    BY <1>5, <1>s, GoType DEF HandleError, At
  <2>2. FlagsOK'
    BY <1>5 DEF HandleError, FlagsOK
  <2>3. ix' \in IxType
    BY <1>5 DEF HandleError, IxType
  <2>. QED  BY <1>5, <2>1, <2>2, <2>3 DEF HandleError, QueueOK, StreamOK, MsgOK
<1>6. CASE EnqueueCheck
  <2>1. StacksOK'
    BY <1>6, <1>s, GoType DEF EnqueueCheck, At
  <2>2. StreamOK'
    BY <1>6 DEF EnqueueCheck, StreamOK
  <2>. QED  BY <1>6, <2>1, <2>2 DEF EnqueueCheck, FlagsOK, QueueOK, MsgOK
<1>7. CASE EnqueueStamp
  <2>1. StacksOK'
    BY <1>7, <1>s, GoType DEF EnqueueStamp, At
  <2>2. StreamOK' /\ MsgOK'
    BY <1>7 DEF EnqueueStamp, StreamOK, MsgOK, Messages
  <2>. QED  BY <1>7, <2>1, <2>2 DEF EnqueueStamp, FlagsOK, QueueOK
<1>8. CASE Push
  <2>1. StacksOK'
    BY <1>8, <1>s, GoType DEF Push, At
  <2>2. QueueOK'
    <3>1. CASE queue' = queue \/ queue' = <<>>
      BY <3>1, QueueKept
    <3>2. CASE Len(queue) < QueueLimit /\ queue' = Append(queue, msg["ix"])
      <4>1. msg["ix"] \in Messages
        BY DEF MsgOK
      <4>2. queue \in Seq(Messages) /\ Len(queue) \in Nat
        BY DEF QueueOK
      <4>3. Append(queue, msg["ix"]) \in Seq(Messages)
            /\ Len(Append(queue, msg["ix"])) = Len(queue) + 1
        BY <4>1, <4>2, AppendProperties
      <4>. QED  BY <3>2, <4>2, <4>3, OptionsAssumption DEF QueueOK
    <3>. QED  BY <1>8, <3>1, <3>2 DEF Push
  <2>. QED  BY <1>8, <2>1, <2>2 DEF Push, FlagsOK, StreamOK, MsgOK
<1>. QED  BY <1>1, <1>2, <1>3, <1>4, <1>5, <1>6, <1>7, <1>8 DEF IxStep

(* The message worker. *)
LEMMA TypeWorker ==
    ASSUME TypeParts, WorkerStep
    PROVE  TypeParts'
<1>. USE DEF flagVars, teardownVars, queueVars, streamVars, TypeParts
<1>s. /\ <<>> \in Seq(Steps) /\ <<"pop">> \in Seq(Steps) /\ <<"done">> \in Seq(Steps)
      /\ <<"message", "loop">> \in Seq(Steps) /\ <<"resnapshot", "loop">> \in Seq(Steps)
      /\ <<"resnapshot">> \in Seq(Steps) /\ <<"sequenced">> \in Seq(Steps)
      /\ <<"deliver">> \in Seq(Steps) /\ <<"typed">> \in Seq(Steps)
      /\ "worker" \in Threads
  BY LibraryThreads DEF Steps
<1>1. CASE WorkerLoop
  <2>1. StacksOK'
    BY <1>1, <1>s, GoType DEF WorkerLoop, At
  <2>. QED  BY <1>1, <2>1 DEF WorkerLoop, FlagsOK, QueueOK, StreamOK, MsgOK
<1>2. CASE Pop
  <2>1. StacksOK'
    BY <1>2, <1>s, GoType DEF Pop, At
  <2>2. QueueOK' /\ MsgOK'
    <3>1. CASE queue' = queue /\ msg' = msg
      BY <3>1 DEF QueueOK, MsgOK
    <3>2. CASE /\ queue # <<>> /\ queue' = Tail(queue)
               /\ msg' = [msg EXCEPT !["worker"] = Head(queue)]
      <4>1. queue \in Seq(Messages) /\ Len(queue) \in Nat
        BY DEF QueueOK
      <4>2. /\ Head(queue) \in Messages /\ Tail(queue) \in Seq(Messages)
            /\ Len(Tail(queue)) = Len(queue) - 1
        BY <4>1, <3>2, HeadTailProperties
      <4>. QED  BY <3>2, <4>1, <4>2, OptionsAssumption DEF QueueOK, MsgOK
    <3>. QED  BY <1>2, <3>1, <3>2 DEF Pop
  <2>. QED  BY <1>2, <2>1, <2>2 DEF Pop, FlagsOK, StreamOK
<1>3. CASE DispatchMessage
  <2>1. StacksOK'
    BY <1>3, <1>s, GoType, UserCallbackType DEF DispatchMessage, Callback, At
  <2>. QED  BY <1>3, <2>1 DEF DispatchMessage, FlagsOK, QueueOK, StreamOK, MsgOK
<1>4. CASE Deliver
  <2>1. StacksOK'
    BY <1>4, <1>s, GoType, UserCallbackType DEF Deliver, Callback, At
  <2>2. got' \in Nat
    <3>1. msg["worker"].n \in Nat /\ got \in Nat
      BY DEF MsgOK, Messages, StreamOK
    <3>. QED  BY <1>4, <3>1 DEF Deliver
  <2>3. ordered' \in BOOLEAN
    BY <1>4, Zenon DEF Deliver, StreamOK
  <2>. QED  BY <1>4, <2>1, <2>2, <2>3 DEF Deliver, FlagsOK, QueueOK, StreamOK, MsgOK
<1>. QED  BY <1>1, <1>2, <1>3, <1>4 DEF WorkerStep

(* The transport worker. *)
LEMMA TypeTransport ==
    ASSUME TypeParts, TransportStep
    PROVE  TypeParts'
<1>. USE DEF flagVars, teardownVars, queueVars, streamVars, TypeParts
<1>s. /\ <<>> \in Seq(Steps) /\ TeardownSteps \o <<"final">> \in Seq(Steps)
      /\ "teardown" \in Threads
  <2>1. <<"final">> \in Seq(Steps)
    BY DEF Steps
  <2>. QED  BY <2>1, PushedSteps, ConcatSteps, LibraryThreads
<1>1. CASE TransportWake
  <2>1. StacksOK'
    BY <1>1, <1>s, GoType DEF TransportWake, At
  <2>. QED  BY <1>1, <2>1 DEF TransportWake, FlagsOK, QueueOK, StreamOK, MsgOK
<1>2. CASE TransportFinal
  <2>1. StacksOK'
    BY <1>2, <1>s, GoType DEF TransportFinal, At
  <2>2. FlagsOK'
    BY <1>2 DEF TransportFinal, FlagsOK
  <2>. QED  BY <1>2, <2>1, <2>2 DEF TransportFinal, QueueOK, StreamOK, MsgOK
<1>. QED  BY <1>1, <1>2 DEF TransportStep

LEMMA TypeStep == TypeParts /\ [Next]_vars => TypeParts'
<1>. SUFFICES ASSUME TypeParts, [Next]_vars PROVE TypeParts'  OBVIOUS
<1>1. CASE UNCHANGED vars
  BY <1>1 DEF vars, TypeParts, QueueOK, StreamOK, FlagsOK, StacksOK, MsgOK
<1>2. CASE Next
  BY <1>2, TypeGapStep, TypeTeardown, TypeCall, TypeEnvironment, TypeIx, TypeWorker,
     TypeTransport DEF Next, ThreadStep
<1>. QED  BY <1>1, <1>2

(* WebSocketClient: the members keep their types, and the BoundedMessageQueue never holds
   more than message_queue_limit messages, whichever threads push, pop, discard and stop. *)
THEOREM TypeCorrect == Spec => []TypeOK
<1>1. TypeParts => TypeOK
  BY TypeSplit
<1>. QED  BY <1>1, TypeInit, TypeStep, PTL DEF Spec, Init

-----------------------------------------------------------------------------
(* A stop finishes.                                                        *)
(*                                                                         *)
(* With one user thread, and callbacks that do not stop the client, the    *)
(* thread that asks the transport worker for a teardown waits for its end, *)
(* so nothing happens between the publication of DISCONNECTED and the end  *)
(* of the worker.  (Run ws_stop_stranded shows what happens otherwise.)    *)

OneCaller(c) == Callers = {c} /\ ~CallbackStops

(* What finish_disconnect still has to do. *)
DisconnectStacks ==
    {TeardownSteps,
     <<"ws_join", "worker_stop", "worker_join", "reset", "clear", "publish">>,
     <<"worker_stop", "worker_join", "reset", "clear", "publish">>,
     <<"worker_join", "reset", "clear", "publish">>,
     <<"reset", "clear", "publish">>, <<"clear", "publish">>, <<"publish">>}

(* What the transport worker still has to do: before it has joined the IX thread ... *)
JoinStacks ==
    {<<"ws_stop", "ws_join", "worker_stop", "worker_join", "reset", "clear", "publish", "final">>,
     <<"ws_join", "worker_stop", "worker_join", "reset", "clear", "publish", "final">>}
(* ... and afterwards. *)
JoinedStacks ==
    {<<"worker_stop", "worker_join", "reset", "clear", "publish", "final">>,
     <<"worker_join", "reset", "clear", "publish", "final">>,
     <<"reset", "clear", "publish", "final">>, <<"clear", "publish", "final">>,
     <<"publish", "final">>, <<"final">>}

(* What a user thread still has to do in a connect, a disconnect or a request_resnapshot. *)
AwaitStacks == {<<"await">>, <<"await", "check">>, <<"await", "start">>}
CallStacks ==
    {<<>>, <<"connect">>, <<"check">>, <<"retire">>, <<"request", "await", "start">>,
     <<"start">>, <<"launch">>, <<"disconnect">>, <<"resnapshot">>, <<"exchange">>,
     <<"mark", "close">>, <<"discard", "close">>, <<"gap", "close">>, <<"close">>}

(* What the IX thread and the message worker do: a disconnect only in a callback. *)
LibrarySteps ==
    (IF CallbackStops THEN {"disconnect"} ELSE {}) \cup
    {"mark", "discard", "gap", "resnapshot", "exchange", "close", "dial", "poll", "opened",
     "restore", "on_connect", "closed", "close_state", "on_close", "on_disconnect", "error",
     "error_state", "on_error", "enqueue", "stamp", "push", "loop", "pop", "message",
     "sequenced", "deliver", "typed", "done"}

StopShapes(c) ==
    /\ pc[c] \in CallStacks \cup AwaitStacks \cup DisconnectStacks
    /\ pc["teardown"] \in {<<>>, <<"wait">>} \cup JoinStacks \cup JoinedStacks
    /\ pc["ix"] \in Seq(LibrarySteps) /\ pc["worker"] \in Seq(LibrarySteps)

(* A teardown is asked for by the one caller, who then waits for it. *)
StopWaits(c) ==
    /\ stopping => requested
    /\ requested => active /\ pc[c] \in AwaitStacks
    /\ pc["teardown"] \in JoinStacks \cup JoinedStacks => requested
    /\ pc[c] = <<"launch">> => active

(* A transport worker that ends leaves no IX thread, and the state it published. *)
StopLeaves(c) ==
    /\ pc["teardown"] \in JoinedStacks => pc["ix"] = <<>>
    /\ pc["teardown"] = <<"final">> => state = "DISCONNECTED"
    /\ ~active => /\ pc["ix"] = <<>>
                  /\ state = "DISCONNECTED" \/ pc[c] \in DisconnectStacks

StopInv(c) == TypeParts /\ StopShapes(c) /\ StopWaits(c) /\ StopLeaves(c)

LEMMA CallerAt ==
    ASSUME NEW c, pc[c] \in CallStacks \cup AwaitStacks \cup DisconnectStacks
    PROVE  /\ At(c, "connect") => pc[c] = <<"connect">>
           /\ At(c, "check") => pc[c] = <<"check">>
           /\ At(c, "retire") => pc[c] = <<"retire">>
           /\ At(c, "request") => pc[c] = <<"request", "await", "start">>
           /\ At(c, "await") => pc[c] \in AwaitStacks
           /\ At(c, "start") => pc[c] = <<"start">>
           /\ At(c, "launch") => pc[c] = <<"launch">>
           /\ At(c, "disconnect") => pc[c] = <<"disconnect">>
           /\ At(c, "resnapshot") => pc[c] = <<"resnapshot">>
           /\ At(c, "exchange") => pc[c] = <<"exchange">>
           /\ At(c, "mark") => pc[c] = <<"mark", "close">>
           /\ At(c, "discard") => pc[c] = <<"discard", "close">>
           /\ At(c, "gap") => pc[c] = <<"gap", "close">>
           /\ At(c, "close") => pc[c] = <<"close">>
           /\ pc[c] = <<>> => pc[c] \in CallStacks
BY DEF At, CallStacks, AwaitStacks, DisconnectStacks, TeardownSteps

LEMMA CallerTearsDown ==
    ASSUME NEW c, pc[c] \in CallStacks \cup AwaitStacks \cup DisconnectStacks
    PROVE  /\ At(c, "ws_stop") => pc[c] = TeardownSteps
           /\ At(c, "ws_join") =>
                pc[c] = <<"ws_join", "worker_stop", "worker_join", "reset", "clear", "publish">>
           /\ At(c, "worker_stop") =>
                pc[c] = <<"worker_stop", "worker_join", "reset", "clear", "publish">>
           /\ At(c, "worker_join") => pc[c] = <<"worker_join", "reset", "clear", "publish">>
           /\ At(c, "reset") => pc[c] = <<"reset", "clear", "publish">>
           /\ At(c, "clear") => pc[c] = <<"clear", "publish">>
           /\ At(c, "publish") => pc[c] = <<"publish">>
BY DEF At, CallStacks, AwaitStacks, DisconnectStacks, TeardownSteps

LEMMA TransportAt ==
    ASSUME pc["teardown"] \in {<<>>, <<"wait">>} \cup JoinStacks \cup JoinedStacks
    PROVE  /\ At("teardown", "wait") => pc["teardown"] = <<"wait">>
           /\ At("teardown", "ws_stop") =>
                pc["teardown"] = <<"ws_stop", "ws_join", "worker_stop", "worker_join", "reset",
                                   "clear", "publish", "final">>
           /\ At("teardown", "ws_join") =>
                pc["teardown"] = <<"ws_join", "worker_stop", "worker_join", "reset", "clear",
                                   "publish", "final">>
           /\ At("teardown", "worker_stop") =>
                pc["teardown"] = <<"worker_stop", "worker_join", "reset", "clear", "publish",
                                   "final">>
           /\ At("teardown", "worker_join") =>
                pc["teardown"] = <<"worker_join", "reset", "clear", "publish", "final">>
           /\ At("teardown", "reset") =>
                pc["teardown"] = <<"reset", "clear", "publish", "final">>
           /\ At("teardown", "clear") => pc["teardown"] = <<"clear", "publish", "final">>
           /\ At("teardown", "publish") => pc["teardown"] = <<"publish", "final">>
           /\ At("teardown", "final") => pc["teardown"] = <<"final">>
           /\ \A x \in {"mark", "discard", "gap", "resnapshot", "exchange", "close", "await",
                        "disconnect"} : ~At("teardown", x)
BY DEF At, JoinStacks, JoinedStacks

(* The whole of finish_disconnect, on top of another step. *)
LEMMA TeardownOnTop ==
    ASSUME NEW x \in Steps
    PROVE  TeardownSteps \o <<x>>
             = <<"ws_stop", "ws_join", "worker_stop", "worker_join", "reset", "clear", "publish",
                 x>>
<1>. DEFINE r == TeardownSteps
            f == <<x>>
            w == <<"ws_stop", "ws_join", "worker_stop", "worker_join", "reset", "clear",
                   "publish", x>>
<1>1. r \in Seq(Steps) /\ f \in Seq(Steps) /\ w \in Seq(Steps)
  BY DEF TeardownSteps, Steps
<1>2. Len(r) = 7 /\ Len(f) = 1 /\ Len(w) = 8
  BY DEF TeardownSteps
<1>3. /\ r \o f \in Seq(Steps) /\ Len(r \o f) = 8
      /\ \A i \in 1 .. 8 : (r \o f)[i] = IF i <= 7 THEN r[i] ELSE f[i - 7]
  <2>. HIDE DEF r, f, w
  <2>1. /\ r \o f \in Seq(Steps) /\ Len(r \o f) = Len(r) + Len(f)
        /\ \A i \in 1 .. Len(r) + Len(f) :
             (r \o f)[i] = IF i <= Len(r) THEN r[i] ELSE f[i - Len(r)]
    BY <1>1, ConcatProperties
  <2>. QED  BY <1>2, <2>1
<1>4. \A i \in 1 .. 8 : (r \o f)[i] = w[i]
  <2>. SUFFICES ASSUME NEW i \in 1 .. 8 PROVE (r \o f)[i] = w[i]  OBVIOUS
  <2>1. (r \o f)[i] = IF i <= 7 THEN r[i] ELSE f[i - 7]
    BY <1>3
  <2>2. i \in {1, 2, 3, 4, 5, 6, 7, 8}
    OBVIOUS
  <2>. QED  BY <2>1, <2>2 DEF TeardownSteps
<1>. HIDE DEF r, f, w
<1>5. r \o f = w
  BY <1>1, <1>2, <1>3, <1>4, SeqEqual
<1>. QED  BY <1>5 DEF r, f, w

(* ... as the transport worker does it. *)
LEMMA WholeTeardown ==
    TeardownSteps \o <<"final">>
        = <<"ws_stop", "ws_join", "worker_stop", "worker_join", "reset", "clear", "publish",
            "final">>
<1>1. "final" \in Steps
  BY DEF Steps
<1>. QED  BY <1>1, TeardownOnTop

(* A step that is the last of its stack is replaced by `next' alone. *)
LEMMA GoAlone ==
    ASSUME StacksOK, NEW t \in Threads, NEW x, pc[t] = <<x>>, NEW next \in Seq(Steps),
           Go(t, next)
    PROVE  pc' = [pc EXCEPT ![t] = next] /\ pc'[t] = next
<1>1. Tail(pc[t]) = <<>>
  OBVIOUS
<1>2. next \o Tail(pc[t]) = next
  BY <1>1, ConcatProperties
<1>. QED  BY <1>2 DEF Go, StacksOK

(* A step that ends leaves the rest of its stack. *)
LEMMA GoOn ==
    ASSUME StacksOK, NEW t \in Threads, pc[t] # <<>>, Go(t, <<>>)
    PROVE  pc' = [pc EXCEPT ![t] = Tail(@)] /\ pc'[t] = Tail(pc[t])
<1>1. Tail(pc[t]) \in Seq(Steps)
  BY DEF StacksOK
<1>2. <<>> \o Tail(pc[t]) = Tail(pc[t])
  BY <1>1, ConcatProperties
<1>. QED  BY <1>2 DEF Go, StacksOK

LEMMA CallerIsUser ==
    ASSUME NEW c, Callers = {c}
    PROVE  /\ c \in Threads /\ c \notin {"ix", "worker", "teardown"}
           /\ Threads = {c, "ix", "worker", "teardown"}
BY OptionsAssumption DEF Threads

(* A library thread goes on with library steps. *)
LEMMA LibraryGo ==
    ASSUME StacksOK, NEW t \in {"ix", "worker"}, pc[t] \in Seq(LibrarySteps), pc[t] # <<>>,
           NEW next \in Seq(LibrarySteps), Go(t, next)
    PROVE  \E s \in Seq(LibrarySteps) : pc' = [pc EXCEPT ![t] = s]
<1>1. Tail(pc[t]) \in Seq(LibrarySteps)
  OBVIOUS
<1>2. next \o Tail(pc[t]) \in Seq(LibrarySteps)
  BY <1>1, ConcatProperties
<1>. QED  BY <1>2 DEF Go

LEMMA LibraryAt ==
    ASSUME NEW t, pc[t] \in Seq(LibrarySteps), NEW x, At(t, x)
    PROVE  x \in LibrarySteps
BY DEF At

(* A callback returns, or calls disconnect first. *)
LEMMA LibraryCallback ==
    ASSUME NEW t, NEW next \in Seq(LibrarySteps), UserCallback(t, next)
    PROVE  \E s \in Seq(LibrarySteps) : Go(t, s)
<1>1. CASE Go(t, next)
  BY <1>1
<1>2. CASE CallbackStops /\ Go(t, <<"disconnect">> \o next)
  <2>1. <<"disconnect">> \in Seq(LibrarySteps)
    BY <1>2 DEF LibrarySteps
  <2>2. <<"disconnect">> \o next \in Seq(LibrarySteps)
    BY <2>1, ConcatProperties
  <2>. QED  BY <1>2, <2>2
<1>. QED  BY <1>1, <1>2 DEF UserCallback

(* The IX thread's own steps. *)
LEMMA IxGoes ==
    ASSUME IxStep \/ Environment \/ GapStep("ix")
    PROVE  /\ pc["ix"] # <<>>
           /\ UNCHANGED <<stopping, active, requested>>
           /\ \E next \in Seq(LibrarySteps) : Go("ix", next)
<1>. USE DEF flagVars, teardownVars, At
<1>s. /\ <<>> \in Seq(LibrarySteps) /\ <<"restore">> \in Seq(LibrarySteps)
      /\ <<"on_connect">> \in Seq(LibrarySteps) /\ <<"resnapshot">> \in Seq(LibrarySteps)
      /\ <<"on_disconnect">> \in Seq(LibrarySteps) /\ <<"close_state">> \in Seq(LibrarySteps)
      /\ <<"mark", "close_state">> \in Seq(LibrarySteps) /\ <<"on_close">> \in Seq(LibrarySteps)
      /\ <<"mark", "error_state">> \in Seq(LibrarySteps) /\ <<"on_error">> \in Seq(LibrarySteps)
      /\ <<"stamp">> \in Seq(LibrarySteps) /\ <<"push">> \in Seq(LibrarySteps)
      /\ <<"done">> \in Seq(LibrarySteps) /\ <<"discard">> \in Seq(LibrarySteps)
      /\ <<"gap">> \in Seq(LibrarySteps) /\ <<"exchange">> \in Seq(LibrarySteps)
      /\ <<"mark", "close">> \in Seq(LibrarySteps)
  BY DEF LibrarySteps
<1>h. /\ Handler(<<"mark", "opened">>) \o <<"poll">> \in Seq(LibrarySteps)
      /\ Handler(<<"error">>) \o <<"dial">> \in Seq(LibrarySteps)
      /\ Handler(<<"closed">>) \o <<"dial">> \in Seq(LibrarySteps)
      /\ Handler(<<"enqueue">>) \o <<"poll">> \in Seq(LibrarySteps)
  <2>1. /\ <<>> \in Seq(LibrarySteps) /\ <<"mark", "opened">> \in Seq(LibrarySteps)
        /\ <<"error">> \in Seq(LibrarySteps) /\ <<"closed">> \in Seq(LibrarySteps)
        /\ <<"enqueue">> \in Seq(LibrarySteps) /\ <<"poll">> \in Seq(LibrarySteps)
        /\ <<"dial">> \in Seq(LibrarySteps)
    BY DEF LibrarySteps
  <2>2. ASSUME NEW h \in Seq(LibrarySteps), NEW s \in Seq(LibrarySteps)
        PROVE  Handler(h) \o s \in Seq(LibrarySteps)
    BY <2>1, <2>2, ConcatProperties DEF Handler
  <2>. QED  BY <2>1, <2>2
<1>1. CASE GapStep("ix")
  BY <1>1, <1>s, LibraryCallback DEF GapStep, MarkGap, DiscardPending, StreamGapCallback,
     ResnapshotCheck, ResnapshotExchange, ResnapshotClose
<1>2. CASE Environment
  BY <1>2, <1>s, <1>h DEF Environment, Dial, DialFails, ConnectionDrops, Receive
<1>3. CASE HandleOpen
  BY <1>3, <1>s DEF HandleOpen
<1>4. CASE RestoreSubscriptions
  BY <1>4, <1>s DEF RestoreSubscriptions
<1>5. CASE TransportCallback
  BY <1>5, <1>s, LibraryCallback DEF TransportCallback
<1>6. CASE HandleClose
  BY <1>6, <1>s DEF HandleClose
<1>7. CASE HandleError
  BY <1>7, <1>s DEF HandleError
<1>8. CASE EnqueueCheck \/ EnqueueStamp \/ Push
  BY <1>8, <1>s DEF EnqueueCheck, EnqueueStamp, Push
<1>. QED  BY <1>1, <1>2, <1>3, <1>4, <1>5, <1>6, <1>7, <1>8 DEF IxStep

(* The message worker's own steps. *)
LEMMA WorkerGoes ==
    ASSUME WorkerStep \/ GapStep("worker")
    PROVE  /\ pc["worker"] # <<>>
           /\ UNCHANGED <<state, stopping, active, requested>>
           /\ \E next \in Seq(LibrarySteps) : Go("worker", next)
<1>. USE DEF flagVars, teardownVars, At
<1>s. /\ <<>> \in Seq(LibrarySteps) /\ <<"pop">> \in Seq(LibrarySteps)
      /\ <<"done">> \in Seq(LibrarySteps) /\ <<"message", "loop">> \in Seq(LibrarySteps)
      /\ <<"resnapshot", "loop">> \in Seq(LibrarySteps) /\ <<"resnapshot">> \in Seq(LibrarySteps)
      /\ <<"sequenced">> \in Seq(LibrarySteps) /\ <<"deliver">> \in Seq(LibrarySteps)
      /\ <<"typed">> \in Seq(LibrarySteps) /\ <<"discard">> \in Seq(LibrarySteps)
      /\ <<"gap">> \in Seq(LibrarySteps) /\ <<"exchange">> \in Seq(LibrarySteps)
      /\ <<"mark", "close">> \in Seq(LibrarySteps)
  BY DEF LibrarySteps
<1>1. CASE GapStep("worker")
  BY <1>1, <1>s, LibraryCallback DEF GapStep, MarkGap, DiscardPending, StreamGapCallback,
     ResnapshotCheck, ResnapshotExchange, ResnapshotClose
<1>2. CASE WorkerLoop \/ Pop
  BY <1>2, <1>s DEF WorkerLoop, Pop
<1>3. CASE DispatchMessage
  BY <1>3, <1>s, LibraryCallback DEF DispatchMessage, Callback
<1>4. CASE Deliver
  BY <1>4, <1>s, LibraryCallback DEF Deliver, Callback
<1>. QED  BY <1>1, <1>2, <1>3, <1>4 DEF WorkerStep

(* A step of the IX thread, which exists only beside a transport worker that has not
   joined it, may publish any state. *)
LEMMA StopIx ==
    ASSUME NEW c, OneCaller(c), StopInv(c), TypeParts',
           IxStep \/ Environment \/ GapStep("ix")
    PROVE  StopInv(c)'
<1>1. /\ pc["ix"] # <<>> /\ stopping' = stopping /\ active' = active
      /\ requested' = requested /\ \E next \in Seq(LibrarySteps) : Go("ix", next)
  BY IxGoes
<1>2. PICK s \in Seq(LibrarySteps) : pc' = [pc EXCEPT !["ix"] = s]
  BY <1>1, LibraryGo DEF StopInv, StopShapes, TypeParts
<1>3. /\ pc'[c] = pc[c] /\ pc'["teardown"] = pc["teardown"] /\ pc'["worker"] = pc["worker"]
      /\ pc'["ix"] \in Seq(LibrarySteps)
  BY <1>2, CallerIsUser DEF OneCaller, StopInv, TypeParts, StacksOK
<1>4. active /\ pc["teardown"] \notin JoinedStacks
  BY <1>1 DEF StopInv, StopLeaves
<1>5. pc["teardown"] # <<"final">>
  BY <1>4 DEF JoinedStacks
<1>6. StopShapes(c)'
  BY <1>3 DEF StopShapes, StopInv
<1>7. StopWaits(c)'
  BY <1>1, <1>3 DEF StopWaits, StopInv
<1>8. StopLeaves(c)'
  BY <1>1, <1>3, <1>4, <1>5 DEF StopLeaves
<1>. QED  BY <1>6, <1>7, <1>8 DEF StopInv

LEMMA StopWorker ==
    ASSUME NEW c, OneCaller(c), StopInv(c), TypeParts',
           WorkerStep \/ GapStep("worker")
    PROVE  StopInv(c)'
<1>1. /\ pc["worker"] # <<>> /\ stopping' = stopping /\ active' = active /\ state' = state
      /\ requested' = requested /\ \E next \in Seq(LibrarySteps) : Go("worker", next)
  BY WorkerGoes
<1>2. PICK s \in Seq(LibrarySteps) : pc' = [pc EXCEPT !["worker"] = s]
  BY <1>1, LibraryGo DEF StopInv, StopShapes, TypeParts
<1>3. /\ pc'[c] = pc[c] /\ pc'["teardown"] = pc["teardown"] /\ pc'["ix"] = pc["ix"]
      /\ pc'["worker"] \in Seq(LibrarySteps)
  BY <1>2, CallerIsUser DEF OneCaller, StopInv, TypeParts, StacksOK
<1>6. StopShapes(c)'
  BY <1>3 DEF StopShapes, StopInv
<1>7. StopWaits(c)'
  BY <1>1, <1>3 DEF StopWaits, StopInv
<1>8. StopLeaves(c)'
  BY <1>1, <1>3 DEF StopLeaves, StopInv
<1>. QED  BY <1>6, <1>7, <1>8 DEF StopInv

(* The transport worker wakes, tears down and ends. *)
LEMMA StopTransport ==
    ASSUME NEW c, OneCaller(c), StopInv(c), TypeParts',
           TransportStep \/ ThreadStep("teardown")
    PROVE  StopInv(c)'
<1>. DEFINE d == pc["teardown"]
<1>c. /\ c # "teardown" /\ c # "ix" /\ c # "worker" /\ c \in Threads
      /\ "teardown" \in Threads /\ "ix" \in Threads /\ "worker" \in Threads
  BY CallerIsUser, LibraryThreads DEF OneCaller
<1>t. StacksOK /\ pc \in [Threads -> Seq(Steps)]
  BY DEF StopInv, TypeParts, StacksOK
<1>d. d \in {<<>>, <<"wait">>} \cup JoinStacks \cup JoinedStacks
  BY DEF StopInv, StopShapes
<1>s. /\ pc[c] \in CallStacks \cup AwaitStacks \cup DisconnectStacks
      /\ pc["ix"] \in Seq(LibrarySteps) /\ pc["worker"] \in Seq(LibrarySteps)
  BY DEF StopInv, StopShapes
<1>e. <<>> \in Seq(LibrarySteps) /\ <<>> \in Seq(Steps)
  OBVIOUS
<1>1. CASE TransportWake
  <2>1. d = <<"wait">> /\ requested
    BY <1>1, <1>d, TransportAt DEF TransportWake
  <2>2. TeardownSteps \o <<"final">> \in Seq(Steps)
    <3>1. <<"final">> \in Seq(Steps)
      BY DEF Steps
    <3>. QED  BY <3>1, PushedSteps, ConcatSteps
  <2>3. pc' = [pc EXCEPT !["teardown"] = TeardownSteps \o <<"final">>]
    BY <1>1, <1>t, <1>c, <2>1, <2>2, GoAlone DEF TransportWake
  <2>4. /\ pc'["teardown"] \in JoinStacks /\ pc'["teardown"] \notin JoinedStacks
        /\ pc'["teardown"] # <<"final">>
    BY <2>3, <1>t, <1>c, WholeTeardown DEF JoinStacks, JoinedStacks
  <2>5. pc'[c] = pc[c] /\ pc'["ix"] = pc["ix"] /\ pc'["worker"] = pc["worker"]
    BY <2>3, <1>t, <1>c
  <2>6. /\ state' = state /\ stopping' = stopping /\ active' = active /\ requested' = requested
    BY <1>1 DEF TransportWake, flagVars, teardownVars
  <2>7. StopShapes(c)'
    BY <2>4, <2>5, <1>s DEF StopShapes
  <2>8. StopWaits(c)'
    BY <2>1, <2>4, <2>5, <2>6 DEF StopWaits, StopInv
  <2>9. StopLeaves(c)'
    BY <2>4, <2>5, <2>6 DEF StopLeaves, StopInv
  <2>. QED  BY <2>7, <2>8, <2>9 DEF StopInv
<1>2. CASE TransportFinal
  <2>1. d = <<"final">>
    BY <1>2, <1>d, TransportAt DEF TransportFinal
  <2>2. pc' = [pc EXCEPT !["teardown"] = <<>>]
    BY <1>2, <1>t, <1>c, <1>e, <2>1, GoAlone DEF TransportFinal
  <2>3. d \in JoinedStacks
    BY <2>1 DEF JoinedStacks
  <2>4. pc["ix"] = <<>> /\ state = "DISCONNECTED" /\ requested /\ pc[c] \in AwaitStacks
    BY <2>1, <2>3 DEF StopInv, StopLeaves, StopWaits
  <2>5. /\ pc'["teardown"] = <<>> /\ pc'[c] = pc[c] /\ pc'["ix"] = pc["ix"]
        /\ pc'["worker"] = pc["worker"]
    BY <2>2, <1>t, <1>c
  <2>6. state' = state /\ ~stopping' /\ ~active' /\ ~requested'
    BY <1>2 DEF TransportFinal
  <2>7. /\ pc'["teardown"] \notin JoinStacks \cup JoinedStacks /\ pc'["teardown"] # <<"final">>
        /\ pc'[c] # <<"launch">>
    BY <2>4, <2>5 DEF JoinStacks, JoinedStacks, AwaitStacks
  <2>8. StopShapes(c)'
    BY <2>5, <1>s DEF StopShapes
  <2>9. StopWaits(c)'
    BY <2>6, <2>7 DEF StopWaits
  <2>10. StopLeaves(c)'
    BY <2>4, <2>5, <2>6, <2>7 DEF StopLeaves
  <2>. QED  BY <2>8, <2>9, <2>10 DEF StopInv
<1>3. CASE TeardownStep("teardown")
  <2>1. /\ d # <<>> /\ pc'["teardown"] = Tail(d) /\ pc'[c] = pc[c]
        /\ UNCHANGED <<stopping, active, requested>>
        /\ pc'["ix"] \in {pc["ix"], <<>>} /\ pc'["worker"] \in {pc["worker"], <<>>}
        /\ d \in JoinStacks \cup JoinedStacks
    <3>1. CASE WsStop("teardown")
      <4>1. d # <<>> /\ d \in JoinStacks
        BY <3>1, <1>d, TransportAt DEF WsStop, At, JoinStacks
      <4>2. CASE Go("teardown", <<>>)
        BY <4>1, <4>2, <3>1, <1>t, <1>c, GoOn DEF WsStop, flagVars, teardownVars
      <4>3. CASE pc' = [pc EXCEPT !["teardown"] = Tail(@), !["ix"] = <<>>]
        BY <4>1, <4>3, <3>1, <1>t, <1>c DEF WsStop, flagVars, teardownVars
      <4>. QED  BY <3>1, <4>2, <4>3 DEF WsStop
    <3>2. CASE StopMessageWorker("teardown")
      <4>1. d # <<>> /\ d \in JoinedStacks
        BY <3>2, <1>d, TransportAt DEF StopMessageWorker, At, JoinedStacks
      <4>2. CASE Go("teardown", <<>>)
        BY <4>1, <4>2, <3>2, <1>t, <1>c, GoOn DEF StopMessageWorker, flagVars, teardownVars
      <4>3. CASE pc' = [pc EXCEPT !["teardown"] = Tail(@), !["worker"] = <<>>]
        BY <4>1, <4>3, <3>2, <1>t, <1>c DEF StopMessageWorker, flagVars, teardownVars
      <4>. QED  BY <3>2, <4>2, <4>3 DEF StopMessageWorker
    <3>3. CASE Publish("teardown")
      <4>1. d # <<>> /\ d \in JoinedStacks
        BY <3>3, <1>d, TransportAt DEF Publish, At, JoinedStacks
      <4>. QED  BY <4>1, <3>3, <1>t, <1>c, GoOn DEF Publish, flagVars, teardownVars
    <3>. QED  BY <1>3, <3>1, <3>2, <3>3 DEF TeardownStep
  <2>2. requested /\ active /\ pc[c] \in AwaitStacks
    BY <2>1 DEF StopInv, StopWaits
  <2>3. /\ Tail(d) \in {<<>>, <<"wait">>} \cup JoinStacks \cup JoinedStacks
        /\ Tail(d) \in JoinedStacks => d \in JoinedStacks \/ At("teardown", "ws_join")
        /\ Tail(d) = <<"final">> => At("teardown", "publish")
    <3>1. d # <<"final">>
      BY <1>3 DEF TeardownStep, WsStop, StopMessageWorker, Publish, At
    <3>2. CASE d = <<"ws_stop", "ws_join", "worker_stop", "worker_join", "reset", "clear",
                     "publish", "final">>
      <4>1. Tail(d) = <<"ws_join", "worker_stop", "worker_join", "reset", "clear", "publish",
                        "final">> /\ Head(d) = "ws_stop"
        BY <3>2
      <4>. QED  BY <2>1, <3>2, <4>1 DEF JoinStacks, JoinedStacks, At
    <3>3. CASE d = <<"ws_join", "worker_stop", "worker_join", "reset", "clear", "publish", "final">>
      <4>1. Tail(d) = <<"worker_stop", "worker_join", "reset", "clear", "publish", "final">>
              /\ Head(d) = "ws_join"
        BY <3>3
      <4>. QED  BY <2>1, <3>3, <4>1 DEF JoinStacks, JoinedStacks, At
    <3>4. CASE d = <<"worker_stop", "worker_join", "reset", "clear", "publish", "final">>
      <4>1. Tail(d) = <<"worker_join", "reset", "clear", "publish", "final">>
              /\ Head(d) = "worker_stop"
        BY <3>4
      <4>. QED  BY <2>1, <3>4, <4>1 DEF JoinStacks, JoinedStacks, At
    <3>5. CASE d = <<"worker_join", "reset", "clear", "publish", "final">>
      <4>1. Tail(d) = <<"reset", "clear", "publish", "final">> /\ Head(d) = "worker_join"
        BY <3>5
      <4>. QED  BY <2>1, <3>5, <4>1 DEF JoinStacks, JoinedStacks, At
    <3>6. CASE d = <<"reset", "clear", "publish", "final">>
      <4>1. Tail(d) = <<"clear", "publish", "final">> /\ Head(d) = "reset"
        BY <3>6
      <4>. QED  BY <2>1, <3>6, <4>1 DEF JoinStacks, JoinedStacks, At
    <3>7. CASE d = <<"clear", "publish", "final">>
      <4>1. Tail(d) = <<"publish", "final">> /\ Head(d) = "clear"
        BY <3>7
      <4>. QED  BY <2>1, <3>7, <4>1 DEF JoinStacks, JoinedStacks, At
    <3>8. CASE d = <<"publish", "final">>
      <4>1. Tail(d) = <<"final">> /\ Head(d) = "publish"
        BY <3>8
      <4>. QED  BY <2>1, <3>8, <4>1 DEF JoinStacks, JoinedStacks, At
    <3>. QED  BY <2>1, <3>1, <3>2, <3>3, <3>4, <3>5, <3>6, <3>7, <3>8 DEF JoinStacks, JoinedStacks
  <2>4. At("teardown", "ws_join") => pc'["ix"] = <<>>
    BY <1>3, <1>c, <1>t DEF TeardownStep, WsStop, StopMessageWorker, Publish, At
  <2>5. At("teardown", "publish") => state' = "DISCONNECTED"
    BY <1>3 DEF TeardownStep, WsStop, StopMessageWorker, Publish, At
  <2>6. pc'["ix"] = <<>> \/ ~(Tail(d) \in JoinedStacks)
    BY <2>1, <2>3, <2>4 DEF StopInv, StopLeaves
  <2>7. StopShapes(c)'
    BY <2>1, <2>3, <1>s, <1>e DEF StopShapes
  <2>8. StopWaits(c)'
    BY <2>1, <2>2 DEF StopWaits, StopInv
  <2>9. StopLeaves(c)'
    BY <2>1, <2>2, <2>3, <2>5, <2>6 DEF StopLeaves
  <2>. QED  BY <2>7, <2>8, <2>9 DEF StopInv
<1>4. ~(GapStep("teardown") \/ Disconnect("teardown") \/ AwaitTransportStop("teardown"))
  BY <1>d, TransportAt DEF GapStep, MarkGap, DiscardPending, StreamGapCallback, ResnapshotCheck,
     ResnapshotExchange, ResnapshotClose, Disconnect, AwaitTransportStop
<1>. QED  BY <1>1, <1>2, <1>3, <1>4 DEF TransportStep, ThreadStep

(* One step on top of another. *)
LEMMA PairConcat ==
    ASSUME NEW a, NEW b
    PROVE  <<a>> \o <<b>> = <<a, b>>
<1>. DEFINE S == {a, b}
            r == <<a>>
            s == <<b>>
            w == <<a, b>>
<1>1. /\ r \in Seq(S) /\ s \in Seq(S) /\ w \in Seq(S)
      /\ Len(r) = 1 /\ Len(s) = 1 /\ Len(w) = 2
      /\ r[1] = a /\ s[1] = b /\ w[1] = a /\ w[2] = b
  OBVIOUS
<1>. HIDE DEF S, r, s, w
<1>2. /\ r \o s \in Seq(S) /\ Len(r \o s) = Len(r) + Len(s)
      /\ \A i \in 1 .. Len(r) + Len(s) :
           (r \o s)[i] = IF i <= Len(r) THEN r[i] ELSE s[i - Len(r)]
  BY <1>1, ConcatProperties
<1>3. Len(r \o s) = 2 /\ (r \o s)[1] = a /\ (r \o s)[2] = b
  BY <1>1, <1>2
<1>4. \A i \in 1 .. Len(w) : (r \o s)[i] = w[i]
  <2>. SUFFICES ASSUME NEW i \in 1 .. Len(w) PROVE (r \o s)[i] = w[i]  OBVIOUS
  <2>1. i = 1 \/ i = 2
    BY <1>1
  <2>. QED  BY <2>1, <1>1, <1>3
<1>5. r \o s = w
  BY <1>1, <1>2, <1>3, <1>4, SeqEqual
<1>. QED  BY <1>5 DEF r, s, w

LEMMA StacksDisjoint ==
    /\ \A s \in CallStacks : s \notin AwaitStacks /\ s \notin DisconnectStacks
    /\ \A s \in AwaitStacks : s \notin CallStacks /\ s \notin DisconnectStacks /\ s # <<"launch">>
    /\ \A s \in DisconnectStacks : s \notin AwaitStacks /\ s # <<"launch">> /\ s # <<>>
    /\ \A s \in {<<>>, <<"wait">>} :
          s \notin JoinStacks /\ s \notin JoinedStacks /\ s # <<"final">>
    /\ \A s \in JoinStacks \cup JoinedStacks : s # <<>> /\ s # <<"wait">>
BY DEF CallStacks, AwaitStacks, DisconnectStacks, JoinStacks, JoinedStacks, TeardownSteps

(* A caller that waits for no teardown has asked for none. *)
LEMMA NotWaiting ==
    ASSUME NEW c, StopInv(c), pc[c] \notin AwaitStacks
    PROVE  /\ ~requested /\ ~stopping
           /\ pc["teardown"] \in {<<>>, <<"wait">>}
           /\ pc["teardown"] \notin JoinStacks \cup JoinedStacks
           /\ pc["teardown"] # <<"final">>
<1>1. ~requested /\ ~stopping /\ pc["teardown"] \notin JoinStacks \cup JoinedStacks
  BY DEF StopInv, StopWaits
<1>2. pc["teardown"] \in {<<>>, <<"wait">>}
  BY <1>1 DEF StopInv, StopShapes
<1>. QED  BY <1>1, <1>2, StacksDisjoint

(* The caller goes from one step of a call to another and changes nothing else. *)
LEMMA StopCallGoes ==
    ASSUME NEW c, OneCaller(c), StopInv(c), TypeParts', pc[c] \in CallStacks,
           NEW s \in (CallStacks \ {<<"launch">>}) \cup AwaitStacks, pc' = [pc EXCEPT ![c] = s],
           UNCHANGED <<state, stopping, active, requested>>
    PROVE  StopInv(c)'
<1>1. /\ c # "teardown" /\ c # "ix" /\ c # "worker" /\ c \in Threads
  BY CallerIsUser DEF OneCaller
<1>2. /\ pc'["teardown"] = pc["teardown"] /\ pc'["ix"] = pc["ix"]
      /\ pc'["worker"] = pc["worker"] /\ pc'[c] = s
  BY <1>1 DEF StopInv, TypeParts, StacksOK
<1>3. pc[c] \notin AwaitStacks /\ pc[c] \notin DisconnectStacks /\ s # <<"launch">>
  BY StacksDisjoint
<1>4. /\ ~requested /\ ~stopping /\ pc["teardown"] \in {<<>>, <<"wait">>}
      /\ pc["teardown"] \notin JoinStacks \cup JoinedStacks /\ pc["teardown"] # <<"final">>
  BY <1>3, NotWaiting
<1>5. StopShapes(c)'
  BY <1>2 DEF StopShapes, StopInv
<1>6. StopWaits(c)'
  BY <1>2, <1>3, <1>4 DEF StopWaits
<1>7. StopLeaves(c)'
  BY <1>2, <1>3, <1>4 DEF StopLeaves, StopInv
<1>. QED  BY <1>5, <1>6, <1>7 DEF StopInv

(* request_resnapshot by the caller. *)
LEMMA StopCallerGap ==
    ASSUME NEW c, OneCaller(c), StopInv(c), TypeParts', GapStep(c)
    PROVE  StopInv(c)'
<1>. USE DEF flagVars, teardownVars
<1>c. c \in Threads /\ StacksOK /\ ~CallbackStops
  BY CallerIsUser DEF OneCaller, StopInv, TypeParts
<1>s. pc[c] \in CallStacks \cup AwaitStacks \cup DisconnectStacks
  BY DEF StopInv, StopShapes
<1>q. /\ <<>> \in Seq(Steps) /\ <<"exchange">> \in Seq(Steps) /\ <<"mark", "close">> \in Seq(Steps)
  BY DEF Steps
<1>m. /\ <<>> \in CallStacks \ {<<"launch">>} /\ <<"exchange">> \in CallStacks \ {<<"launch">>}
      /\ <<"mark", "close">> \in CallStacks \ {<<"launch">>}
      /\ <<"discard", "close">> \in CallStacks \ {<<"launch">>}
      /\ <<"gap", "close">> \in CallStacks \ {<<"launch">>}
      /\ <<"close">> \in CallStacks \ {<<"launch">>} /\ <<"resnapshot">> \in CallStacks
  BY DEF CallStacks
<1>1. CASE MarkGap(c)
  <2>1. pc[c] = <<"mark", "close">>
    BY <1>1, <1>s, CallerAt DEF MarkGap
  <2>2. Tail(pc[c]) = <<"close">>
    BY <2>1
  <2>3. Go(c, <<>>) \/ Go(c, <<"discard">>)
    BY <1>1 DEF MarkGap
  <2>4. <<>> \o <<"close">> = <<"close">> /\ <<"discard">> \o <<"close">> = <<"discard", "close">>
    BY PairConcat
  <2>5. pc' = [pc EXCEPT ![c] = <<"close">>] \/ pc' = [pc EXCEPT ![c] = <<"discard", "close">>]
    BY <2>2, <2>3, <2>4 DEF Go
  <2>. QED  BY <1>1, <1>m, <2>1, <2>5, StopCallGoes DEF MarkGap
<1>2. CASE DiscardPending(c)
  <2>1. pc[c] = <<"discard", "close">>
    BY <1>2, <1>s, CallerAt DEF DiscardPending
  <2>2. Tail(pc[c]) = <<"close">>
    BY <2>1
  <2>4. <<"gap">> \o <<"close">> = <<"gap", "close">>
    BY PairConcat
  <2>5. pc' = [pc EXCEPT ![c] = <<"gap", "close">>]
    BY <1>2, <2>2, <2>4 DEF Go, DiscardPending
  <2>. QED  BY <1>2, <1>m, <2>1, <2>5, StopCallGoes DEF DiscardPending
<1>3. CASE StreamGapCallback(c)
  <2>1. pc[c] = <<"gap", "close">>
    BY <1>3, <1>s, CallerAt DEF StreamGapCallback
  <2>2. Tail(pc[c]) = <<"close">> /\ pc[c] # <<>>
    BY <2>1
  <2>3. Go(c, <<>>)
    BY <1>3, <1>c DEF StreamGapCallback, UserCallback
  <2>4. <<>> \o <<"close">> = <<"close">>
    OBVIOUS
  <2>5. pc' = [pc EXCEPT ![c] = <<"close">>]
    BY <2>2, <2>3, <2>4 DEF Go
  <2>. QED  BY <1>3, <1>m, <2>1, <2>5, StopCallGoes DEF StreamGapCallback
<1>4. CASE ResnapshotCheck(c)
  <2>1. pc[c] = <<"resnapshot">>
    BY <1>4, <1>s, CallerAt DEF ResnapshotCheck
  <2>2. pc' = [pc EXCEPT ![c] = <<>>] \/ pc' = [pc EXCEPT ![c] = <<"exchange">>]
    BY <1>4, <1>c, <1>q, <2>1, GoAlone DEF ResnapshotCheck
  <2>. QED  BY <1>4, <1>m, <2>1, <2>2, StopCallGoes DEF ResnapshotCheck
<1>5. CASE ResnapshotExchange(c)
  <2>1. pc[c] = <<"exchange">>
    BY <1>5, <1>s, CallerAt DEF ResnapshotExchange
  <2>2. pc' = [pc EXCEPT ![c] = <<>>] \/ pc' = [pc EXCEPT ![c] = <<"mark", "close">>]
    BY <1>5, <1>c, <1>q, <2>1, GoAlone DEF ResnapshotExchange
  <2>. QED  BY <1>5, <1>m, <2>1, <2>2, StopCallGoes DEF ResnapshotExchange
<1>6. CASE ResnapshotClose(c)
  <2>1. pc[c] = <<"close">>
    BY <1>6, <1>s, CallerAt DEF ResnapshotClose
  <2>2. pc' = [pc EXCEPT ![c] = <<>>]
    BY <1>6, <1>c, <1>q, <2>1, GoAlone DEF ResnapshotClose
  <2>. QED  BY <1>6, <1>m, <2>1, <2>2, StopCallGoes DEF ResnapshotClose
<1>. QED  BY <1>1, <1>2, <1>3, <1>4, <1>5, <1>6 DEF GapStep

(* The caller tears down a client that has no transport worker. *)
LEMMA StopCallerTearsDown ==
    ASSUME NEW c, OneCaller(c), StopInv(c), TypeParts', TeardownStep(c)
    PROVE  StopInv(c)'
<1>. USE DEF flagVars, teardownVars
<1>c. /\ c # "teardown" /\ c # "ix" /\ c # "worker" /\ c \in Threads /\ StacksOK
      /\ "ix" \in Threads /\ "worker" \in Threads /\ "teardown" \in Threads
      /\ pc \in [Threads -> Seq(Steps)]
  BY CallerIsUser, LibraryThreads DEF OneCaller, StopInv, TypeParts, StacksOK
<1>s. /\ pc[c] \in CallStacks \cup AwaitStacks \cup DisconnectStacks
      /\ pc["ix"] \in Seq(LibrarySteps) /\ pc["worker"] \in Seq(LibrarySteps)
      /\ <<>> \in Seq(LibrarySteps)
  BY DEF StopInv, StopShapes
<1>1. pc[c] \in DisconnectStacks
  BY <1>s, CallerTearsDown DEF TeardownStep, WsStop, StopMessageWorker, Publish, DisconnectStacks
<1>2. /\ pc[c] # <<>> /\ pc'[c] = Tail(pc[c]) /\ pc'["teardown"] = pc["teardown"]
      /\ UNCHANGED <<stopping, active, requested>>
      /\ pc'["ix"] \in {pc["ix"], <<>>} /\ pc'["worker"] \in {pc["worker"], <<>>}
  <2>0. pc[c] # <<>>
    BY <1>1, StacksDisjoint
  <2>1. CASE Go(c, <<>>)
    BY <2>0, <2>1, <1>c, GoOn DEF TeardownStep, WsStop, StopMessageWorker, Publish
  <2>2. CASE WsStop(c) /\ pc' = [pc EXCEPT ![c] = Tail(@), !["ix"] = <<>>]
    BY <2>0, <2>2, <1>c DEF WsStop
  <2>3. CASE StopMessageWorker(c) /\ pc' = [pc EXCEPT ![c] = Tail(@), !["worker"] = <<>>]
    BY <2>0, <2>3, <1>c DEF StopMessageWorker
  <2>. QED  BY <2>1, <2>2, <2>3 DEF TeardownStep, WsStop, StopMessageWorker, Publish
<1>3. Tail(pc[c]) \in DisconnectStacks \/ (Tail(pc[c]) = <<>> /\ state' = "DISCONNECTED")
  <2>4. At(c, "publish") => state' = "DISCONNECTED"
    BY DEF TeardownStep, WsStop, StopMessageWorker, Publish, At
  <2>c1. CASE pc[c] = <<"ws_stop", "ws_join", "worker_stop", "worker_join", "reset", "clear",
                        "publish">>
    <3>1. Tail(pc[c]) = <<"ws_join", "worker_stop", "worker_join", "reset", "clear", "publish">>
            /\ Head(pc[c]) = "ws_stop"
      BY <2>c1
    <3>. QED  BY <2>c1, <3>1, <2>4 DEF DisconnectStacks, TeardownSteps, CallStacks, At
  <2>c2. CASE pc[c] = <<"ws_join", "worker_stop", "worker_join", "reset", "clear", "publish">>
    <3>1. Tail(pc[c]) = <<"worker_stop", "worker_join", "reset", "clear", "publish">>
            /\ Head(pc[c]) = "ws_join"
      BY <2>c2
    <3>. QED  BY <2>c2, <3>1, <2>4 DEF DisconnectStacks, TeardownSteps, CallStacks, At
  <2>c3. CASE pc[c] = <<"worker_stop", "worker_join", "reset", "clear", "publish">>
    <3>1. Tail(pc[c]) = <<"worker_join", "reset", "clear", "publish">>
            /\ Head(pc[c]) = "worker_stop"
      BY <2>c3
    <3>. QED  BY <2>c3, <3>1, <2>4 DEF DisconnectStacks, TeardownSteps, CallStacks, At
  <2>c4. CASE pc[c] = <<"worker_join", "reset", "clear", "publish">>
    <3>1. Tail(pc[c]) = <<"reset", "clear", "publish">> /\ Head(pc[c]) = "worker_join"
      BY <2>c4
    <3>. QED  BY <2>c4, <3>1, <2>4 DEF DisconnectStacks, TeardownSteps, CallStacks, At
  <2>c5. CASE pc[c] = <<"reset", "clear", "publish">>
    <3>1. Tail(pc[c]) = <<"clear", "publish">> /\ Head(pc[c]) = "reset"
      BY <2>c5
    <3>. QED  BY <2>c5, <3>1, <2>4 DEF DisconnectStacks, TeardownSteps, CallStacks, At
  <2>c6. CASE pc[c] = <<"clear", "publish">>
    <3>1. Tail(pc[c]) = <<"publish">> /\ Head(pc[c]) = "clear"
      BY <2>c6
    <3>. QED  BY <2>c6, <3>1, <2>4 DEF DisconnectStacks, TeardownSteps, CallStacks, At
  <2>c7. CASE pc[c] = <<"publish">>
    <3>1. Tail(pc[c]) = <<>> /\ Head(pc[c]) = "publish"
      BY <2>c7
    <3>. QED  BY <2>c7, <3>1, <2>4 DEF DisconnectStacks, TeardownSteps, CallStacks, At
  <2>. QED  BY <1>1, <2>c1, <2>c2, <2>c3, <2>c4, <2>c5, <2>c6, <2>c7
               DEF DisconnectStacks, TeardownSteps
<1>4. /\ ~requested /\ ~stopping /\ pc["teardown"] \in {<<>>, <<"wait">>}
      /\ pc["teardown"] \notin JoinStacks \cup JoinedStacks /\ pc["teardown"] # <<"final">>
  BY <1>1, StacksDisjoint, NotWaiting
<1>5. pc'[c] # <<"launch">> /\ pc'[c] \in CallStacks \cup DisconnectStacks
  <2>1. <<>> \in CallStacks /\ <<>> # <<"launch">>
    BY DEF CallStacks
  <2>. QED  BY <1>2, <1>3, <2>1, StacksDisjoint
<1>6. StopShapes(c)'
  BY <1>2, <1>4, <1>5, <1>s DEF StopShapes
<1>7. StopWaits(c)'
  BY <1>2, <1>4, <1>5 DEF StopWaits
<1>8. ~active => pc["ix"] = <<>>
  BY DEF StopInv, StopLeaves
<1>9. StopLeaves(c)'
  BY <1>2, <1>3, <1>4, <1>8 DEF StopLeaves
<1>. QED  BY <1>6, <1>7, <1>9 DEF StopInv

(* connect, disconnect and the entry of a call. *)
LEMMA StopCaller ==
    ASSUME NEW c, OneCaller(c), StopInv(c), TypeParts',
           \/ CallStep(c) \/ CallConnect(c) \/ CallDisconnect(c) \/ CallResnapshot(c)
           \/ Disconnect(c) \/ AwaitTransportStop(c)
    PROVE  StopInv(c)'
<1>. USE DEF flagVars, teardownVars
<1>c. /\ c # "teardown" /\ c # "ix" /\ c # "worker" /\ c \in Threads /\ StacksOK
      /\ "ix" \in Threads /\ "worker" \in Threads /\ "teardown" \in Threads
      /\ pc \in [Threads -> Seq(Steps)]
  BY CallerIsUser, LibraryThreads DEF OneCaller, StopInv, TypeParts, StacksOK
<1>s. /\ pc[c] \in CallStacks \cup AwaitStacks \cup DisconnectStacks
      /\ pc["ix"] \in Seq(LibrarySteps) /\ pc["worker"] \in Seq(LibrarySteps)
  BY DEF StopInv, StopShapes
<1>q. /\ <<>> \in Seq(Steps) /\ <<"await">> \in Seq(Steps) /\ TeardownSteps \in Seq(Steps)
      /\ <<"await", "check">> \in Seq(Steps) /\ <<"check">> \in Seq(Steps)
      /\ <<"retire">> \in Seq(Steps) /\ <<"start">> \in Seq(Steps)
      /\ <<"request", "await", "start">> \in Seq(Steps) /\ <<"launch">> \in Seq(Steps)
  BY PushedSteps DEF Steps
<1>m. /\ \A x \in {<<>>, <<"connect">>, <<"check">>, <<"retire">>, <<"start">>, <<"disconnect">>,
                   <<"resnapshot">>, <<"request", "await", "start">>} :
             x \in CallStacks \ {<<"launch">>}
      /\ \A x \in {<<"await">>, <<"await", "check">>, <<"await", "start">>} : x \in AwaitStacks
      /\ <<"launch">> \in CallStacks /\ TeardownSteps \in DisconnectStacks
  BY DEF CallStacks, AwaitStacks, DisconnectStacks
<1>n. ASSUME pc[c] \in CallStacks
      PROVE  /\ ~requested /\ ~stopping /\ pc["teardown"] \in {<<>>, <<"wait">>}
             /\ pc["teardown"] \notin JoinStacks \cup JoinedStacks /\ pc["teardown"] # <<"final">>
             /\ pc[c] \notin DisconnectStacks
  BY <1>n, StacksDisjoint, NotWaiting
<1>1. CASE CallConnect(c) \/ CallDisconnect(c) \/ CallResnapshot(c)
  <2>1. pc[c] = <<>>
    BY <1>1 DEF CallConnect, CallDisconnect, CallResnapshot
  <2>2. \E s \in {<<"connect">>, <<"disconnect">>, <<"resnapshot">>} : pc' = [pc EXCEPT ![c] = s]
    BY <1>1 DEF CallConnect, CallDisconnect, CallResnapshot
  <2>. QED  BY <1>1, <1>m, <2>1, <2>2, StopCallGoes DEF CallConnect, CallDisconnect, CallResnapshot
<1>2. CASE ConnectEntry(c)
  <2>1. pc[c] = <<"connect">> \/ pc[c] = <<"check">>
    BY <1>2, <1>s, CallerAt DEF ConnectEntry
  <2>2. \E s \in {<<"await", "check">>, <<"check">>, <<"retire">>, <<"start">>} :
           pc' = [pc EXCEPT ![c] = s]
    BY <1>2, <1>c, <1>q, <2>1, GoAlone DEF ConnectEntry
  <2>. QED  BY <1>2, <1>m, <2>1, <2>2, StopCallGoes DEF ConnectEntry
<1>3. CASE ConnectRetire(c)
  <2>1. CASE At(c, "retire")
    <3>1. pc[c] = <<"retire">> /\ ~At(c, "request")
      BY <2>1, <1>s, CallerAt DEF At
    <3>2. \E s \in {<<"request", "await", "start">>, <<"start">>} : pc' = [pc EXCEPT ![c] = s]
      BY <1>3, <1>c, <1>q, <3>1, GoAlone DEF ConnectRetire
    <3>. QED  BY <1>3, <1>m, <3>1, <3>2, StopCallGoes DEF ConnectRetire
  <2>2. CASE At(c, "request")
    <3>1. pc[c] = <<"request", "await", "start">> /\ pc[c] # <<>> /\ ~At(c, "retire")
      BY <2>2, <1>s, CallerAt DEF At
    <3>2. Tail(pc[c]) = <<"await", "start">>
      BY <3>1
    <3>3. pc' = [pc EXCEPT ![c] = <<"await", "start">>]
      BY <1>3, <1>c, <3>1, <3>2, GoOn DEF ConnectRetire
    <3>4. /\ pc'[c] = <<"await", "start">> /\ pc'["teardown"] = pc["teardown"]
          /\ pc'["ix"] = pc["ix"] /\ pc'["worker"] = pc["worker"]
      BY <3>3, <1>c
    <3>5. pc[c] \in CallStacks
      BY <3>1, <1>m
    <3>6. /\ stopping' = (stopping \/ active) /\ requested' = (requested \/ active)
          /\ active' = active /\ state' = state
      BY <1>3, <3>1 DEF ConnectRetire
    <3>7. pc'[c] \in AwaitStacks /\ pc'[c] # <<"launch">>
      BY <3>4, <1>m, StacksDisjoint
    <3>8. StopShapes(c)'
      BY <3>4, <3>7, <1>s, <1>n, <3>5 DEF StopShapes
    <3>9. StopWaits(c)'
      BY <3>4, <3>6, <3>7, <3>5, <1>n DEF StopWaits
    <3>10. StopLeaves(c)'
      BY <3>4, <3>6, <3>5, <1>n DEF StopLeaves, StopInv
    <3>. QED  BY <3>8, <3>9, <3>10 DEF StopInv
  <2>. QED  BY <1>3, <2>1, <2>2 DEF ConnectRetire
<1>4. CASE ConnectStart(c)
  <2>1. pc[c] = <<"start">> /\ pc[c] \in CallStacks
    BY <1>4, <1>s, <1>m, CallerAt DEF ConnectStart
  <2>2. CASE state # "DISCONNECTED"
    <3>1. pc' = [pc EXCEPT ![c] = <<>>]
      BY <1>4, <2>2, <2>1, <1>c, <1>q, GoAlone DEF ConnectStart
    <3>2. UNCHANGED <<state, stopping, active, requested>>
      BY <1>4, <2>2 DEF ConnectStart
    <3>. QED  BY <3>1, <3>2, <2>1, <1>m, StopCallGoes
  <2>3. CASE active' = TRUE /\ state' = state
             /\ requested' = (requested /\ active) /\ stopping' = (stopping /\ active)
             /\ pc' = [pc EXCEPT ![c] = <<"launch">> \o Tail(@),
                              !["teardown"] = IF active THEN @ ELSE <<"wait">>]
    <3>1. <<"launch">> \o Tail(pc[c]) = <<"launch">>
      BY <2>1
    <3>2. /\ pc'[c] = <<"launch">> /\ pc'["ix"] = pc["ix"] /\ pc'["worker"] = pc["worker"]
          /\ pc'["teardown"] \in {pc["teardown"], <<"wait">>}
      BY <2>3, <3>1, <1>c
    <3>3. pc'["teardown"] \in {<<>>, <<"wait">>}
      BY <3>2, <2>1, <1>n
    <3>4. /\ pc'["teardown"] \notin JoinStacks /\ pc'["teardown"] \notin JoinedStacks
          /\ pc'["teardown"] # <<"final">>
      BY <3>3, StacksDisjoint
    <3>5. ~requested' /\ ~stopping' /\ active'
      BY <2>3, <2>1, <1>n
    <3>6. StopShapes(c)'
      BY <3>2, <3>3, <1>s, <1>m DEF StopShapes
    <3>7. StopWaits(c)'
      BY <3>4, <3>5 DEF StopWaits
    <3>8. StopLeaves(c)'
      BY <3>4, <3>5 DEF StopLeaves
    <3>. QED  BY <3>6, <3>7, <3>8 DEF StopInv
  <2>4. CASE /\ stopping' = (stopping \/ active) /\ requested' = (requested \/ active)
             /\ Go(c, IF active THEN <<"await">> ELSE TeardownSteps)
             /\ active' = active
    <3>1. pc' = [pc EXCEPT ![c] = IF active THEN <<"await">> ELSE TeardownSteps]
      BY <2>4, <2>1, <1>c, <1>q, GoAlone
    <3>2. /\ pc'[c] = (IF active THEN <<"await">> ELSE TeardownSteps)
          /\ pc'["ix"] = pc["ix"] /\ pc'["worker"] = pc["worker"]
          /\ pc'["teardown"] = pc["teardown"]
      BY <3>1, <1>c
    <3>3. (active => pc'[c] \in AwaitStacks) /\ (~active => pc'[c] \in DisconnectStacks)
      BY <3>2, <1>m
    <3>4. pc'[c] # <<"launch">>
      BY <3>3, StacksDisjoint
    <3>5. StopShapes(c)'
      BY <3>2, <3>3, <1>s, <2>1, <1>n DEF StopShapes
    <3>6. StopWaits(c)'
      BY <2>4, <3>2, <3>3, <3>4, <2>1, <1>n DEF StopWaits
    <3>7. StopLeaves(c)'
      BY <2>4, <3>2, <3>3, <2>1, <1>n DEF StopLeaves, StopInv
    <3>. QED  BY <3>5, <3>6, <3>7 DEF StopInv
  <2>. QED  BY <1>4, <2>2, <2>3, <2>4 DEF ConnectStart
<1>5. CASE ConnectLaunch(c)
  <2>1. pc[c] = <<"launch">> /\ pc[c] \in CallStacks
    BY <1>5, <1>s, <1>m, CallerAt DEF ConnectLaunch
  <2>2. Tail(pc[c]) = <<>>
    BY <2>1
  <2>3. /\ pc'[c] = <<>> /\ pc'["teardown"] = pc["teardown"]
        /\ pc'["worker"] \in {pc["worker"], <<"loop">>} /\ pc'["ix"] \in {pc["ix"], <<"dial">>}
    BY <1>5, <1>c, <2>2 DEF ConnectLaunch
  <2>4. pc'["worker"] \in Seq(LibrarySteps) /\ pc'["ix"] \in Seq(LibrarySteps)
    <3>1. <<"loop">> \in Seq(LibrarySteps) /\ <<"dial">> \in Seq(LibrarySteps)
      BY DEF LibrarySteps
    <3>. QED  BY <2>3, <3>1, <1>s
  <2>5. active /\ UNCHANGED <<stopping, active, requested>>
    BY <1>5, <2>1 DEF ConnectLaunch, StopInv, StopWaits
  <2>6. pc'[c] \in CallStacks /\ pc'[c] # <<"launch">>
    BY <2>3, <1>m
  <2>7. StopShapes(c)'
    BY <2>3, <2>4, <2>6, <2>1, <1>n DEF StopShapes
  <2>8. StopWaits(c)'
    BY <2>3, <2>5, <2>6, <2>1, <1>n DEF StopWaits
  <2>9. StopLeaves(c)'
    BY <2>3, <2>5, <2>1, <1>n DEF StopLeaves
  <2>. QED  BY <2>7, <2>8, <2>9 DEF StopInv
<1>6. CASE Disconnect(c)
  <2>1. pc[c] = <<"disconnect">> /\ pc[c] \in CallStacks
    BY <1>6, <1>s, <1>m, CallerAt DEF Disconnect
  <2>2. ~Internal(c)
    BY <2>1, <1>c DEF Internal
  <2>3. Go(c, IF ~active THEN TeardownSteps ELSE <<"await">>)
    BY <1>6, <2>2 DEF Disconnect
  <2>4. pc' = [pc EXCEPT ![c] = IF ~active THEN TeardownSteps ELSE <<"await">>]
    BY <2>3, <2>1, <1>c, <1>q, GoAlone
  <2>5. /\ pc'[c] = (IF ~active THEN TeardownSteps ELSE <<"await">>)
        /\ pc'["ix"] = pc["ix"] /\ pc'["worker"] = pc["worker"]
        /\ pc'["teardown"] = pc["teardown"]
    BY <2>4, <1>c
  <2>6. (active => pc'[c] \in AwaitStacks) /\ (~active => pc'[c] \in DisconnectStacks)
    BY <2>5, <1>m
  <2>7. pc'[c] # <<"launch">>
    BY <2>6, StacksDisjoint
  <2>8. /\ stopping' = (stopping \/ active) /\ requested' = (requested \/ active)
        /\ active' = active
    BY <1>6 DEF Disconnect
  <2>9. StopShapes(c)'
    BY <2>5, <2>6, <1>s, <2>1, <1>n DEF StopShapes
  <2>10. StopWaits(c)'
    BY <2>5, <2>6, <2>7, <2>8, <2>1, <1>n DEF StopWaits
  <2>11. StopLeaves(c)'
    BY <2>5, <2>6, <2>8, <2>1, <1>n DEF StopLeaves, StopInv
  <2>. QED  BY <2>9, <2>10, <2>11 DEF StopInv
<1>7. CASE AwaitTransportStop(c)
  <2>1. pc[c] \in AwaitStacks /\ ~active
    BY <1>7, <1>s, CallerAt DEF AwaitTransportStop
  <2>2. ~requested /\ ~stopping
    BY <2>1 DEF StopInv, StopWaits
  <2>3. pc["teardown"] \in {<<>>, <<"wait">>}
    BY <2>2 DEF StopInv, StopWaits, StopShapes
  <2>4. pc'[c] = Tail(pc[c]) /\ pc' = [pc EXCEPT ![c] = Tail(@)]
    BY <1>7, <1>c, GoOn DEF AwaitTransportStop, At
  <2>5. Tail(pc[c]) \in {<<>>, <<"check">>, <<"start">>}
    <3>1. CASE pc[c] = <<"await">>
      BY <3>1
    <3>2. CASE pc[c] = <<"await", "check">>
      BY <3>2
    <3>3. CASE pc[c] = <<"await", "start">>
      BY <3>3
    <3>. QED  BY <2>1, <3>1, <3>2, <3>3 DEF AwaitStacks
  <2>6. /\ pc'["ix"] = pc["ix"] /\ pc'["worker"] = pc["worker"]
        /\ pc'["teardown"] = pc["teardown"]
        /\ UNCHANGED <<state, stopping, active, requested>>
    BY <1>7, <2>4, <1>c DEF AwaitTransportStop
  <2>7. pc'[c] \in CallStacks /\ pc'[c] # <<"launch">>
    BY <2>4, <2>5, <1>m
  <2>8. state = "DISCONNECTED" /\ pc["ix"] = <<>>
    BY <2>1, StacksDisjoint DEF StopInv, StopLeaves
  <2>9. StopShapes(c)'
    BY <2>3, <2>6, <2>7, <1>s DEF StopShapes
  <2>10. StopWaits(c)'
    BY <2>2, <2>3, <2>6, <2>7, StacksDisjoint DEF StopWaits
  <2>11. StopLeaves(c)'
    BY <2>3, <2>6, <2>8, StacksDisjoint DEF StopLeaves
  <2>. QED  BY <2>9, <2>10, <2>11 DEF StopInv
<1>. QED  BY <1>1, <1>2, <1>3, <1>4, <1>5, <1>6, <1>7 DEF CallStep

LEMMA StopInit ==
    ASSUME NEW c, OneCaller(c), InitState
    PROVE  StopInv(c)
<1>1. /\ pc[c] = <<>> /\ pc["teardown"] = <<>> /\ pc["ix"] = <<>> /\ pc["worker"] = <<>>
  BY CallerIsUser, LibraryThreads DEF OneCaller, InitState
<1>2. ~requested /\ ~stopping /\ ~active /\ state = "DISCONNECTED"
  BY DEF InitState
<1>3. <<>> \in CallStacks /\ <<>> \in Seq(LibrarySteps) /\ <<>> # <<"launch">>
  BY DEF CallStacks
<1>4. StopShapes(c)
  BY <1>1, <1>3 DEF StopShapes
<1>5. StopWaits(c)
  BY <1>1, <1>2, <1>3, StacksDisjoint DEF StopWaits
<1>6. StopLeaves(c)
  BY <1>1, <1>2, StacksDisjoint DEF StopLeaves
<1>. QED  BY <1>4, <1>5, <1>6, TypeInit DEF StopInv

LEMMA StopStep ==
    ASSUME NEW c, OneCaller(c), StopInv(c), [Next]_vars
    PROVE  StopInv(c)'
<1>0. TypeParts'
  BY TypeStep DEF StopInv
<1>1. CASE UNCHANGED vars
  BY <1>0, <1>1 DEF vars, StopInv, StopShapes, StopWaits, StopLeaves
<1>2. ASSUME NEW t \in Threads, ThreadStep(t)
      PROVE  StopInv(c)'
  <2>1. CASE t = c
    BY <1>0, <1>2, <2>1, StopCallerGap, StopCallerTearsDown, StopCaller DEF ThreadStep
  <2>2. CASE t = "teardown"
    BY <1>0, <1>2, <2>2, StopTransport
  <2>3. CASE t \in {"ix", "worker"}
    <3>1. pc[t] \in Seq(LibrarySteps)
      BY <2>3 DEF StopInv, StopShapes
    <3>2. ~(TeardownStep(t) \/ Disconnect(t) \/ AwaitTransportStop(t))
      <4>1. \A x \in {"ws_stop", "ws_join", "worker_stop", "worker_join", "reset", "clear",
                      "publish", "disconnect", "await"} : ~At(t, x)
        BY <3>1, LibraryAt DEF LibrarySteps, OneCaller
      <4>. QED  BY <4>1 DEF TeardownStep, WsStop, StopMessageWorker, Publish, Disconnect,
                   AwaitTransportStop
    <3>. QED  BY <1>0, <1>2, <2>3, <3>2, StopIx, StopWorker DEF ThreadStep
  <2>. QED  BY <2>1, <2>2, <2>3, CallerIsUser DEF OneCaller
<1>3. CASE Next
  BY <1>0, <1>2, <1>3, StopIx, StopWorker, StopTransport, StopCaller DEF Next, OneCaller
<1>. QED  BY <1>1, <1>3

(* A client that one thread drives and that no callback stops: whenever no call is under
   way and no thread of the transport is left, state_ is DISCONNECTED, so connect starts
   the transport again, however stops, failing connects, drops and resnapshots met. *)
THEOREM StopsFinish ==
    ASSUME NEW c, OneCaller(c)
    PROVE  Spec => []StopFinishes
<1>1. Init => StopInv(c)
  BY StopInit DEF Init
<1>2. StopInv(c) /\ [Next]_vars => StopInv(c)'
  BY StopStep
<1>3. StopInv(c) => StopFinishes
  BY StacksDisjoint DEF StopInv, StopLeaves, StopFinishes, CallersIdle, OneCaller
<1>. QED  BY <1>1, <1>2, <1>3, PTL DEF Spec

-----------------------------------------------------------------------------
(* No self-join.                                                           *)
(*                                                                         *)
(* A stop from a callback leaves the teardown to the transport worker.  It *)
(* finds one, because connect starts a transport only after the transport  *)
(* worker of the last one has ended.                                       *)

(* A client that one thread connects and that only callbacks stop; it reconnects without a
   limit, so it is DISCONNECTED only where a teardown ended. *)
OnlyCallbacksStop(c) ==
    /\ Callers = {c} /\ ~CallerStops /\ ~ConnectsWhenActive
    /\ ReconnectEnabled /\ MaxAttempts = 0

(* What its user thread still has to do: in connect, once no transport is left ... *)
EntryStacks == {<<"check">>, <<"retire">>, <<"start">>}
(* ... in a teardown of its own, after a failed connect or a stop in its gap callback ... *)
OwnStacks ==
    DisconnectStacks \cup
    {<<"ws_stop", "ws_join", "worker_stop", "worker_join", "reset", "clear", "publish", "close">>,
     <<"ws_join", "worker_stop", "worker_join", "reset", "clear", "publish", "close">>,
     <<"worker_stop", "worker_join", "reset", "clear", "publish", "close">>,
     <<"worker_join", "reset", "clear", "publish", "close">>,
     <<"reset", "clear", "publish", "close">>, <<"clear", "publish", "close">>,
     <<"publish", "close">>}
(* ... and elsewhere. *)
OtherStacks ==
    {<<>>, <<"connect">>, <<"await", "check">>, <<"launch">>, <<"resnapshot">>, <<"exchange">>,
     <<"mark", "close">>, <<"discard", "close">>, <<"gap", "close">>, <<"disconnect", "close">>,
     <<"close">>}
(* What the transport worker has to do once it has joined the message worker. *)
WorkerJoinedStacks ==
    {<<"reset", "clear", "publish", "final">>, <<"clear", "publish", "final">>,
     <<"publish", "final">>, <<"final">>}

JoinShapes(c) ==
    /\ pc[c] \in EntryStacks \cup OwnStacks \cup OtherStacks
    /\ pc["teardown"] \in {<<>>, <<"wait">>} \cup JoinStacks \cup JoinedStacks
    /\ pc["ix"] \in Seq(LibrarySteps) /\ pc["worker"] \in Seq(LibrarySteps)

(* A thread of the transport has a transport worker to leave its teardown to. *)
JoinQuiet ==
    ~active => /\ pc["ix"] = <<>> /\ pc["worker"] = <<>> /\ pc["teardown"] = <<>>
               /\ ~stopping /\ ~requested

(* The transport worker's progress. *)
JoinTeardown ==
    /\ requested => stopping
    /\ pc["teardown"] \in JoinStacks \cup JoinedStacks => stopping
    /\ pc["teardown"] \in JoinedStacks => pc["ix"] = <<>>
    /\ pc["teardown"] \in WorkerJoinedStacks => pc["worker"] = <<>>

(* connect starts a transport only when none is left, and nothing moves until it has. *)
JoinCaller(c) ==
    /\ pc[c] \in EntryStacks \cup OwnStacks => ~active
    /\ pc[c] = <<"connect">> => ~active \/ pc["teardown"] = <<"final">>
    /\ pc[c] = <<"launch">> => /\ ~requested /\ pc["teardown"] = <<"wait">>
                               /\ pc["ix"] = <<>> /\ pc["worker"] = <<>>

JoinPublished(c) ==
    state = "DISCONNECTED" => ~active \/ pc["teardown"] = <<"final">> \/ pc[c] = <<"launch">>

JoinInv(c) ==
    /\ TypeParts /\ JoinShapes(c) /\ JoinQuiet /\ JoinTeardown /\ JoinCaller(c)
    /\ JoinPublished(c)

LEMMA JoinStacksApart ==
    /\ \A s \in EntryStacks \cup OwnStacks : s # <<>> /\ s # <<"connect">> /\ s # <<"launch">>
    /\ \A s \in OtherStacks : s \notin EntryStacks /\ s \notin OwnStacks
    /\ \A s \in {<<>>, <<"wait">>} :
          /\ s \notin JoinStacks /\ s \notin JoinedStacks /\ s \notin WorkerJoinedStacks
          /\ s # <<"final">>
    /\ \A s \in JoinStacks : s \notin JoinedStacks /\ s \notin WorkerJoinedStacks
    /\ \A s \in WorkerJoinedStacks : s \in JoinedStacks
    /\ <<"final">> \in WorkerJoinedStacks
    /\ \A s \in JoinStacks \cup JoinedStacks : s # <<>> /\ s # <<"wait">>
<1>1. \A s \in EntryStacks \cup OwnStacks : s # <<>> /\ s # <<"connect">> /\ s # <<"launch">>
  BY DEF EntryStacks, OwnStacks, DisconnectStacks, TeardownSteps
<1>2. \A s \in OtherStacks : s \notin EntryStacks
  BY DEF OtherStacks, EntryStacks
<1>3. \A s \in OtherStacks : s \notin OwnStacks
  BY DEF OtherStacks, OwnStacks, DisconnectStacks, TeardownSteps
<1>4. /\ \A s \in JoinStacks : s \notin JoinedStacks /\ s \notin WorkerJoinedStacks
      /\ \A s \in WorkerJoinedStacks : s \in JoinedStacks
      /\ <<"final">> \in WorkerJoinedStacks
  BY DEF JoinStacks, JoinedStacks, WorkerJoinedStacks
<1>5. \A s \in {<<>>, <<"wait">>} : s \notin WorkerJoinedStacks
  BY DEF WorkerJoinedStacks
<1>. QED  BY <1>1, <1>2, <1>3, <1>4, <1>5, StacksDisjoint

(* A reconnecting client without a limit publishes no end of its own. *)
LEMMA IxKeepsUp ==
    ASSUME NEW c, OnlyCallbacksStop(c), IxStep \/ Environment \/ GapStep("ix")
    PROVE  state' = state \/ state' # "DISCONNECTED"
<1>1. CASE IxStep
  BY <1>1 DEF IxStep, HandleOpen, RestoreSubscriptions, TransportCallback, HandleClose,
     HandleError, EnqueueCheck, EnqueueStamp, Push, OnlyCallbacksStop, Reconnecting, LimitReached
<1>2. CASE Environment
  BY <1>2 DEF Environment, Dial, DialFails, ConnectionDrops, Receive
<1>3. CASE GapStep("ix")
  BY <1>3 DEF GapStep, MarkGap, DiscardPending, StreamGapCallback, ResnapshotCheck,
     ResnapshotExchange, ResnapshotClose
<1>. QED  BY <1>1, <1>2, <1>3

LEMMA JoinIx ==
    ASSUME NEW c, OnlyCallbacksStop(c), JoinInv(c), TypeParts',
           IxStep \/ Environment \/ GapStep("ix")
    PROVE  JoinInv(c)'
<1>1. /\ pc["ix"] # <<>> /\ stopping' = stopping /\ active' = active
      /\ requested' = requested /\ \E next \in Seq(LibrarySteps) : Go("ix", next)
  BY IxGoes
<1>2. PICK s \in Seq(LibrarySteps) : pc' = [pc EXCEPT !["ix"] = s]
  BY <1>1, LibraryGo DEF JoinInv, JoinShapes, TypeParts
<1>3. /\ pc'[c] = pc[c] /\ pc'["teardown"] = pc["teardown"] /\ pc'["worker"] = pc["worker"]
      /\ pc'["ix"] \in Seq(LibrarySteps)
  BY <1>2, CallerIsUser DEF OnlyCallbacksStop, JoinInv, TypeParts, StacksOK
<1>4. /\ active /\ pc["teardown"] \notin JoinedStacks /\ pc[c] # <<"launch">>
      /\ pc["teardown"] # <<"final">>
  BY <1>1, JoinStacksApart DEF JoinInv, JoinQuiet, JoinTeardown, JoinCaller
<1>5. state' # "DISCONNECTED"
  BY <1>4, IxKeepsUp DEF JoinInv, JoinPublished
<1>6. JoinShapes(c)'
  BY <1>3 DEF JoinShapes, JoinInv
<1>7. JoinQuiet' /\ JoinPublished(c)'
  BY <1>1, <1>4, <1>5 DEF JoinQuiet, JoinPublished
<1>8. JoinTeardown'
  BY <1>1, <1>3, <1>4 DEF JoinTeardown, JoinInv
<1>9. JoinCaller(c)'
  BY <1>1, <1>3, <1>4 DEF JoinCaller, JoinInv
<1>. QED  BY <1>6, <1>7, <1>8, <1>9 DEF JoinInv

LEMMA JoinWorker ==
    ASSUME NEW c, OnlyCallbacksStop(c), JoinInv(c), TypeParts',
           WorkerStep \/ GapStep("worker")
    PROVE  JoinInv(c)'
<1>1. /\ pc["worker"] # <<>> /\ stopping' = stopping /\ active' = active /\ state' = state
      /\ requested' = requested /\ \E next \in Seq(LibrarySteps) : Go("worker", next)
  BY WorkerGoes
<1>2. PICK s \in Seq(LibrarySteps) : pc' = [pc EXCEPT !["worker"] = s]
  BY <1>1, LibraryGo DEF JoinInv, JoinShapes, TypeParts
<1>3. /\ pc'[c] = pc[c] /\ pc'["teardown"] = pc["teardown"] /\ pc'["ix"] = pc["ix"]
      /\ pc'["worker"] \in Seq(LibrarySteps)
  BY <1>2, CallerIsUser DEF OnlyCallbacksStop, JoinInv, TypeParts, StacksOK
<1>4. /\ active /\ pc["teardown"] \notin WorkerJoinedStacks /\ pc[c] # <<"launch">>
  BY <1>1 DEF JoinInv, JoinQuiet, JoinTeardown, JoinCaller
<1>6. JoinShapes(c)'
  BY <1>3 DEF JoinShapes, JoinInv
<1>7. JoinQuiet' /\ JoinPublished(c)'
  BY <1>1, <1>3, <1>4 DEF JoinQuiet, JoinPublished, JoinInv
<1>8. JoinTeardown'
  BY <1>1, <1>3, <1>4 DEF JoinTeardown, JoinInv
<1>9. JoinCaller(c)'
  BY <1>1, <1>3, <1>4 DEF JoinCaller, JoinInv
<1>. QED  BY <1>6, <1>7, <1>8, <1>9 DEF JoinInv

(* disconnect in a callback of a library thread. *)
LEMMA JoinCallbackStops ==
    ASSUME NEW c, OnlyCallbacksStop(c), JoinInv(c), TypeParts',
           NEW t \in {"ix", "worker"}, Disconnect(t)
    PROVE  JoinInv(c)'
<1>1. /\ c # "teardown" /\ c # "ix" /\ c # "worker" /\ c \in Threads /\ t \in Threads
      /\ "ix" \in Threads /\ "worker" \in Threads /\ "teardown" \in Threads
      /\ StacksOK /\ pc \in [Threads -> Seq(Steps)]
  BY CallerIsUser, LibraryThreads DEF OnlyCallbacksStop, JoinInv, TypeParts, StacksOK
<1>2. pc[t] # <<>> /\ active
  BY DEF Disconnect, At, JoinInv, JoinQuiet
<1>3. pc[c] # <<"launch">>
  BY <1>2 DEF JoinInv, JoinCaller
<1>4. Go(t, <<>>)
  BY <1>2 DEF Disconnect, Internal
<1>5. pc' = [pc EXCEPT ![t] = Tail(@)]
  BY <1>1, <1>2, <1>4, GoOn
<1>6. Tail(pc[t]) \in Seq(LibrarySteps)
  BY <1>2 DEF JoinInv, JoinShapes
<1>7. /\ pc'[c] = pc[c] /\ pc'["teardown"] = pc["teardown"]
      /\ pc'["ix"] \in Seq(LibrarySteps) /\ pc'["worker"] \in Seq(LibrarySteps)
      /\ pc["ix"] = <<>> => pc'["ix"] = <<>>
      /\ pc["worker"] = <<>> => pc'["worker"] = <<>>
  BY <1>1, <1>2, <1>5, <1>6 DEF JoinInv, JoinShapes
<1>8. state' = "CLOSING" /\ stopping' /\ requested' /\ active' = active
  BY <1>2 DEF Disconnect
<1>9. JoinShapes(c)'
  BY <1>7 DEF JoinShapes, JoinInv
<1>10. JoinQuiet' /\ JoinPublished(c)'
  BY <1>2, <1>8 DEF JoinQuiet, JoinPublished
<1>11. JoinTeardown'
  BY <1>7, <1>8 DEF JoinTeardown, JoinInv
<1>12. JoinCaller(c)'
  BY <1>3, <1>7, <1>8 DEF JoinCaller, JoinInv
<1>. QED  BY <1>9, <1>10, <1>11, <1>12 DEF JoinInv

(* The transport worker. *)
LEMMA JoinTransport ==
    ASSUME NEW c, OnlyCallbacksStop(c), JoinInv(c), TypeParts',
           TransportStep \/ ThreadStep("teardown")
    PROVE  JoinInv(c)'
<1>. DEFINE d == pc["teardown"]
<1>c. /\ c # "teardown" /\ c # "ix" /\ c # "worker" /\ c \in Threads
      /\ "teardown" \in Threads /\ "ix" \in Threads /\ "worker" \in Threads
  BY CallerIsUser, LibraryThreads DEF OnlyCallbacksStop
<1>t. StacksOK /\ pc \in [Threads -> Seq(Steps)]
  BY DEF JoinInv, TypeParts, StacksOK
<1>d. d \in {<<>>, <<"wait">>} \cup JoinStacks \cup JoinedStacks
  BY DEF JoinInv, JoinShapes
<1>s. /\ pc[c] \in EntryStacks \cup OwnStacks \cup OtherStacks
      /\ pc["ix"] \in Seq(LibrarySteps) /\ pc["worker"] \in Seq(LibrarySteps)
  BY DEF JoinInv, JoinShapes
<1>e. <<>> \in Seq(LibrarySteps) /\ <<>> \in Seq(Steps)
  OBVIOUS
<1>1. CASE TransportWake
  <2>1. d = <<"wait">> /\ requested
    BY <1>1, <1>d, TransportAt DEF TransportWake
  <2>2. TeardownSteps \o <<"final">> \in Seq(Steps)
    <3>1. <<"final">> \in Seq(Steps)
      BY DEF Steps
    <3>. QED  BY <3>1, PushedSteps, ConcatSteps
  <2>3. pc' = [pc EXCEPT !["teardown"] = TeardownSteps \o <<"final">>]
    BY <1>1, <1>t, <1>c, <2>1, <2>2, GoAlone DEF TransportWake
  <2>4. pc'["teardown"] \in JoinStacks
    BY <2>3, <1>t, <1>c, WholeTeardown DEF JoinStacks
  <2>5. pc'[c] = pc[c] /\ pc'["ix"] = pc["ix"] /\ pc'["worker"] = pc["worker"]
    BY <2>3, <1>t, <1>c
  <2>6. /\ state' = state /\ stopping' = stopping /\ active' = active /\ requested' = requested
    BY <1>1 DEF TransportWake, flagVars, teardownVars
  <2>7. active /\ stopping /\ d # <<"final">> /\ pc[c] # <<"launch">> /\ pc[c] # <<"connect">>
    <3>1. <<"wait">> # <<>> /\ <<"wait">> # <<"final">>
      OBVIOUS
    <3>. QED  BY <2>1, <3>1 DEF JoinInv, JoinQuiet, JoinTeardown, JoinCaller
  <2>8. JoinShapes(c)'
    BY <2>4, <2>5, <1>s DEF JoinShapes
  <2>9. JoinQuiet' /\ JoinPublished(c)'
    BY <2>5, <2>6, <2>7 DEF JoinQuiet, JoinPublished, JoinInv
  <2>10. JoinTeardown'
    BY <2>4, <2>5, <2>6, <2>7, JoinStacksApart DEF JoinTeardown
  <2>11. JoinCaller(c)'
    BY <2>5, <2>6, <2>7 DEF JoinCaller, JoinInv
  <2>. QED  BY <2>8, <2>9, <2>10, <2>11 DEF JoinInv
<1>2. CASE TransportFinal
  <2>1. d = <<"final">>
    BY <1>2, <1>d, TransportAt DEF TransportFinal
  <2>2. pc' = [pc EXCEPT !["teardown"] = <<>>]
    BY <1>2, <1>t, <1>c, <1>e, <2>1, GoAlone DEF TransportFinal
  <2>4. pc["ix"] = <<>> /\ pc["worker"] = <<>> /\ pc[c] # <<"launch">>
    <3>1. <<"wait">> # <<"final">>
      OBVIOUS
    <3>. QED  BY <2>1, <3>1, JoinStacksApart DEF JoinInv, JoinTeardown, JoinCaller
  <2>5. /\ pc'["teardown"] = <<>> /\ pc'[c] = pc[c] /\ pc'["ix"] = pc["ix"]
        /\ pc'["worker"] = pc["worker"]
    BY <2>2, <1>t, <1>c
  <2>6. state' = state /\ ~stopping' /\ ~active' /\ ~requested'
    BY <1>2 DEF TransportFinal
  <2>8. JoinShapes(c)'
    BY <2>5, <1>s DEF JoinShapes
  <2>9. JoinQuiet' /\ JoinPublished(c)'
    BY <2>4, <2>5, <2>6 DEF JoinQuiet, JoinPublished
  <2>10. JoinTeardown'
    BY <2>4, <2>5, <2>6, JoinStacksApart DEF JoinTeardown
  <2>11. JoinCaller(c)'
    BY <2>4, <2>5, <2>6 DEF JoinCaller
  <2>. QED  BY <2>8, <2>9, <2>10, <2>11 DEF JoinInv
<1>3. CASE TeardownStep("teardown")
  <2>1. /\ d # <<>> /\ pc'["teardown"] = Tail(d) /\ pc'[c] = pc[c]
        /\ UNCHANGED <<stopping, active, requested>>
        /\ pc'["ix"] \in {pc["ix"], <<>>} /\ pc'["worker"] \in {pc["worker"], <<>>}
        /\ d \in JoinStacks \cup JoinedStacks
    <3>1. CASE WsStop("teardown")
      <4>1. d # <<>> /\ d \in JoinStacks
        BY <3>1, <1>d, TransportAt DEF WsStop, At, JoinStacks
      <4>2. CASE Go("teardown", <<>>)
        BY <4>1, <4>2, <3>1, <1>t, <1>c, GoOn DEF WsStop, flagVars, teardownVars
      <4>3. CASE pc' = [pc EXCEPT !["teardown"] = Tail(@), !["ix"] = <<>>]
        BY <4>1, <4>3, <3>1, <1>t, <1>c DEF WsStop, flagVars, teardownVars
      <4>. QED  BY <3>1, <4>2, <4>3 DEF WsStop
    <3>2. CASE StopMessageWorker("teardown")
      <4>1. d # <<>> /\ d \in JoinedStacks
        BY <3>2, <1>d, TransportAt DEF StopMessageWorker, At, JoinedStacks
      <4>2. CASE Go("teardown", <<>>)
        BY <4>1, <4>2, <3>2, <1>t, <1>c, GoOn DEF StopMessageWorker, flagVars, teardownVars
      <4>3. CASE pc' = [pc EXCEPT !["teardown"] = Tail(@), !["worker"] = <<>>]
        BY <4>1, <4>3, <3>2, <1>t, <1>c DEF StopMessageWorker, flagVars, teardownVars
      <4>. QED  BY <3>2, <4>2, <4>3 DEF StopMessageWorker
    <3>3. CASE Publish("teardown")
      <4>1. d # <<>> /\ d \in JoinedStacks
        BY <3>3, <1>d, TransportAt DEF Publish, At, JoinedStacks
      <4>. QED  BY <4>1, <3>3, <1>t, <1>c, GoOn DEF Publish, flagVars, teardownVars
    <3>. QED  BY <1>3, <3>1, <3>2, <3>3 DEF TeardownStep
  <2>2. d # <<"final">>
    BY <1>3 DEF TeardownStep, WsStop, StopMessageWorker, Publish, At
  <2>3. /\ Tail(d) \in JoinStacks \cup JoinedStacks
        /\ Tail(d) \in JoinedStacks => d \in JoinedStacks \/ At("teardown", "ws_join")
        /\ Tail(d) \in WorkerJoinedStacks =>
              d \in WorkerJoinedStacks \/ At("teardown", "worker_join")
        /\ At("teardown", "publish") => Tail(d) = <<"final">>
    <3>1. CASE d = <<"ws_stop", "ws_join", "worker_stop", "worker_join", "reset", "clear",
                     "publish", "final">>
      <4>1. Tail(d) = <<"ws_join", "worker_stop", "worker_join", "reset", "clear", "publish",
                        "final">> /\ Head(d) = "ws_stop"
        BY <3>1
      <4>. QED  BY <2>1, <3>1, <4>1 DEF JoinStacks, JoinedStacks, WorkerJoinedStacks, At
    <3>2. CASE d = <<"ws_join", "worker_stop", "worker_join", "reset", "clear", "publish", "final">>
      <4>1. Tail(d) = <<"worker_stop", "worker_join", "reset", "clear", "publish", "final">>
              /\ Head(d) = "ws_join"
        BY <3>2
      <4>. QED  BY <2>1, <3>2, <4>1 DEF JoinStacks, JoinedStacks, WorkerJoinedStacks, At
    <3>3. CASE d = <<"worker_stop", "worker_join", "reset", "clear", "publish", "final">>
      <4>1. Tail(d) = <<"worker_join", "reset", "clear", "publish", "final">>
              /\ Head(d) = "worker_stop"
        BY <3>3
      <4>. QED  BY <2>1, <3>3, <4>1 DEF JoinStacks, JoinedStacks, WorkerJoinedStacks, At
    <3>4. CASE d = <<"worker_join", "reset", "clear", "publish", "final">>
      <4>1. Tail(d) = <<"reset", "clear", "publish", "final">> /\ Head(d) = "worker_join"
        BY <3>4
      <4>. QED  BY <2>1, <3>4, <4>1 DEF JoinStacks, JoinedStacks, WorkerJoinedStacks, At
    <3>5. CASE d = <<"reset", "clear", "publish", "final">>
      <4>1. Tail(d) = <<"clear", "publish", "final">> /\ Head(d) = "reset"
        BY <3>5
      <4>. QED  BY <2>1, <3>5, <4>1 DEF JoinStacks, JoinedStacks, WorkerJoinedStacks, At
    <3>6. CASE d = <<"clear", "publish", "final">>
      <4>1. Tail(d) = <<"publish", "final">> /\ Head(d) = "clear"
        BY <3>6
      <4>. QED  BY <2>1, <3>6, <4>1 DEF JoinStacks, JoinedStacks, WorkerJoinedStacks, At
    <3>7. CASE d = <<"publish", "final">>
      <4>1. Tail(d) = <<"final">> /\ Head(d) = "publish"
        BY <3>7
      <4>. QED  BY <2>1, <3>7, <4>1 DEF JoinStacks, JoinedStacks, WorkerJoinedStacks, At
    <3>. QED  BY <2>1, <2>2, <3>1, <3>2, <3>3, <3>4, <3>5, <3>6, <3>7 DEF JoinStacks, JoinedStacks
  <2>4. /\ At("teardown", "ws_join") => pc'["ix"] = <<>>
        /\ At("teardown", "worker_join") => pc'["worker"] = <<>>
    BY <1>3, <1>c, <1>t DEF TeardownStep, WsStop, StopMessageWorker, Publish, At
  <2>5. At("teardown", "publish") \/ state' = state
    BY <1>3 DEF TeardownStep, WsStop, StopMessageWorker, Publish, At
  <2>6. /\ active /\ stopping /\ pc[c] # <<"launch">> /\ pc[c] # <<"connect">>
    <3>1. d # <<>> /\ d # <<"wait">>
      BY <2>1, JoinStacksApart
    <3>. QED  BY <2>1, <2>2, <3>1 DEF JoinInv, JoinQuiet, JoinTeardown, JoinCaller
  <2>8. JoinShapes(c)'
    BY <2>1, <2>3, <1>s, <1>e DEF JoinShapes
  <2>9. JoinQuiet'
    BY <2>1, <2>6 DEF JoinQuiet
  <2>10. JoinPublished(c)'
    BY <2>1, <2>2, <2>3, <2>5, <2>6 DEF JoinPublished, JoinInv
  <2>11. JoinTeardown'
    BY <2>1, <2>3, <2>4, <2>6 DEF JoinTeardown, JoinInv
  <2>12. JoinCaller(c)'
    BY <2>1, <2>6 DEF JoinCaller, JoinInv
  <2>. QED  BY <2>8, <2>9, <2>10, <2>11, <2>12 DEF JoinInv
<1>4. ~(GapStep("teardown") \/ Disconnect("teardown") \/ AwaitTransportStop("teardown"))
  BY <1>d, TransportAt DEF GapStep, MarkGap, DiscardPending, StreamGapCallback, ResnapshotCheck,
     ResnapshotExchange, ResnapshotClose, Disconnect, AwaitTransportStop
<1>. QED  BY <1>1, <1>2, <1>3, <1>4 DEF TransportStep, ThreadStep

LEMMA JoinCallerAt ==
    ASSUME NEW c, pc[c] \in EntryStacks \cup OwnStacks \cup OtherStacks
    PROVE  /\ At(c, "connect") => pc[c] = <<"connect">>
           /\ At(c, "check") => pc[c] = <<"check">>
           /\ At(c, "retire") => pc[c] = <<"retire">>
           /\ ~At(c, "request")
           /\ At(c, "await") => pc[c] = <<"await", "check">>
           /\ At(c, "start") => pc[c] = <<"start">>
           /\ At(c, "launch") => pc[c] = <<"launch">>
           /\ At(c, "disconnect") => pc[c] = <<"disconnect", "close">>
           /\ At(c, "resnapshot") => pc[c] = <<"resnapshot">>
           /\ At(c, "exchange") => pc[c] = <<"exchange">>
           /\ At(c, "mark") => pc[c] = <<"mark", "close">>
           /\ At(c, "discard") => pc[c] = <<"discard", "close">>
           /\ At(c, "gap") => pc[c] = <<"gap", "close">>
           /\ At(c, "close") => pc[c] = <<"close">>
BY DEF At, EntryStacks, OwnStacks, OtherStacks, DisconnectStacks, TeardownSteps

LEMMA JoinCallerTearsDownAt ==
    ASSUME NEW c, pc[c] \in EntryStacks \cup OwnStacks \cup OtherStacks,
           NEW x \in {"ws_stop", "ws_join", "worker_stop", "worker_join", "reset", "clear",
                      "publish"},
           At(c, x)
    PROVE  pc[c] \in OwnStacks
BY DEF At, EntryStacks, OwnStacks, OtherStacks, DisconnectStacks, TeardownSteps

(* The caller goes from one step of a call to another and changes nothing else. *)
LEMMA JoinCallGoes ==
    ASSUME NEW c, OnlyCallbacksStop(c), JoinInv(c), TypeParts', pc[c] # <<"launch">>,
           NEW s \in EntryStacks \cup OtherStacks, s # <<"launch">>, pc' = [pc EXCEPT ![c] = s],
           s \in EntryStacks => ~active,
           s = <<"connect">> => ~active \/ pc["teardown"] = <<"final">>,
           UNCHANGED <<state, stopping, active, requested>>
    PROVE  JoinInv(c)'
<1>1. /\ c # "teardown" /\ c # "ix" /\ c # "worker" /\ c \in Threads
  BY CallerIsUser DEF OnlyCallbacksStop
<1>2. /\ pc'["teardown"] = pc["teardown"] /\ pc'["ix"] = pc["ix"]
      /\ pc'["worker"] = pc["worker"] /\ pc'[c] = s
  BY <1>1 DEF JoinInv, TypeParts, StacksOK
<1>3. JoinShapes(c)'
  BY <1>2 DEF JoinShapes, JoinInv
<1>4. JoinQuiet' /\ JoinPublished(c)'
  BY <1>2 DEF JoinQuiet, JoinPublished, JoinInv
<1>5. JoinTeardown'
  BY <1>2 DEF JoinTeardown, JoinInv
<1>6. s \in OwnStacks => s \in EntryStacks
  BY JoinStacksApart
<1>7. JoinCaller(c)'
  BY <1>2, <1>6 DEF JoinCaller
<1>. QED  BY <1>3, <1>4, <1>5, <1>7 DEF JoinInv

(* request_resnapshot by the caller, whose gap callback may stop the client. *)
LEMMA JoinCallerGap ==
    ASSUME NEW c, OnlyCallbacksStop(c), JoinInv(c), TypeParts', GapStep(c)
    PROVE  JoinInv(c)'
<1>. USE DEF flagVars, teardownVars
<1>c. c \in Threads /\ StacksOK
  BY CallerIsUser DEF OnlyCallbacksStop, JoinInv, TypeParts
<1>s. pc[c] \in EntryStacks \cup OwnStacks \cup OtherStacks
  BY DEF JoinInv, JoinShapes
<1>q. /\ <<>> \in Seq(Steps) /\ <<"exchange">> \in Seq(Steps) /\ <<"mark", "close">> \in Seq(Steps)
  BY DEF Steps
<1>m. \A s \in {<<>>, <<"exchange">>, <<"mark", "close">>, <<"discard", "close">>,
                <<"gap", "close">>, <<"disconnect", "close">>, <<"close">>} :
         s \in OtherStacks /\ s # <<"launch">> /\ s # <<"connect">> /\ s \notin EntryStacks
  BY DEF OtherStacks, EntryStacks
<1>g. ASSUME NEW s \in {<<>>, <<"exchange">>, <<"mark", "close">>, <<"discard", "close">>,
                <<"gap", "close">>, <<"disconnect", "close">>, <<"close">>},
             pc' = [pc EXCEPT ![c] = s], pc[c] # <<"launch">>,
             UNCHANGED <<state, stopping, active, requested>>
      PROVE  JoinInv(c)'
  BY <1>g, <1>m, JoinCallGoes
<1>1. CASE MarkGap(c)
  <2>1. pc[c] = <<"mark", "close">> /\ pc[c] # <<"launch">>
    BY <1>1, <1>s, JoinCallerAt DEF MarkGap
  <2>2. Tail(pc[c]) = <<"close">>
    BY <2>1
  <2>3. Go(c, <<>>) \/ Go(c, <<"discard">>)
    BY <1>1 DEF MarkGap
  <2>4. <<>> \o <<"close">> = <<"close">> /\ <<"discard">> \o <<"close">> = <<"discard", "close">>
    BY PairConcat
  <2>5. pc' = [pc EXCEPT ![c] = <<"close">>] \/ pc' = [pc EXCEPT ![c] = <<"discard", "close">>]
    BY <2>2, <2>3, <2>4 DEF Go
  <2>. QED  BY <1>1, <1>g, <2>1, <2>5 DEF MarkGap
<1>2. CASE DiscardPending(c)
  <2>1. pc[c] = <<"discard", "close">> /\ pc[c] # <<"launch">>
    BY <1>2, <1>s, JoinCallerAt DEF DiscardPending
  <2>2. Tail(pc[c]) = <<"close">>
    BY <2>1
  <2>4. <<"gap">> \o <<"close">> = <<"gap", "close">>
    BY PairConcat
  <2>5. pc' = [pc EXCEPT ![c] = <<"gap", "close">>]
    BY <1>2, <2>2, <2>4 DEF Go, DiscardPending
  <2>. QED  BY <1>2, <1>g, <2>1, <2>5 DEF DiscardPending
<1>3. CASE StreamGapCallback(c)
  <2>1. pc[c] = <<"gap", "close">> /\ pc[c] # <<"launch">>
    BY <1>3, <1>s, JoinCallerAt DEF StreamGapCallback
  <2>2. Tail(pc[c]) = <<"close">>
    BY <2>1
  <2>3. Go(c, <<>>) \/ Go(c, <<"disconnect">> \o <<>>)
    BY <1>3 DEF StreamGapCallback, UserCallback
  <2>4. /\ <<>> \o <<"close">> = <<"close">> /\ <<"disconnect">> \o <<>> = <<"disconnect">>
        /\ <<"disconnect">> \o <<"close">> = <<"disconnect", "close">>
    BY PairConcat
  <2>5. pc' = [pc EXCEPT ![c] = <<"close">>] \/ pc' = [pc EXCEPT ![c] = <<"disconnect", "close">>]
    BY <2>2, <2>3, <2>4 DEF Go
  <2>. QED  BY <1>3, <1>g, <2>1, <2>5 DEF StreamGapCallback
<1>4. CASE ResnapshotCheck(c)
  <2>1. pc[c] = <<"resnapshot">> /\ pc[c] # <<"launch">>
    BY <1>4, <1>s, JoinCallerAt DEF ResnapshotCheck
  <2>2. pc' = [pc EXCEPT ![c] = <<>>] \/ pc' = [pc EXCEPT ![c] = <<"exchange">>]
    BY <1>4, <1>c, <1>q, <2>1, GoAlone DEF ResnapshotCheck
  <2>. QED  BY <1>4, <1>g, <2>1, <2>2 DEF ResnapshotCheck
<1>5. CASE ResnapshotExchange(c)
  <2>1. pc[c] = <<"exchange">> /\ pc[c] # <<"launch">>
    BY <1>5, <1>s, JoinCallerAt DEF ResnapshotExchange
  <2>2. pc' = [pc EXCEPT ![c] = <<>>] \/ pc' = [pc EXCEPT ![c] = <<"mark", "close">>]
    BY <1>5, <1>c, <1>q, <2>1, GoAlone DEF ResnapshotExchange
  <2>. QED  BY <1>5, <1>g, <2>1, <2>2 DEF ResnapshotExchange
<1>6. CASE ResnapshotClose(c)
  <2>1. pc[c] = <<"close">> /\ pc[c] # <<"launch">>
    BY <1>6, <1>s, JoinCallerAt DEF ResnapshotClose
  <2>2. pc' = [pc EXCEPT ![c] = <<>>]
    BY <1>6, <1>c, <1>q, <2>1, GoAlone DEF ResnapshotClose
  <2>. QED  BY <1>6, <1>g, <2>1, <2>2 DEF ResnapshotClose
<1>. QED  BY <1>1, <1>2, <1>3, <1>4, <1>5, <1>6 DEF GapStep

(* The caller tears down a client that has no transport worker. *)
LEMMA JoinCallerTearsDown ==
    ASSUME NEW c, OnlyCallbacksStop(c), JoinInv(c), TypeParts', TeardownStep(c)
    PROVE  JoinInv(c)'
<1>. USE DEF flagVars, teardownVars
<1>c. /\ c # "teardown" /\ c # "ix" /\ c # "worker" /\ c \in Threads /\ StacksOK
      /\ "ix" \in Threads /\ "worker" \in Threads /\ "teardown" \in Threads
      /\ pc \in [Threads -> Seq(Steps)]
  BY CallerIsUser, LibraryThreads DEF OnlyCallbacksStop, JoinInv, TypeParts, StacksOK
<1>s. pc[c] \in EntryStacks \cup OwnStacks \cup OtherStacks
  BY DEF JoinInv, JoinShapes
<1>1. pc[c] \in OwnStacks
  BY <1>s, JoinCallerTearsDownAt DEF TeardownStep, WsStop, StopMessageWorker, Publish
<1>2. /\ ~active /\ ~stopping /\ ~requested
      /\ pc["ix"] = <<>> /\ pc["worker"] = <<>> /\ pc["teardown"] = <<>>
  BY <1>1 DEF JoinInv, JoinCaller, JoinQuiet
<1>3. /\ pc[c] # <<>> /\ pc'[c] = Tail(pc[c]) /\ pc'["teardown"] = pc["teardown"]
      /\ UNCHANGED <<stopping, active, requested>>
      /\ pc'["ix"] = <<>> /\ pc'["worker"] = <<>>
  <2>0. pc[c] # <<>>
    BY <1>1, JoinStacksApart
  <2>1. CASE Go(c, <<>>)
    BY <2>0, <2>1, <1>2, <1>c, GoOn DEF TeardownStep, WsStop, StopMessageWorker, Publish
  <2>2. CASE WsStop(c) /\ pc' = [pc EXCEPT ![c] = Tail(@), !["ix"] = <<>>]
    BY <2>0, <2>2, <1>2, <1>c DEF WsStop
  <2>3. CASE StopMessageWorker(c) /\ pc' = [pc EXCEPT ![c] = Tail(@), !["worker"] = <<>>]
    BY <2>0, <2>3, <1>2, <1>c DEF StopMessageWorker
  <2>. QED  BY <2>1, <2>2, <2>3 DEF TeardownStep, WsStop, StopMessageWorker, Publish
<1>4. Tail(pc[c]) \in OwnStacks \cup {<<>>, <<"close">>}
  <2>c1. CASE pc[c] = <<"ws_stop", "ws_join", "worker_stop", "worker_join", "reset", "clear",
                        "publish">>
    <3>1. Tail(pc[c]) = <<"ws_join", "worker_stop", "worker_join", "reset", "clear", "publish">>
      BY <2>c1
    <3>. QED  BY <3>1 DEF OwnStacks, DisconnectStacks, TeardownSteps
  <2>c2. CASE pc[c] = <<"ws_join", "worker_stop", "worker_join", "reset", "clear", "publish">>
    <3>1. Tail(pc[c]) = <<"worker_stop", "worker_join", "reset", "clear", "publish">>
      BY <2>c2
    <3>. QED  BY <3>1 DEF OwnStacks, DisconnectStacks, TeardownSteps
  <2>c3. CASE pc[c] = <<"worker_stop", "worker_join", "reset", "clear", "publish">>
    <3>1. Tail(pc[c]) = <<"worker_join", "reset", "clear", "publish">>
      BY <2>c3
    <3>. QED  BY <3>1 DEF OwnStacks, DisconnectStacks, TeardownSteps
  <2>c4. CASE pc[c] = <<"worker_join", "reset", "clear", "publish">>
    <3>1. Tail(pc[c]) = <<"reset", "clear", "publish">>
      BY <2>c4
    <3>. QED  BY <3>1 DEF OwnStacks, DisconnectStacks, TeardownSteps
  <2>c5. CASE pc[c] = <<"reset", "clear", "publish">>
    <3>1. Tail(pc[c]) = <<"clear", "publish">>
      BY <2>c5
    <3>. QED  BY <3>1 DEF OwnStacks, DisconnectStacks, TeardownSteps
  <2>c6. CASE pc[c] = <<"clear", "publish">>
    <3>1. Tail(pc[c]) = <<"publish">>
      BY <2>c6
    <3>. QED  BY <3>1 DEF OwnStacks, DisconnectStacks, TeardownSteps
  <2>c7. CASE pc[c] = <<"publish">>
    <3>1. Tail(pc[c]) = <<>>
      BY <2>c7
    <3>. QED  BY <3>1 DEF OwnStacks, DisconnectStacks, TeardownSteps
  <2>c8. CASE pc[c] = <<"ws_stop", "ws_join", "worker_stop", "worker_join", "reset", "clear",
                        "publish", "close">>
    <3>1. Tail(pc[c]) = <<"ws_join", "worker_stop", "worker_join", "reset", "clear", "publish",
                          "close">>
      BY <2>c8
    <3>. QED  BY <3>1 DEF OwnStacks, DisconnectStacks, TeardownSteps
  <2>c9. CASE pc[c] = <<"ws_join", "worker_stop", "worker_join", "reset", "clear", "publish",
                        "close">>
    <3>1. Tail(pc[c]) = <<"worker_stop", "worker_join", "reset", "clear", "publish", "close">>
      BY <2>c9
    <3>. QED  BY <3>1 DEF OwnStacks, DisconnectStacks, TeardownSteps
  <2>c10. CASE pc[c] = <<"worker_stop", "worker_join", "reset", "clear", "publish", "close">>
    <3>1. Tail(pc[c]) = <<"worker_join", "reset", "clear", "publish", "close">>
      BY <2>c10
    <3>. QED  BY <3>1 DEF OwnStacks, DisconnectStacks, TeardownSteps
  <2>c11. CASE pc[c] = <<"worker_join", "reset", "clear", "publish", "close">>
    <3>1. Tail(pc[c]) = <<"reset", "clear", "publish", "close">>
      BY <2>c11
    <3>. QED  BY <3>1 DEF OwnStacks, DisconnectStacks, TeardownSteps
  <2>c12. CASE pc[c] = <<"reset", "clear", "publish", "close">>
    <3>1. Tail(pc[c]) = <<"clear", "publish", "close">>
      BY <2>c12
    <3>. QED  BY <3>1 DEF OwnStacks, DisconnectStacks, TeardownSteps
  <2>c13. CASE pc[c] = <<"clear", "publish", "close">>
    <3>1. Tail(pc[c]) = <<"publish", "close">>
      BY <2>c13
    <3>. QED  BY <3>1 DEF OwnStacks, DisconnectStacks, TeardownSteps
  <2>c14. CASE pc[c] = <<"publish", "close">>
    <3>1. Tail(pc[c]) = <<"close">>
      BY <2>c14
    <3>. QED  BY <3>1 DEF OwnStacks, DisconnectStacks, TeardownSteps
  <2>. QED  BY <1>1, <2>c1, <2>c2, <2>c3, <2>c4, <2>c5, <2>c6, <2>c7,
               <2>c8, <2>c9, <2>c10, <2>c11, <2>c12, <2>c13, <2>c14
           DEF OwnStacks, DisconnectStacks, TeardownSteps
<1>5. /\ pc'[c] \in OwnStacks \cup OtherStacks /\ pc'[c] # <<"launch">>
  <2>1. \A x \in {<<>>, <<"close">>} : x \in OtherStacks /\ x # <<"launch">>
    BY DEF OtherStacks
  <2>. QED  BY <1>3, <1>4, <2>1, JoinStacksApart
<1>6. JoinShapes(c)'
  <2>1. <<>> \in Seq(LibrarySteps)
    OBVIOUS
  <2>. QED  BY <1>2, <1>3, <1>5, <2>1 DEF JoinShapes
<1>7. JoinQuiet' /\ JoinPublished(c)'
  BY <1>2, <1>3 DEF JoinQuiet, JoinPublished
<1>8. JoinTeardown'
  <2>1. /\ <<>> \notin JoinStacks /\ <<>> \notin JoinedStacks /\ <<>> \notin WorkerJoinedStacks
    BY JoinStacksApart
  <2>. QED  BY <1>2, <1>3, <2>1 DEF JoinTeardown
<1>9. JoinCaller(c)'
  BY <1>2, <1>3, <1>5 DEF JoinCaller
<1>. QED  BY <1>6, <1>7, <1>8, <1>9 DEF JoinInv

(* connect, disconnect in a gap callback, and the entry of a call. *)
LEMMA JoinCallerCalls ==
    ASSUME NEW c, OnlyCallbacksStop(c), JoinInv(c), TypeParts',
           \/ CallStep(c) \/ CallConnect(c) \/ CallDisconnect(c) \/ CallResnapshot(c)
           \/ Disconnect(c) \/ AwaitTransportStop(c)
    PROVE  JoinInv(c)'
<1>. USE DEF flagVars, teardownVars
<1>c. /\ c # "teardown" /\ c # "ix" /\ c # "worker" /\ c \in Threads /\ StacksOK
      /\ "ix" \in Threads /\ "worker" \in Threads /\ "teardown" \in Threads
      /\ pc \in [Threads -> Seq(Steps)]
  BY CallerIsUser, LibraryThreads DEF OnlyCallbacksStop, JoinInv, TypeParts, StacksOK
<1>s. /\ pc[c] \in EntryStacks \cup OwnStacks \cup OtherStacks
      /\ pc["ix"] \in Seq(LibrarySteps) /\ pc["worker"] \in Seq(LibrarySteps)
      /\ pc["teardown"] \in {<<>>, <<"wait">>} \cup JoinStacks \cup JoinedStacks
  BY DEF JoinInv, JoinShapes
<1>q. /\ <<>> \in Seq(Steps) /\ TeardownSteps \in Seq(Steps) /\ <<"await">> \in Seq(Steps)
      /\ <<"await", "check">> \in Seq(Steps) /\ <<"check">> \in Seq(Steps)
      /\ <<"retire">> \in Seq(Steps) /\ <<"start">> \in Seq(Steps)
  BY PushedSteps DEF Steps
<1>m. /\ \A x \in {<<>>, <<"resnapshot">>, <<"await", "check">>, <<"close">>} :
             x \in OtherStacks /\ x # <<"launch">> /\ x # <<"connect">> /\ x \notin EntryStacks
      /\ <<"connect">> \in OtherStacks /\ <<"connect">> # <<"launch">>
      /\ <<"connect">> \notin EntryStacks
      /\ \A x \in {<<"check">>, <<"retire">>, <<"start">>} :
             x \in EntryStacks /\ x # <<"launch">> /\ x # <<"connect">>
      /\ <<"launch">> \in OtherStacks /\ <<"launch">> # <<"connect">>
      /\ TeardownSteps \in OwnStacks
  BY DEF OtherStacks, EntryStacks, OwnStacks, DisconnectStacks
<1>0. ~CallDisconnect(c)
  BY DEF CallDisconnect, OnlyCallbacksStop
<1>1. CASE CallConnect(c)
  <2>1. pc[c] = <<>> /\ state = "DISCONNECTED" /\ pc[c] # <<"launch">>
    BY <1>1 DEF CallConnect, OnlyCallbacksStop
  <2>2. ~active \/ pc["teardown"] = <<"final">>
    BY <2>1 DEF JoinInv, JoinPublished
  <2>. QED  BY <1>1, <1>m, <2>1, <2>2, JoinCallGoes DEF CallConnect
<1>2. CASE CallResnapshot(c)
  <2>1. pc[c] = <<>> /\ pc[c] # <<"launch">>
    BY <1>2 DEF CallResnapshot
  <2>. QED  BY <1>2, <1>m, <2>1, JoinCallGoes DEF CallResnapshot
<1>3. CASE ConnectEntry(c)
  <2>1. CASE At(c, "connect")
    <3>1. pc[c] = <<"connect">> /\ pc[c] # <<"launch">> /\ ~At(c, "check")
      BY <2>1, <1>s, JoinCallerAt DEF At
    <3>2. ~stopping => ~active
      <4>1. pc["teardown"] = <<"final">> => stopping
        BY JoinStacksApart DEF JoinInv, JoinTeardown
      <4>. QED  BY <3>1, <4>1 DEF JoinInv, JoinCaller
    <3>3. pc' = [pc EXCEPT ![c] = IF stopping THEN <<"await", "check">> ELSE <<"check">>]
      BY <1>3, <1>c, <1>q, <3>1, GoAlone DEF ConnectEntry
    <3>. QED  BY <1>3, <1>m, <3>1, <3>2, <3>3, JoinCallGoes DEF ConnectEntry
  <2>2. CASE At(c, "check")
    <3>1. pc[c] = <<"check">> /\ pc[c] # <<"launch">> /\ ~At(c, "connect")
      BY <2>2, <1>s, JoinCallerAt DEF At
    <3>2. ~active
      BY <3>1, <1>m DEF JoinInv, JoinCaller
    <3>3. pc' = [pc EXCEPT ![c] = IF state = "DISCONNECTED" THEN <<"retire">> ELSE <<"start">>]
      BY <1>3, <1>c, <1>q, <3>1, GoAlone DEF ConnectEntry
    <3>. QED  BY <1>3, <1>m, <3>1, <3>2, <3>3, JoinCallGoes DEF ConnectEntry
  <2>. QED  BY <1>3, <2>1, <2>2 DEF ConnectEntry
<1>4. CASE ConnectRetire(c)
  <2>1. ~At(c, "request") /\ At(c, "retire")
    BY <1>4, <1>s, JoinCallerAt DEF ConnectRetire
  <2>2. pc[c] = <<"retire">> /\ pc[c] # <<"launch">>
    BY <2>1, <1>s, JoinCallerAt
  <2>3. ~active
    BY <2>2, <1>m DEF JoinInv, JoinCaller
  <2>4. pc' = [pc EXCEPT ![c] = <<"start">>]
    BY <1>4, <1>c, <1>q, <2>1, <2>2, <2>3, GoAlone DEF ConnectRetire
  <2>. QED  BY <1>4, <1>m, <2>1, <2>2, <2>3, <2>4, JoinCallGoes DEF ConnectRetire
<1>5. CASE ConnectStart(c)
  <2>1. pc[c] = <<"start">> /\ pc[c] # <<"launch">>
    BY <1>5, <1>s, JoinCallerAt DEF ConnectStart
  <2>2. /\ ~active /\ ~stopping /\ ~requested
        /\ pc["ix"] = <<>> /\ pc["worker"] = <<>> /\ pc["teardown"] = <<>>
    BY <2>1, <1>m DEF JoinInv, JoinCaller, JoinQuiet
  <2>3. CASE state # "DISCONNECTED"
    <3>1. pc' = [pc EXCEPT ![c] = <<>>]
      BY <1>5, <2>3, <2>1, <1>c, <1>q, GoAlone DEF ConnectStart
    <3>2. UNCHANGED <<state, stopping, active, requested>>
      BY <1>5, <2>3 DEF ConnectStart
    <3>. QED  BY <3>1, <3>2, <2>1, <1>m, JoinCallGoes
  <2>4. CASE active' = TRUE /\ state' = state
             /\ requested' = (requested /\ active) /\ stopping' = (stopping /\ active)
             /\ pc' = [pc EXCEPT ![c] = <<"launch">> \o Tail(@),
                              !["teardown"] = IF active THEN @ ELSE <<"wait">>]
    <3>1. <<"launch">> \o Tail(pc[c]) = <<"launch">>
      BY <2>1
    <3>2. /\ pc'[c] = <<"launch">> /\ pc'["ix"] = pc["ix"] /\ pc'["worker"] = pc["worker"]
          /\ pc'["teardown"] = <<"wait">>
      BY <2>2, <2>4, <3>1, <1>c
    <3>5. ~requested' /\ ~stopping' /\ active'
      BY <2>4, <2>2
    <3>6. JoinShapes(c)'
      BY <3>2, <1>s, <1>m DEF JoinShapes
    <3>7. JoinQuiet' /\ JoinPublished(c)'
      BY <3>2, <3>5 DEF JoinQuiet, JoinPublished
    <3>8. JoinTeardown'
      BY <3>2, <3>5, JoinStacksApart DEF JoinTeardown
    <3>9. JoinCaller(c)'
      BY <3>2, <3>5, <2>2, <1>m, JoinStacksApart DEF JoinCaller
    <3>. QED  BY <3>6, <3>7, <3>8, <3>9 DEF JoinInv
  <2>5. CASE /\ state' = "CLOSING"
             /\ stopping' = (stopping \/ active) /\ requested' = (requested \/ active)
             /\ Go(c, IF active THEN <<"await">> ELSE TeardownSteps)
             /\ active' = active
    <3>1. pc' = [pc EXCEPT ![c] = TeardownSteps]
      BY <2>5, <2>1, <2>2, <1>c, <1>q, GoAlone
    <3>2. /\ pc'[c] = TeardownSteps /\ pc'["ix"] = <<>> /\ pc'["worker"] = <<>>
          /\ pc'["teardown"] = <<>>
      BY <3>1, <2>2, <1>c
    <3>3. ~requested' /\ ~stopping' /\ ~active'
      BY <2>5, <2>2
    <3>5. JoinShapes(c)'
      BY <3>2, <2>2, <1>s, <1>m DEF JoinShapes
    <3>6. JoinQuiet' /\ JoinPublished(c)'
      BY <3>2, <3>3 DEF JoinQuiet, JoinPublished
    <3>7. JoinTeardown'
      BY <3>2, <3>3, JoinStacksApart DEF JoinTeardown
    <3>8. JoinCaller(c)'
      BY <3>2, <3>3, <1>m, JoinStacksApart DEF JoinCaller
    <3>. QED  BY <3>5, <3>6, <3>7, <3>8 DEF JoinInv
  <2>. QED  BY <1>5, <2>3, <2>4, <2>5 DEF ConnectStart
<1>6. CASE ConnectLaunch(c)
  <2>1. pc[c] = <<"launch">>
    BY <1>6, <1>s, JoinCallerAt DEF ConnectLaunch
  <2>2. Tail(pc[c]) = <<>>
    BY <2>1
  <2>3. /\ pc'[c] = <<>> /\ pc'["teardown"] = pc["teardown"]
        /\ pc'["worker"] \in {pc["worker"], <<"loop">>} /\ pc'["ix"] \in {pc["ix"], <<"dial">>}
    BY <1>6, <1>c, <2>2 DEF ConnectLaunch
  <2>4. pc'["worker"] \in Seq(LibrarySteps) /\ pc'["ix"] \in Seq(LibrarySteps)
    <3>1. <<"loop">> \in Seq(LibrarySteps) /\ <<"dial">> \in Seq(LibrarySteps)
      BY DEF LibrarySteps
    <3>. QED  BY <2>3, <3>1, <1>s
  <2>5. pc["teardown"] = <<"wait">> /\ ~requested
    BY <2>1 DEF JoinInv, JoinCaller
  <2>6. active /\ UNCHANGED <<stopping, active, requested>> /\ state' = "CONNECTING"
    <3>1. <<"wait">> # <<>>
      OBVIOUS
    <3>. QED  BY <1>6, <2>5, <3>1 DEF ConnectLaunch, JoinInv, JoinQuiet
  <2>7. JoinShapes(c)'
    BY <2>3, <2>4, <2>5, <1>m DEF JoinShapes
  <2>8. JoinQuiet' /\ JoinPublished(c)'
    BY <2>6 DEF JoinQuiet, JoinPublished
  <2>9. JoinTeardown'
    BY <2>3, <2>5, <2>6, JoinStacksApart DEF JoinTeardown, JoinInv
  <2>10. JoinCaller(c)'
    BY <2>3, <1>m, JoinStacksApart DEF JoinCaller
  <2>. QED  BY <2>7, <2>8, <2>9, <2>10 DEF JoinInv
<1>7. CASE Disconnect(c)
  <2>1. pc[c] = <<"disconnect", "close">> /\ pc[c] # <<>> /\ pc[c] # <<"launch">>
    BY <1>7, <1>s, JoinCallerAt DEF Disconnect
  <2>2. Internal(c) /\ Tail(pc[c]) = <<"close">>
    BY <2>1 DEF Internal
  <2>3. /\ state' = "CLOSING" /\ active' = active
        /\ stopping' = (stopping \/ active) /\ requested' = (requested \/ active)
    BY <1>7 DEF Disconnect
  <2>4. CASE active
    <3>1. pc' = [pc EXCEPT ![c] = <<"close">>]
      BY <1>7, <2>1, <2>2, <2>4, <1>c, GoOn DEF Disconnect
    <3>2. /\ pc'[c] = <<"close">> /\ pc'["ix"] = pc["ix"] /\ pc'["worker"] = pc["worker"]
          /\ pc'["teardown"] = pc["teardown"]
      BY <3>1, <1>c
    <3>3. stopping' /\ requested' /\ active'
      BY <2>3, <2>4
    <3>4. JoinShapes(c)'
      BY <3>2, <1>s, <1>m DEF JoinShapes
    <3>5. JoinQuiet' /\ JoinPublished(c)'
      BY <3>3, <2>3 DEF JoinQuiet, JoinPublished
    <3>6. JoinTeardown'
      BY <3>2, <3>3 DEF JoinTeardown, JoinInv
    <3>7. JoinCaller(c)'
      BY <3>2, <1>m, JoinStacksApart DEF JoinCaller
    <3>. QED  BY <3>4, <3>5, <3>6, <3>7 DEF JoinInv
  <2>5. CASE ~active
    <3>1. "close" \in Steps
      BY DEF Steps
    <3>2. TeardownSteps \o <<"close">> \in OwnStacks
      BY <3>1, TeardownOnTop DEF OwnStacks
    <3>3. pc' = [pc EXCEPT ![c] = TeardownSteps \o <<"close">>]
      BY <1>7, <2>2, <2>5 DEF Disconnect, Go
    <3>4. /\ ~stopping /\ ~requested
          /\ pc["ix"] = <<>> /\ pc["worker"] = <<>> /\ pc["teardown"] = <<>>
      BY <2>5 DEF JoinInv, JoinQuiet
    <3>5. /\ pc'[c] \in OwnStacks /\ pc'["ix"] = <<>> /\ pc'["worker"] = <<>>
          /\ pc'["teardown"] = <<>>
      BY <3>2, <3>3, <3>4, <1>c
    <3>6. ~stopping' /\ ~requested' /\ ~active'
      BY <2>3, <2>5, <3>4
    <3>7. JoinShapes(c)'
      BY <3>4, <3>5, <1>s DEF JoinShapes
    <3>8. JoinQuiet' /\ JoinPublished(c)'
      BY <3>5, <3>6 DEF JoinQuiet, JoinPublished
    <3>9. JoinTeardown'
      BY <3>5, <3>6, JoinStacksApart DEF JoinTeardown
    <3>10. JoinCaller(c)'
      BY <3>5, <3>6, JoinStacksApart DEF JoinCaller
    <3>. QED  BY <3>7, <3>8, <3>9, <3>10 DEF JoinInv
  <2>. QED  BY <2>4, <2>5
<1>8. CASE AwaitTransportStop(c)
  <2>0. pc[c] = <<"await", "check">> /\ ~active
    BY <1>8, <1>s, JoinCallerAt DEF AwaitTransportStop
  <2>a. <<"await", "check">> # <<>> /\ <<"await", "check">> # <<"launch">>
    OBVIOUS
  <2>1. pc[c] = <<"await", "check">> /\ ~active /\ pc[c] # <<>> /\ pc[c] # <<"launch">>
    BY <2>0, <2>a
  <2>2. Tail(pc[c]) = <<"check">>
    BY <2>1
  <2>3. pc' = [pc EXCEPT ![c] = <<"check">>]
    BY <1>8, <1>c, <2>1, <2>2, GoOn DEF AwaitTransportStop
  <2>. QED  BY <1>8, <1>m, <2>1, <2>3, JoinCallGoes DEF AwaitTransportStop
<1>. QED  BY <1>0, <1>1, <1>2, <1>3, <1>4, <1>5, <1>6, <1>7, <1>8 DEF CallStep

LEMMA JoinInit ==
    ASSUME NEW c, OnlyCallbacksStop(c), Init
    PROVE  JoinInv(c)
<1>1. /\ pc[c] = <<>> /\ pc["teardown"] = <<>> /\ pc["ix"] = <<>> /\ pc["worker"] = <<>>
  BY CallerIsUser, LibraryThreads DEF OnlyCallbacksStop, Init, InitState
<1>2. ~requested /\ ~stopping /\ ~active
  BY DEF Init, InitState
<1>3. <<>> \in OtherStacks /\ <<>> \in Seq(LibrarySteps) /\ <<>> # <<"launch">>
      /\ <<>> # <<"connect">>
  BY DEF OtherStacks
<1>4. JoinShapes(c)
  BY <1>1, <1>3 DEF JoinShapes
<1>5. JoinQuiet /\ JoinPublished(c)
  BY <1>1, <1>2 DEF JoinQuiet, JoinPublished
<1>6. JoinTeardown /\ JoinCaller(c)
  BY <1>1, <1>2, <1>3, JoinStacksApart DEF JoinTeardown, JoinCaller
<1>. QED  BY <1>4, <1>5, <1>6, TypeInit DEF JoinInv, Init

LEMMA JoinStep ==
    ASSUME NEW c, OnlyCallbacksStop(c), JoinInv(c), [Next]_vars
    PROVE  JoinInv(c)'
<1>0. TypeParts'
  BY TypeStep DEF JoinInv
<1>1. CASE UNCHANGED vars
  BY <1>0, <1>1 DEF vars, JoinInv, JoinShapes, JoinQuiet, JoinTeardown, JoinCaller, JoinPublished
<1>2. ASSUME NEW t \in Threads, ThreadStep(t)
      PROVE  JoinInv(c)'
  <2>1. CASE t = c
    BY <1>0, <1>2, <2>1, JoinCallerGap, JoinCallerTearsDown, JoinCallerCalls DEF ThreadStep
  <2>2. CASE t = "teardown"
    BY <1>0, <1>2, <2>2, JoinTransport
  <2>3. CASE t \in {"ix", "worker"}
    <3>1. pc[t] \in Seq(LibrarySteps)
      BY <2>3 DEF JoinInv, JoinShapes
    <3>2. ~(TeardownStep(t) \/ AwaitTransportStop(t))
      <4>1. \A x \in {"ws_stop", "ws_join", "worker_stop", "worker_join", "reset", "clear",
                      "publish", "await"} : ~At(t, x)
        BY <3>1, LibraryAt DEF LibrarySteps
      <4>. QED  BY <4>1 DEF TeardownStep, WsStop, StopMessageWorker, Publish, AwaitTransportStop
    <3>. QED  BY <1>0, <1>2, <2>3, <3>2, JoinIx, JoinWorker, JoinCallbackStops DEF ThreadStep
  <2>. QED  BY <2>1, <2>2, <2>3, CallerIsUser DEF OnlyCallbacksStop
<1>3. CASE Next
  BY <1>0, <1>2, <1>3, JoinIx, JoinWorker, JoinTransport, JoinCallerCalls
     DEF Next, OnlyCallbacksStop
<1>. QED  BY <1>1, <1>3

(* finish_disconnect never joins the thread it runs on, in a client that one thread
   connects, that reconnects without a limit, and that is stopped from its callbacks: from
   any of them, any number of times, and again after every new connect. *)
THEOREM StopsJoinOthers ==
    ASSUME NEW c, OnlyCallbacksStop(c)
    PROVE  Spec => []NoSelfJoin
<1>1. Init => JoinInv(c)
  BY JoinInit
<1>2. JoinInv(c) /\ [Next]_vars => JoinInv(c)'
  BY JoinStep
<1>3. JoinInv(c) => NoSelfJoin
  BY LibraryAt DEF JoinInv, JoinShapes, NoSelfJoin, LibrarySteps
<1>. QED  BY <1>1, <1>2, <1>3, PTL DEF Spec
=============================================================================
