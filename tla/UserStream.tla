------------------------------ MODULE UserStream ------------------------------
(***************************************************************************)
(* UserStreamRuntime: order and trade events of the authenticated channel, *)
(* composed with GapStream.  Threads: the user's connecting thread         *)
(* (`user'), one that changes subscriptions (`subs'), the message worker   *)
(* (`work'), the threads that report gaps (`telling') and the IXWebSocket  *)
(* thread (`closer', `conn', the phases of `link').  Credentials, payloads *)
(* and callback registration are data.                                     *)
(***************************************************************************)
EXTENDS GapStream, Sequences

CONSTANTS
    Markets,            \* condition ids
    ConnectsWhenActive, \* is connect() called while the transport is running?
    Budgets             \* bounds: how many events of each kind may happen

VARIABLES
    owner,     \* owner_active_
    active,    \* stream_active_
    auth,      \* authentication_failed_
    sgen,      \* stream_generation_ of the runtime
    recovery,  \* recovery_generation_
    sub,       \* subscription_, and what replace_subscriptions was given
    copy,      \* the copy restore_subscriptions sends
    server,    \* external: the server's session; no markets means all of them
    user, subs, work, closer,         \* where the threads are
    telling,   \* the handle_stream_gap calls that are under way
    conn,      \* where handle_connect is, and the generation it has loaded
    result,    \* what the last finished connect or disconnect left behind
    told,      \* history: the newest gap the user was told of
    waits,     \* history: the gap callback has run after the last recovered callback
    late,      \* history: events of this message fired after it was superseded
    overlap,   \* history: a change came between copy and replay
    budget     \* events of each kind that may still happen

userVars == <<owner, active, auth, sgen, recovery, sub, copy, server, user, subs, work,
              closer, telling, conn, result, told, waits, late, overlap, budget>>
vars == <<gapVars, userVars>>
lifeVars == <<owner, active, auth, sgen>>
subVars == <<sub, copy, server, subs, overlap>>
workVars == <<work, late>>
gapStateVars == <<recovery, told, waits, telling, conn>>
callVars == <<user, result>>

NoSession == [on |-> FALSE, markets |-> {}]
IsActive(s) == s.all \/ s.markets # {}
Idle == [pc |-> "idle"]
NoConnect == [pc |-> "none", gen |-> 0]

InitState ==
    /\ GapInit
    /\ owner = TRUE /\ active = FALSE /\ auth = FALSE
    /\ sgen = 0 /\ recovery = 0 /\ told = 0 /\ late = 0 /\ waits = FALSE
    /\ telling = {} /\ conn = NoConnect
    /\ sub = [all |-> FALSE, markets |-> {}] /\ copy = sub
    /\ server = NoSession /\ overlap = FALSE
    /\ user = "idle" /\ subs = Idle /\ work = Idle /\ closer = "none" /\ result = "none"
Init == InitState /\ budget \in Budgets

Spend(kind) == budget[kind] > 0 /\ budget' = [budget EXCEPT ![kind] = @ - 1]

(* stream_is_current *)
Current(s, w) == owner /\ active /\ s = sgen /\ w = gen

(* deactivate_stream *)
Deactivate ==
    /\ active' = FALSE
    /\ sgen' = IF active THEN sgen + 1 ELSE sgen

-----------------------------------------------------------------------------
(* connect, disconnect and stop, shutdown.                                 *)

CallConnect ==
    /\ user = "idle" /\ owner /\ (link = "off" \/ ConnectsWhenActive) /\ Spend("calls")
    /\ user' = "auth"
    /\ UNCHANGED <<gapVars, lifeVars, subVars, workVars, gapStateVars, closer, result>>

(* disconnect() and stop() differ in what run() does; shutdown also ends the owner. *)
CallDisconnect ==
    /\ user = "idle" /\ Spend("calls")
    /\ owner' \in {owner, FALSE}
    /\ user' = "deactivate"
    /\ UNCHANGED <<gapVars, subVars, workVars, gapStateVars, active, auth, sgen, closer, result>>

ConnectFlags ==
    /\ \/ user = "auth" /\ auth' = FALSE /\ user' = "activate" /\ UNCHANGED active
       \/ user = "activate" /\ active' = TRUE /\ user' = "start" /\ UNCHANGED auth
    /\ UNCHANGED <<gapVars, subVars, workVars, gapStateVars, owner, sgen, closer, result, budget>>

(* websocket_.connect() *)
ConnectStart ==
    /\ user = "start" /\ Start
    /\ user' = "wait"
    /\ UNCHANGED <<lifeVars, subVars, workVars, gapStateVars, closer, result, budget>>

(* wait_until_connected returns, and on a failure the stream is torn down; the
   handshake may complete at any time before that. *)
ConnectWait ==
    /\ user = "wait"
    /\ \/ Connected /\ user' = "idle" /\ result' = "up" /\ UNCHANGED budget
       \/ link = "off" /\ user' = "deactivate" /\ UNCHANGED <<result, budget>>
       \/ ~Connected /\ Spend("faults") /\ user' = "deactivate" /\ UNCHANGED result
    /\ UNCHANGED <<gapVars, lifeVars, subVars, workVars, gapStateVars, closer>>

(* Mutant: a timed-out connect only deactivates the stream. *)
TearDownKeepsTransport ==
    /\ user = "deactivate" /\ Deactivate
    /\ user' = "idle" /\ result' = "down"
    /\ UNCHANGED <<gapVars, subVars, workVars, gapStateVars, owner, auth, closer, budget>>

(* A stream_gap callback that is running goes on when the transport is stopped. *)
Running(r) == \E t \in telling : t.gen = r.gen
StopTransport == Stop /\ (telling = {} \/ reports' = reports)

(* disconnect: deactivate_stream, then the transport is stopped and its threads joined. *)
TearDown ==
    /\ \/ /\ user = "deactivate" /\ Deactivate
          /\ user' = "stop"
          /\ UNCHANGED <<gapVars, result>>
       \/ /\ user = "stop" /\ closer = "none" /\ conn = NoConnect /\ work = Idle
          /\ \A r \in reports : r.own => ~Running(r)
          /\ StopTransport
          /\ user' = "idle" /\ result' = "down"
          /\ UNCHANGED <<active, sgen>>
    /\ UNCHANGED <<subVars, workVars, gapStateVars, owner, auth, closer, budget>>

-----------------------------------------------------------------------------
(* Subscriptions.                                                          *)

Full(s) == [kind |-> "full", markets |-> IF s.all THEN {} ELSE s.markets]
Sync(kind, markets) == [kind |-> kind, markets |-> markets]

(* plan_user_subscription_sync *)
PlanSync(before, after) ==
    LET some(kind, markets) == IF markets = {} THEN <<>> ELSE <<Sync(kind, markets)>>
    IN  IF ~IsActive(after) THEN [reconnect |-> IsActive(before), messages |-> <<>>]
        ELSE [reconnect |-> FALSE,
              messages |->
                  IF ~IsActive(before) THEN <<Full(after)>>
                  ELSE IF after.all
                       THEN IF before.all THEN <<>> ELSE <<Sync("unsubscribe", before.markets)>>
                  ELSE IF before.all THEN <<Sync("subscribe", after.markets)>>
                  ELSE some("subscribe", after.markets \ before.markets)
                       \o some("unsubscribe", before.markets \ after.markets)]

(* External: what the server makes of a message.  An update outside a session is lost. *)
Receives(m) ==
    CASE m.kind = "full" -> [on |-> TRUE, markets |-> m.markets]
      [] m.kind = "subscribe" /\ server.on -> [server EXCEPT !.markets = @ \cup m.markets]
      [] m.kind = "unsubscribe" /\ server.on -> [server EXCEPT !.markets = @ \ m.markets]
      [] OTHER -> server

(* subscribe, subscribe_all_markets, unsubscribe, unsubscribe_all. *)
Updates(s) ==
    {[s EXCEPT !.markets = @ \cup {m}] : m \in Markets}
        \cup {[s EXCEPT !.markets = @ \ {m}] : m \in Markets}
        \cup {[s EXCEPT !.all = TRUE], [all |-> FALSE, markets |-> {}]}

(* update_subscription under subscriptions_mutex_, up to the first send. *)
UpdateSubscription ==
    /\ subs = Idle /\ owner /\ Spend("updates")
    /\ \E new \in Updates(sub) \ {sub} :
          LET plan == PlanSync(sub, new) IN
          /\ sub' = new
          /\ subs' = IF Connected THEN [pc |-> "send", messages |-> plan.messages,
                                        request |-> plan.reconnect]
                     ELSE Idle
    /\ overlap' = (overlap \/ link = "replay")
    /\ UNCHANGED <<gapVars, lifeVars, workVars, gapStateVars, callVars, copy, server, closer>>

(* Its sends; one on a connection that has ended fails or goes nowhere. *)
SendUpdate ==
    /\ subs.pc = "send" /\ subs.messages # <<>>
    /\ \/ /\ Connected
          /\ server' = IF closing \/ link = "lost" THEN server ELSE Receives(Head(subs.messages))
          /\ subs' = [subs EXCEPT !.messages = Tail(@)]
       \/ /\ ~Connected \/ closing \/ link = "lost"
          /\ subs' = [subs EXCEPT !.messages = <<>>, !.request = TRUE]
          /\ UNCHANGED server
    /\ UNCHANGED <<gapVars, lifeVars, workVars, gapStateVars, callVars, sub, copy, closer, overlap, budget>>

(* After the lock: the resnapshot request. *)
FinishUpdate ==
    /\ subs.pc = "send" /\ subs.messages = <<>>
    /\ IF subs.request THEN Request ELSE UNCHANGED gapVars
    /\ subs' = Idle
    /\ UNCHANGED <<lifeVars, workVars, gapStateVars, callVars, sub, copy, server, closer, overlap, budget>>

-----------------------------------------------------------------------------
(* The IXWebSocket thread.                                                 *)

(* handle_stream_gap, in the thread that drew the gap: the two flags ... *)
CheckGap(r) ==
    /\ r \in reports /\ ~r.told /\ ~Running(r)
    /\ IF owner /\ active
       THEN telling' = telling \cup {[gen |-> r.gen, pc |-> "count"]} /\ UNCHANGED gapVars
       ELSE Report(r) /\ UNCHANGED telling
    /\ UNCHANGED <<sgen, recovery, told, waits>>

Advances(r, from, to) ==
    /\ [gen |-> r.gen, pc |-> from] \in telling
    /\ telling' = (telling \ {[gen |-> r.gen, pc |-> from]}) \cup to

(* ... the runtime's generation ... *)
CountGap(r) ==
    /\ Advances(r, "count", {[gen |-> r.gen, pc |-> "store"]})
    /\ sgen' = sgen + 1
    /\ UNCHANGED <<gapVars, recovery, told, waits>>

(* Mutant: only the first gap of an outage is remembered. *)
StoreKeepsFirst(r) ==
    /\ Advances(r, "store", {[gen |-> r.gen, pc |-> "tell"]})
    /\ recovery' = IF recovery = 0 THEN r.gen ELSE recovery
    /\ UNCHANGED <<gapVars, sgen, told, waits>>

(* ... the gap whose recovery is to be reported ... *)
StoreGap(r) ==
    /\ Advances(r, "store", {[gen |-> r.gen, pc |-> "tell"]})
    /\ recovery' = r.gen
    /\ UNCHANGED <<gapVars, sgen, told, waits>>

(* ... and the gap callback. *)
TellGap(r) ==
    /\ Advances(r, "tell", {}) /\ Report(r)
    /\ told' = IF r.gen > told THEN r.gen ELSE told
    /\ waits' = TRUE
    /\ UNCHANGED <<sgen, recovery>>

HandleStreamGap(r) ==
    /\ CheckGap(r) \/ CountGap(r) \/ StoreGap(r) \/ TellGap(r)
    /\ UNCHANGED <<subVars, workVars, callVars, owner, active, auth, closer, conn, budget>>

(* Opening and closing; the subscriptions are copied, then replayed. *)
Transport ==
    /\ \/ Open /\ server' = NoSession /\ overlap' = FALSE /\ UNCHANGED <<copy, budget>>
       \/ Publish /\ UNCHANGED <<copy, server, overlap, budget>>
       \/ CopySubscriptions /\ copy' = sub /\ UNCHANGED <<server, overlap, budget>>
       \/ /\ link = "replay" /\ (closing => ~IsActive(copy)) /\ Replay
          /\ server' = IF IsActive(copy) THEN Receives(Full(copy)) ELSE server
          /\ UNCHANGED <<copy, overlap, budget>>
       \/ /\ link = "replay" /\ closing /\ IsActive(copy) /\ ReplayFails
          /\ pending \/ gen' > gen
          /\ UNCHANGED <<copy, server, overlap, budget>>
       \/ (Drop \/ Lost) /\ UNCHANGED <<copy, server, overlap, budget>>
       \/ (PeerCloses \/ DialFails) /\ Spend("faults") /\ UNCHANGED <<copy, server, overlap>>
       \/ Failed /\ UNCHANGED <<copy, server, overlap, budget>>
       \/ \E r \in reports : /\ ~Running(r) /\ (Abandon(r) \/ CloseSocket(r))
                             /\ UNCHANGED <<copy, server, overlap, budget>>
    /\ UNCHANGED <<lifeVars, workVars, gapStateVars, callVars, sub, subs, closer>>

(* handle_connect: the two flags ... *)
ConnectCheck ==
    /\ link = "connect" /\ conn = NoConnect
    /\ IF owner /\ active THEN conn' = [conn EXCEPT !.pc = "load"] /\ UNCHANGED gapVars
       ELSE OnConnect /\ UNCHANGED conn
    /\ UNCHANGED <<recovery, waits>>

(* ... the load, and the comparison with the client's generation: a gap that comes between
   these two makes the exchange fail, so that both return ... *)
ConnectLoad ==
    /\ conn.pc = "load"
    /\ IF recovery # 0 /\ recovery = gen
       THEN conn' = [pc |-> "swap", gen |-> recovery] /\ UNCHANGED gapVars
       ELSE OnConnect /\ conn' = NoConnect
    /\ UNCHANGED <<recovery, waits>>

(* ... compare_exchange ... *)
ConnectSwap ==
    /\ conn.pc = "swap"
    /\ IF recovery = conn.gen
       THEN recovery' = 0 /\ conn' = [conn EXCEPT !.pc = "call"] /\ UNCHANGED gapVars
       ELSE OnConnect /\ conn' = NoConnect /\ UNCHANGED recovery
    /\ UNCHANGED waits

(* ... and the recovered callback. *)
ConnectRecovered ==
    /\ conn.pc = "call" /\ OnConnect
    /\ conn' = NoConnect /\ waits' = FALSE
    /\ UNCHANGED recovery

HandleConnect ==
    /\ ConnectCheck \/ ConnectLoad \/ ConnectSwap \/ ConnectRecovered
    /\ UNCHANGED <<lifeVars, subVars, workVars, callVars, closer, told, telling, budget>>

(* handle_close: a policy violation ends the stream, any other code reconnects. *)
HandleClose ==
    /\ \/ /\ link = "closed" /\ closer = "none" /\ Closed
          /\ UNCHANGED <<active, auth, sgen, closer, budget>>
       \/ /\ link = "closed" /\ closer = "none" /\ owner /\ active /\ Spend("faults")
          /\ closer' = "auth"
          /\ UNCHANGED <<gapVars, active, auth, sgen>>
       \/ /\ closer = "auth"
          /\ auth' = TRUE /\ closer' = "deactivate"
          /\ UNCHANGED <<gapVars, active, sgen, budget>>
       \/ /\ closer = "deactivate" /\ Deactivate
          /\ closer' = "stop"
          /\ UNCHANGED <<gapVars, auth, budget>>
       \/ /\ closer = "stop" /\ StopTransport
          /\ closer' = "none"
          /\ UNCHANGED <<active, auth, sgen, budget>>
    /\ UNCHANGED <<subVars, workVars, gapStateVars, callVars, owner>>

-----------------------------------------------------------------------------
(* The message worker.                                                     *)

Dispatch ==
    /\ work = Idle /\ Connected /\ Spend("messages")
    /\ work' = [pc |-> "begin", ws |-> gen]
    /\ late' = 0
    /\ UNCHANGED <<gapVars, lifeVars, subVars, gapStateVars, callVars, closer>>

(* handle_message: a message that does not parse asks for a new connection. *)
HandleMessage ==
    /\ work.pc = "begin"
    /\ IF ~Current(sgen, work.ws) THEN work' = Idle /\ UNCHANGED gapVars
       ELSE \/ Request /\ work' = Idle
            \/ /\ work' = [pc |-> "check", ws |-> work.ws, sgen |-> sgen, left |-> 2]
               /\ UNCHANGED gapVars
    /\ UNCHANGED <<lifeVars, subVars, gapStateVars, callVars, closer, late, budget>>

(* Each event: stream_is_current, then its callback. *)
HandleEvent ==
    /\ \/ /\ work.pc = "check"
          /\ work' = IF Current(work.sgen, work.ws) THEN [work EXCEPT !.pc = "fire"] ELSE Idle
          /\ UNCHANGED late
       \/ /\ work.pc = "fire"
          /\ work' = IF work.left = 1 THEN Idle
                     ELSE [work EXCEPT !.left = @ - 1, !.pc = "check"]
          /\ late' = IF Current(work.sgen, work.ws) THEN late ELSE late + 1
    /\ UNCHANGED <<gapVars, lifeVars, subVars, gapStateVars, callVars, closer, budget>>

-----------------------------------------------------------------------------
UserStep == ConnectFlags \/ ConnectStart \/ ConnectWait \/ TearDown
SubsStep == SendUpdate \/ FinishUpdate
WorkStep == HandleMessage \/ HandleEvent
GapReports == \E r \in reports : HandleStreamGap(r)
Next ==
    \/ CallConnect \/ CallDisconnect \/ UserStep
    \/ UpdateSubscription \/ SubsStep
    \/ GapReports \/ Transport \/ HandleConnect \/ HandleClose
    \/ Dispatch \/ WorkStep

(* Threads run; the server accepts connections again.  Calls and faults need not happen. *)
Fairness ==
    /\ WF_vars(UserStep) /\ WF_vars(SubsStep) /\ WF_vars(WorkStep) /\ WF_vars(GapReports)
    /\ WF_vars(Transport /\ budget' = budget) /\ WF_vars(HandleConnect) /\ WF_vars(HandleClose)

-----------------------------------------------------------------------------
(* A connect() that failed, like a disconnect(), leaves neither a running transport nor
   an active stream, even if the handshake completed while it timed out. *)
FailedConnectIsOff == user = "idle" /\ result = "down" => link = "off" /\ ~active

(* handle_message fires at most one event of a message after a gap or a disconnect has
   superseded it: the one whose check had passed. *)
OneLateEvent == late <= 1

(* The gap handle_connect takes for recovered is the newest one handed to the runtime,
   whatever order concurrent reports arrive in: the user was told of it or is about to be
   (recovery_generation_ is stored before the gap callback runs), and of no newer one. *)
Handed == {told} \cup {t.gen : t \in {s \in telling : s.pc = "tell"}}
RecoversNewestGap ==
    [][recovery # 0 /\ recovery' = 0
         => recovery \in Handed /\ \A g \in Handed : g <= recovery]_vars

(* When nothing is under way, the server delivers what subscription_ says.  An update
   that falls between the replay's copy and its send is the only exception. *)
ServerAgrees ==
    (link = "up" /\ ~closing /\ ~pending /\ reports = {} /\ subs = Idle /\ ~overlap)
        => server = IF IsActive(sub) THEN [on |-> TRUE, markets |-> Full(sub).markets]
                    ELSE NoSession

(* A stored gap is taken up, and a gap callback is followed by a recovered callback, or the
   stream is deactivated: also when recovered() came before the gap it answers. *)
GapIsRecovered ==
    /\ (active /\ recovery # 0) ~> (~active \/ recovery = 0)
    /\ (active /\ waits) ~> (~active \/ ~waits)
=============================================================================
