------------------------------ MODULE JsonRpcWs ------------------------------
(***************************************************************************)
(* EvmJsonRpcWsRuntime: eth_subscribe over a WebSocketClient, composed     *)
(* with GapStream.  Threads: `user' connects and disconnects, `subs'       *)
(* subscribes, the IXWebSocket thread resubscribes in the connect callback *)
(* (`resub').  Subscriptions are numbered in the order they were stored;   *)
(* their types and filters are data, and so are the notifications.         *)
(***************************************************************************)
EXTENDS GapStream, Sequences

CONSTANT Budgets    \* bounds: how many events of each kind may happen

VARIABLES
    owner,     \* owner_active_
    active,    \* stream_active_
    sgen,      \* stream_generation_ of the runtime
    stored,    \* size of subscriptions_
    sent,      \* history: how often each was sent on this connection
    failed,    \* history: a send failed on this connection, or the stream was inactive
    user, subs, resub,   \* where the threads are
    heard,     \* history: newest gap the error callback was told of
    loss,      \* history: gap of the last connection lost since the stream was activated
    budget     \* events of each kind that may still happen

lifeVars == <<owner, active, sgen, user>>
subVars == <<stored, sent, failed>>
vars == <<gapVars, lifeVars, subVars, subs, resub, heard, loss, budget>>

Idle == [pc |-> "idle"]

InitState ==
    /\ GapInit
    /\ owner = TRUE /\ active = FALSE /\ sgen = 0 /\ user = "idle"
    /\ stored = 0 /\ sent = <<>> /\ failed = FALSE
    /\ subs = Idle /\ resub = Idle /\ heard = 0 /\ loss = 0
Init == InitState /\ budget \in Budgets

Spend(kind) == budget[kind] > 0 /\ budget' = [budget EXCEPT ![kind] = @ - 1]

(* dispatch_is_current *)
IsCurrent(s) == owner /\ active /\ s = sgen

-----------------------------------------------------------------------------
(* connect does not wait; disconnect, stop and shutdown deactivate first. *)
Call ==
    /\ user = "idle" /\ Spend("calls")
    /\ \/ owner /\ active' = TRUE /\ user' = "start" /\ UNCHANGED <<owner, sgen, loss>>
       \/ /\ owner' \in {owner, FALSE}
          /\ active' = FALSE /\ sgen' = IF active THEN sgen + 1 ELSE sgen
          /\ user' = "stop" /\ loss' = 0
    /\ failed' = (failed \/ (link # "off" /\ ~active'))
    /\ UNCHANGED <<gapVars, stored, sent, subs, resub, heard>>

EndCall ==
    /\ \/ user = "start" /\ Start
       \/ user = "stop" /\ resub = Idle /\ Stop
    /\ user' = "idle"
    /\ UNCHANGED <<owner, active, sgen, subVars, subs, resub, heard, loss, budget>>

-----------------------------------------------------------------------------
(* send_subscription of number i for a caller that read generation g: whether it was
   sent, and whether it was accepted. *)
Send(i, g) ==
    \/ /\ IsCurrent(g) /\ Connected
       /\ sent' = IF closing \/ link = "lost" THEN sent ELSE [sent EXCEPT ![i] = @ + 1]
       /\ UNCHANGED failed
    \/ /\ ~IsCurrent(g) \/ ~Connected \/ closing \/ link = "lost"
       /\ failed' = TRUE /\ UNCHANGED sent
SendFailed == failed' # failed \/ (failed /\ sent' = sent)

(* Mutant: the connection is looked at before the subscription is stored. *)
SubscribeChecksFirst ==
    /\ \/ /\ subs = Idle /\ owner /\ Spend("updates")
          /\ subs' = [pc |-> "store", up |-> Connected] /\ UNCHANGED <<subVars, sent>>
       \/ /\ subs.pc = "store"
          /\ stored' = stored + 1 /\ sent' = Append(sent, 0)
          /\ subs' = IF subs.up THEN [pc |-> "send", gen |-> sgen] ELSE Idle
          /\ UNCHANGED <<failed, budget>>
       \/ /\ subs.pc = "send" /\ Send(stored, subs.gen)
          /\ subs' = Idle /\ UNCHANGED <<stored, budget>>
    /\ UNCHANGED <<gapVars, lifeVars, resub, heard, loss>>

(* subscribe_logs, subscribe_pending_transactions, subscribe_new_heads: store under the
   lock, read the generation, and send unless the replay will. *)
Subscribe ==
    /\ \/ /\ subs = Idle /\ owner /\ Spend("updates")
          /\ stored' = stored + 1 /\ sent' = Append(sent, 0)
          /\ subs' = [pc |-> "read"] /\ UNCHANGED failed
       \/ /\ subs.pc = "read"
          /\ subs' = [pc |-> "check", gen |-> sgen] /\ UNCHANGED <<subVars, budget>>
       \/ /\ subs.pc = "check"
          /\ subs' = IF owner /\ Connected THEN [subs EXCEPT !.pc = "send"] ELSE Idle
          /\ UNCHANGED <<subVars, budget>>
       \/ /\ subs.pc = "send" /\ Send(stored, subs.gen)
          /\ subs' = Idle /\ UNCHANGED <<stored, budget>>
    /\ UNCHANGED <<gapVars, lifeVars, resub, heard, loss>>

(* resubscribe, in the connect callback: a failed send ends it. *)
Resubscribe ==
    /\ \/ /\ link = "connect" /\ resub = Idle
          /\ IF IsCurrent(sgen)
             THEN resub' = [pc |-> "send", next |-> 1, last |-> stored, gen |-> sgen] /\ UNCHANGED gapVars
             ELSE OnConnect /\ UNCHANGED resub
          /\ UNCHANGED <<sent, failed>>
       \/ /\ resub.pc = "send" /\ resub.next <= resub.last /\ Send(resub.next, resub.gen)
          /\ resub' = [resub EXCEPT !.next = IF SendFailed THEN resub.last + 1 ELSE @ + 1]
          /\ UNCHANGED gapVars
       \/ /\ resub.pc = "send" /\ resub.next > resub.last
          /\ resub' = Idle
          /\ IF link = "connect" THEN OnConnect ELSE UNCHANGED gapVars
          /\ UNCHANGED <<sent, failed>>
    /\ UNCHANGED <<lifeVars, stored, subs, heard, loss, budget>>

-----------------------------------------------------------------------------
(* emit_error: the newest gap the user hears of. *)
EmitError(g) == IF IsCurrent(sgen) /\ g > heard THEN g ELSE heard

(* on_stream_gap: the gap of the first connection is not an error. *)
OnStreamGap(r) ==
    /\ Report(r) /\ heard' = IF r.gen > 1 THEN EmitError(r.gen) ELSE heard
    /\ UNCHANGED <<lifeVars, subVars, subs, resub, loss, budget>>

Transport ==
    /\ \/ /\ Open
          /\ sent' = [i \in DOMAIN sent |-> 0] /\ failed' = ~active
          /\ UNCHANGED <<loss, budget>>
       \/ /\ Publish \/ (link = "restore" /\ Replay) \/ Lost \/ Closed \/ Failed
                \/ \E r \in reports : Abandon(r) \/ CloseSocket(r)
          /\ UNCHANGED <<sent, failed, loss, budget>>
       \/ Drop /\ loss' = (IF active THEN gen' ELSE loss) /\ UNCHANGED <<sent, failed, budget>>
       \/ (PeerCloses \/ DialFails) /\ Spend("faults") /\ UNCHANGED <<sent, failed, loss>>
    /\ UNCHANGED <<lifeVars, stored, subs, resub, heard>>

GapReports == \E r \in reports : OnStreamGap(r)
Next == Call \/ EndCall \/ Subscribe \/ Resubscribe \/ GapReports \/ Transport

-----------------------------------------------------------------------------
(* Once a connection is up, every stored subscription was sent on it, by the replay or by
   its caller; only a failed send or a deactivated stream excuses it. *)
NoLostSubscription ==
    (link = "up" /\ active /\ ~closing /\ subs = Idle /\ ~failed)
        => \A i \in 1..stored : sent[i] > 0

(* The replay and the caller may both send a subscription; nobody sends it a third time. *)
SentAtMostTwice == \A i \in DOMAIN sent : sent[i] <= 2

(* A connection lost while the stream is active has been reported through on_error before
   the next attempt begins: the indexer starts its overlap scan on that report. *)
LossReported == active /\ link # "lost" => heard >= loss
=============================================================================
