----------------------------- MODULE PublicStream -----------------------------
(***************************************************************************)
(* PublicStream with RtdsStreamRuntime and SportsStreamRuntime on top,     *)
(* composed with GapStream.  Threads: `user' connects and disconnects,     *)
(* `subs' adds and removes RTDS subscriptions, `work' is the message       *)
(* worker, `telling' the gap reports and `conn' the connect callback.  A   *)
(* Sports stream is one without subscriptions whose messages have a single *)
(* target, called without another check.                                   *)
(***************************************************************************)
EXTENDS GapStream, Sequences, FiniteSets

CONSTANTS
    Keys,      \* the server keys of each subscription that may be added
    Budgets    \* bounds: how many events of each kind may happen

VARIABLES
    owner,     \* owner_active_
    active,    \* stream_active_
    recovery,  \* recovery_generation_
    added,     \* subscriptions_, and what replace_subscriptions was given
    copy,      \* the copy restore_subscriptions sends
    server,    \* external: keys the server sends events for
    user, subs, work,         \* where the threads are
    telling,   \* the handle_gap calls that are under way
    conn,      \* where handle_connect is, and the generation it has taken
    result,    \* what the last finished connect or disconnect left behind
    gap,       \* history: the gap callback has run and the recovered callback has not
    late,      \* history: deliveries of this message after it was superseded
    overlap,   \* history: a change came between copy and replay
    budget     \* events of each kind that may still happen

lifeVars == <<owner, active, user, result>>
subVars == <<added, copy, server, subs, overlap>>
workVars == <<work, late>>
gapStateVars == <<recovery, telling, conn, gap>>
vars == <<gapVars, lifeVars, subVars, workVars, gapStateVars, budget>>

Idle == [pc |-> "idle"]
NoConnect == [pc |-> "none", gen |-> 0]

InitState ==
    /\ GapInit
    /\ owner = TRUE /\ active = FALSE /\ user = "idle" /\ result = "none"
    /\ recovery = 0 /\ telling = {} /\ conn = NoConnect /\ gap = FALSE
    /\ added = {} /\ copy = {} /\ server = {} /\ subs = Idle /\ overlap = FALSE
    /\ work = Idle /\ late = 0
Init == InitState /\ budget \in Budgets

Spend(kind) == budget[kind] > 0 /\ budget' = [budget EXCEPT ![kind] = @ - 1]

(* active, is_current *)
IsActive == owner /\ active
IsCurrent(g) == IsActive /\ g = gen

-----------------------------------------------------------------------------
(* connect, disconnect and stop, shutdown.                                 *)

CallConnect ==
    /\ user = "idle" /\ owner /\ Spend("calls")
    /\ active' = TRUE /\ user' = "start"
    /\ UNCHANGED <<gapVars, subVars, workVars, gapStateVars, owner, result>>

(* websocket_.connect(), wait_until_connected, and disconnect() on a failure. *)
Connect ==
    /\ \/ user = "start" /\ Start /\ user' = "wait" /\ UNCHANGED <<result, budget>>
       \/ /\ user = "wait" /\ UNCHANGED gapVars
          /\ \/ Connected /\ user' = "idle" /\ result' = "up" /\ UNCHANGED budget
             \/ link = "off" /\ user' = "deactivate" /\ UNCHANGED <<result, budget>>
             \/ ~Connected /\ Spend("faults") /\ user' = "deactivate" /\ UNCHANGED result
    /\ UNCHANGED <<subVars, workVars, gapStateVars, owner, active>>

(* shutdown also ends the owner, and RTDS forgets its subscriptions. *)
CallDisconnect ==
    /\ user = "idle" /\ Spend("calls")
    /\ \/ UNCHANGED <<owner, added>>
       \/ subs = Idle /\ owner' = FALSE /\ added' = {}
    /\ user' = "deactivate"
    /\ UNCHANGED <<gapVars, copy, server, subs, overlap, workVars, gapStateVars, active, result>>

(* The stream_gap callback of r is running. *)
Running(r) == \E t \in telling : t.gen = r.gen

Disconnect ==
    /\ \/ /\ user = "deactivate"
          /\ active' = FALSE /\ user' = "stop" /\ UNCHANGED <<gapVars, result>>
       \/ /\ user = "stop" /\ conn = NoConnect /\ work = Idle /\ Stop
          /\ \A r \in reports : r.own => ~Running(r)
          /\ telling = {} \/ reports' = reports   \* a callback that is running goes on
          /\ user' = "idle" /\ result' = "down" /\ UNCHANGED active
    /\ UNCHANGED <<subVars, workVars, gapStateVars, owner, budget>>

-----------------------------------------------------------------------------
(* RTDS subscriptions.                                                     *)

(* server_keys *)
ServerKeys(s) == UNION {Keys[id] : id \in s}

(* Mutant: the keys of a removed subscription are unsubscribed, shared or not. *)
SyncForgetsShared(before, after) ==
    LET frame(kind, keys) == IF keys = {} THEN <<>> ELSE <<[kind |-> kind, keys |-> keys]>>
    IN  frame("subscribe", ServerKeys(after) \ ServerKeys(before))
            \o frame("unsubscribe", ServerKeys(before \ after))

(* The frames of sync. *)
Sync(before, after) ==
    LET frame(kind, keys) == IF keys = {} THEN <<>> ELSE <<[kind |-> kind, keys |-> keys]>>
    IN  frame("subscribe", ServerKeys(after) \ ServerKeys(before))
            \o frame("unsubscribe", ServerKeys(before) \ ServerKeys(after))

(* add and remove, under mutex_, up to the first frame. *)
Update ==
    /\ subs = Idle /\ owner /\ Spend("updates")
    /\ \E id \in DOMAIN Keys :
          LET after == IF id \in added THEN added \ {id} ELSE added \cup {id} IN
          /\ added' = after
          /\ subs' = [pc |-> "send", request |-> FALSE,
                      frames |-> IF owner /\ Connected THEN Sync(added, after) ELSE <<>>]
    /\ overlap' = (overlap \/ link = "replay")
    /\ UNCHANGED <<gapVars, lifeVars, copy, server, workVars, gapStateVars>>

(* The frames are sent; one on a connection that has ended fails or goes nowhere. *)
SendFrame ==
    /\ subs.pc = "send" /\ subs.frames # <<>>
    /\ LET f == Head(subs.frames) IN
       \/ /\ Connected
          /\ server' = IF closing \/ link = "lost" THEN server
                       ELSE IF f.kind = "subscribe" THEN server \cup f.keys ELSE server \ f.keys
          /\ subs' = [subs EXCEPT !.frames = Tail(@)]
       \/ /\ ~Connected \/ closing \/ link = "lost"
          /\ subs' = [subs EXCEPT !.frames = <<>>, !.request = TRUE]
          /\ UNCHANGED server
    /\ UNCHANGED <<gapVars, lifeVars, added, copy, overlap, workVars, gapStateVars, budget>>

(* After the lock: the resnapshot request of a failed frame. *)
EndUpdate ==
    /\ subs.pc = "send" /\ subs.frames = <<>>
    /\ IF subs.request THEN Request ELSE UNCHANGED gapVars
    /\ subs' = Idle
    /\ UNCHANGED <<lifeVars, added, copy, server, overlap, workVars, gapStateVars, budget>>

-----------------------------------------------------------------------------
(* The IXWebSocket thread and the gap reports.                             *)

(* handle_gap, in the thread that drew the gap: active() ... *)
CheckGap(r) ==
    /\ r \in reports /\ ~r.told /\ ~Running(r)
    /\ IF IsActive
       THEN telling' = telling \cup {[gen |-> r.gen, pc |-> "store"]} /\ UNCHANGED gapVars
       ELSE Report(r) /\ UNCHANGED telling
    /\ UNCHANGED <<recovery, gap>>

Advances(r, from, to) ==
    /\ [gen |-> r.gen, pc |-> from] \in telling
    /\ telling' = (telling \ {[gen |-> r.gen, pc |-> from]}) \cup to

(* Mutant: an outage keeps the generation of its first gap. *)
StoreKeepsFirst(r) ==
    /\ Advances(r, "store", {[gen |-> r.gen, pc |-> "tell"]})
    /\ recovery' = IF recovery = 0 THEN r.gen ELSE recovery
    /\ UNCHANGED <<gapVars, gap>>

(* ... the gap whose recovery is to be reported ... *)
StoreGap(r) ==
    /\ Advances(r, "store", {[gen |-> r.gen, pc |-> "tell"]})
    /\ recovery' = r.gen
    /\ UNCHANGED <<gapVars, gap>>

(* ... and the gap callback. *)
TellGap(r) ==
    /\ Advances(r, "tell", {}) /\ Report(r)
    /\ gap' = TRUE
    /\ UNCHANGED recovery

HandleGap(r) ==
    /\ CheckGap(r) \/ StoreGap(r) \/ TellGap(r)
    /\ UNCHANGED <<lifeVars, subVars, workVars, conn, budget>>

(* handle_connect: active() ... *)
ConnectCheck ==
    /\ link = "connect" /\ conn = NoConnect
    /\ IF IsActive THEN conn' = [conn EXCEPT !.pc = "take"] /\ UNCHANGED gapVars
       ELSE OnConnect /\ UNCHANGED conn
    /\ UNCHANGED <<recovery, gap>>

(* ... the exchange ... *)
ConnectTake ==
    /\ conn.pc = "take"
    /\ recovery' = 0
    /\ conn' = [pc |-> "compare", gen |-> recovery]
    /\ UNCHANGED <<gapVars, gap>>

(* ... the comparison with the client's generation ... *)
ConnectCompare ==
    /\ conn.pc = "compare"
    /\ IF conn.gen # 0 /\ conn.gen = gen
       THEN conn' = [conn EXCEPT !.pc = "call"] /\ UNCHANGED gapVars
       ELSE OnConnect /\ conn' = NoConnect
    /\ UNCHANGED <<recovery, gap>>

(* ... and the recovered callback. *)
ConnectRecovered ==
    /\ conn.pc = "call" /\ OnConnect
    /\ conn' = NoConnect /\ gap' = FALSE
    /\ UNCHANGED recovery

HandleConnect ==
    /\ ConnectCheck \/ ConnectTake \/ ConnectCompare \/ ConnectRecovered
    /\ UNCHANGED <<lifeVars, subVars, workVars, telling, budget>>

Transport ==
    /\ \/ Open /\ server' = {} /\ overlap' = FALSE /\ UNCHANGED <<copy, budget>>
       \/ CopySubscriptions /\ copy' = added /\ UNCHANGED <<server, overlap, budget>>
       \/ /\ link = "replay" /\ (closing => copy = {}) /\ Replay
          /\ server' = server \cup ServerKeys(copy)
          /\ UNCHANGED <<copy, overlap, budget>>
       \/ /\ link = "replay" /\ closing /\ copy # {} /\ ReplayFails
          /\ pending \/ gen' > gen
          /\ UNCHANGED <<copy, server, overlap, budget>>
       \/ /\ Publish \/ Drop \/ Lost \/ Closed \/ Failed
                \/ \E r \in reports : ~Running(r) /\ (Abandon(r) \/ CloseSocket(r))
          /\ UNCHANGED <<copy, server, overlap, budget>>
       \/ (PeerCloses \/ DialFails) /\ Spend("faults") /\ UNCHANGED <<copy, server, overlap>>
    /\ UNCHANGED <<lifeVars, added, subs, workVars, gapStateVars>>

-----------------------------------------------------------------------------
(* The message worker.                                                     *)

(* PublicStream::handle_message *)
HandleMessage ==
    /\ work = Idle /\ Connected /\ Spend("messages")
    /\ work' = IF IsActive THEN [pc |-> "parse", gen |-> gen] ELSE Idle
    /\ late' = 0
    /\ UNCHANGED <<gapVars, lifeVars, subVars, gapStateVars>>

(* RTDS: the targets are copied under mutex_, which add and remove hold. *)
Parse ==
    /\ work.pc = "parse" /\ subs.pc = "idle"
    /\ work' = IF added = {} THEN Idle
               ELSE [pc |-> "check", gen |-> work.gen, left |-> Cardinality(added)]
    /\ UNCHANGED <<gapVars, lifeVars, subVars, late, gapStateVars, budget>>

(* Sports, which has no subscriptions: one callback, with no further check. *)
SportsMessage ==
    /\ work.pc = "parse" /\ added = {}
    /\ work' = [pc |-> "fire", gen |-> work.gen, left |-> 1]
    /\ UNCHANGED <<gapVars, lifeVars, subVars, late, gapStateVars, budget>>

(* A message that cannot be read: check, report, check again, ask for a connection. *)
ReportInvalidMessage ==
    /\ \/ /\ work.pc = "parse" /\ UNCHANGED gapVars
          /\ work' = IF IsCurrent(work.gen) THEN [work EXCEPT !.pc = "invalid"] ELSE Idle
       \/ /\ work.pc = "invalid" /\ work' = Idle
          /\ IF IsCurrent(work.gen) THEN Request ELSE UNCHANGED gapVars
    /\ UNCHANGED <<lifeVars, subVars, late, gapStateVars, budget>>

(* Each target: is_current, then its callback. *)
Deliver ==
    /\ \/ /\ work.pc = "check" /\ UNCHANGED late
          /\ work' = IF IsCurrent(work.gen) THEN [work EXCEPT !.pc = "fire"] ELSE Idle
       \/ /\ work.pc = "fire"
          /\ late' = IF IsCurrent(work.gen) THEN late ELSE late + 1
          /\ work' = IF work.left = 1 THEN Idle ELSE [work EXCEPT !.left = @ - 1, !.pc = "check"]
    /\ UNCHANGED <<gapVars, lifeVars, subVars, gapStateVars, budget>>

-----------------------------------------------------------------------------
UserStep == Connect \/ Disconnect
SubsStep == SendFrame \/ EndUpdate
WorkStep == Parse \/ SportsMessage \/ ReportInvalidMessage \/ Deliver
GapReports == \E r \in reports : HandleGap(r)
Next ==
    \/ CallConnect \/ CallDisconnect \/ UserStep
    \/ Update \/ SubsStep \/ GapReports \/ HandleConnect \/ Transport
    \/ HandleMessage \/ WorkStep

(* Threads run; the server accepts connections again. *)
Fairness ==
    /\ WF_vars(UserStep) /\ WF_vars(SubsStep) /\ WF_vars(WorkStep) /\ WF_vars(GapReports)
    /\ WF_vars(HandleConnect) /\ WF_vars(Transport /\ budget' = budget)

-----------------------------------------------------------------------------
(* When nothing is under way the server sends exactly the keys some subscription needs,
   so removing one of two subscriptions that share a key does not silence the other. *)
KeysAgree ==
    (owner /\ link = "up" /\ ~closing /\ ~pending /\ reports = {} /\ subs = Idle /\ ~overlap)
        => server = ServerKeys(added)

(* A failed connect() and a disconnect() leave neither a transport nor an active stream. *)
PublicConnectIsOff == user = "idle" /\ result = "down" => link = "off" /\ ~active

(* A message reaches at most one target after a gap or a disconnect has superseded it. *)
OneLateDelivery == late <= 1

(* A gap told to the user is followed by the recovered callback or a disconnect, although
   handle_connect forgets the pending generation before it compares it. *)
PublicGapRecovers == (active /\ gap) ~> (~active \/ ~gap)
=============================================================================
