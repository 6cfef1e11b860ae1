--------------------------- MODULE TradeSettlement ---------------------------
(***************************************************************************)
(* Waiting for the fills of an order to settle on-chain.                   *)
(*                                                                         *)
(*   trade_status_tracker.cpp     TradeStatusTracker: the latest status of *)
(*                                each trade pushed on the user stream     *)
(*   clob_order_settlement.cpp    the two forms of ClobClient::            *)
(*                                wait_for_order_fill_settlement: one that *)
(*                                polls REST, one that waits on a tracker  *)
(*   trade_status.hpp             normalized and settled statuses          *)
(*   poll_deadline.hpp            the sleep between two polls              *)
(*                                                                         *)
(* Three parties move on their own: the exchange (a trade is matched,      *)
(* mined, retried and finally confirmed or failed, and the REST database   *)
(* follows with a delay), the user stream's thread (delivers, reorders or  *)
(* loses status events and calls the tracker) and the caller's thread (the *)
(* waiter), which takes the tracker's mutex anew for each of its reads.    *)
(***************************************************************************)
EXTENDS Naturals, Sequences, FiniteSets

CONSTANTS
    Trades,       \* trade ids
    Order,        \* OrderResponse.trade_ids: a sequence, may repeat an id or hold NoId
    NoId,         \* the empty id
    Capacity,     \* TradeStatusTracker::capacity_
    MaxTries,     \* bound, per trade: transactions the exchange sends for it
    MaxWire,      \* bound: events in flight on the user stream
    MaxGaps,      \* bound: interruptions of the user stream
    MaxResends    \* bound: events the exchange sends again without a change

ASSUME OrderAssumption == Order \in Seq(Trades \cup {NoId})
ASSUME CapacityAssumption == Capacity \in Nat \ {0}
ASSUME BoundAssumption ==
    /\ MaxTries \in [Trades -> Nat]
    /\ MaxWire \in Nat
    /\ MaxGaps \in Nat
    /\ MaxResends \in Nat
    /\ NoId \notin Trades

VARIABLES
    truth,        \* external: [status, tries] of each trade at the exchange
    visible,      \* external: what GET /data/trades?id= lists for each trade
    wire,         \* external: events sent on the user stream, not yet delivered
    stream,       \* external: "up", "down" or "resubscribed"
    budget,       \* gaps and resends left
    trades,       \* TradeStatusTracker::trades_ (NoTrade: not in the map)
    arrival,      \* TradeStatusTracker::arrival_order_
    version,      \* TradeStatusTracker::version_
    recoveries,   \* TradeStatusTracker::recoveries_
    waiter,       \* locals of the waiting call
    clock,        \* "early", "due": now >= next_reconcile, "late": now >= deadline
    listed        \* history: fills REST showed settled when the round began

exchange == <<truth, visible, wire, stream, budget>>
tracker  == <<trades, arrival, version, recoveries>>
vars     == <<exchange, tracker, waiter, clock, listed>>

-----------------------------------------------------------------------------
(* Trades and their statuses.                                              *)

Names == {"MATCHED", "MINED", "RETRYING", "CONFIRMED", "FAILED"}

\* A status as it is spelled: the REST API writes TRADE_STATUS_MINED, the
\* user stream MINED.
RawStatus == [prefix : {"", "TRADE_STATUS_"}, name : Names]

\* The part of Trade the wait looks at. Hash 0 is an empty hash; hash k is
\* that of the k-th transaction sent for the trade.
Trade   == [status : RawStatus, hash : Nat]
NoTrade == [status |-> [prefix |-> "", name |-> "absent"], hash |-> 0]

\* Erases the prefix; the rest of the code compares the bare name.
normalized_trade_status(raw) == raw.name

SettledNames == {"CONFIRMED", "FAILED"}

is_settled_trade_status(raw) == normalized_trade_status(raw) \in SettledNames

is_failed_trade_status(raw) == normalized_trade_status(raw) = "FAILED"

\* mutant: any transaction hash is taken for the final one
SettledByAnyHash(trade) ==
    \/ is_failed_trade_status(trade.status)
    \/ trade.hash # 0

has_settlement_details(trade) ==
    \/ normalized_trade_status(trade.status) = "FAILED"
    \/ normalized_trade_status(trade.status) = "CONFIRMED" /\ trade.hash # 0

-----------------------------------------------------------------------------
(* The order.                                                              *)

\* unique_trade_ids: the ids of the order, each once, the empty id left out.
Fills == {Order[i] : i \in DOMAIN Order} \ {NoId}

Position(t) == CHOOSE i \in DOMAIN Order :
                  Order[i] = t /\ \A j \in 1..(i - 1) : Order[j] # t

\* The loops over trade_ids take the fills in the order of their first place.
IsFirst(t, S) == \A u \in S : Position(t) <= Position(u)

\* mutant: the test is inverted
PendingInverted(settled) == {t \in Fills : settled[t] # NoTrade}

\* pending_ids: the fills with no settled trade yet.
pending_ids(settled) == {t \in Fills : settled[t] = NoTrade}

NoFillSettled == [t \in Fills |-> NoTrade]

-----------------------------------------------------------------------------
Results == {"none", "settled", "failed", "timeout", "error", "invalid", "unfilled"}

Idle ==
    [pc |-> "idle", mode |-> "poll", todo |-> {}, settled |-> NoFillSettled,
     asked |-> {}, needs_hash_lookup |-> FALSE, look |-> FALSE, seen |-> 0,
     reconciled |-> 0, result |-> "none", hashes |-> {}]

Init ==
    /\ truth = [t \in Trades |-> [status |-> "MATCHED", tries |-> 0]]
    /\ visible = [t \in Trades |-> NoTrade]
    /\ wire = {}
    /\ stream = "up"
    /\ budget = [gaps |-> MaxGaps, resends |-> MaxResends]
    /\ trades = [t \in Trades |-> NoTrade]
    /\ arrival = <<>>
    /\ version = 0
    /\ recoveries = 0
    /\ waiter = Idle
    /\ clock = "early"
    /\ listed = {}

-----------------------------------------------------------------------------
(* External: the exchange, its REST database and the user stream.          *)

\* Where a trade may go. MINED and RETRYING may alternate; each transaction
\* has a hash of its own. CONFIRMED and FAILED are final.
Move(t) ==
    \/ /\ truth[t].status \in {"MATCHED", "RETRYING"}
       /\ truth[t].tries < MaxTries[t]
       /\ truth' = [truth EXCEPT ![t] = [status |-> "MINED", tries |-> @.tries + 1]]
    \/ /\ truth[t].status = "MINED"
       /\ \E name \in {"RETRYING", "CONFIRMED"} :
             truth' = [truth EXCEPT ![t].status = name]
    \/ /\ truth[t].status \in {"MATCHED", "RETRYING"}
       /\ truth' = [truth EXCEPT ![t].status = "FAILED"]

\* A confirmation may come before its transaction hash is known.
Hashes(state) == IF state.status = "CONFIRMED" THEN {0, state.tries} ELSE {state.tries}

Event(t, name, hash) ==
    [id |-> t, trade |-> [status |-> [prefix |-> "", name |-> name], hash |-> hash]]

\* The status of a trade changes; a connected stream carries the news.
Advance(t) ==
    /\ Move(t)
    /\ stream = "down" \/ Cardinality(wire) < MaxWire
    /\ \E hash \in Hashes(truth'[t]) :
          wire' = IF stream = "down" THEN wire
                  ELSE wire \cup {Event(t, truth'[t].status, hash)}
    /\ UNCHANGED <<visible, stream, budget, tracker, waiter, clock, listed>>

\* The exchange sends the current status again (the hash may now be known).
Resend(t) ==
    /\ stream # "down"
    /\ budget.resends > 0
    /\ Cardinality(wire) < MaxWire
    /\ budget' = [budget EXCEPT !.resends = @ - 1]
    /\ \E hash \in Hashes(truth[t]) :
          wire' = wire \cup {Event(t, truth[t].status, hash)}
    /\ UNCHANGED <<truth, visible, stream, tracker, waiter, clock, listed>>

\* The REST database catches up with the exchange. Once it lists the hash of a
\* settled trade it keeps it.
Publish(t) ==
    /\ \E hash \in Hashes(truth[t]) :
          LET row == [status |-> [prefix |-> "TRADE_STATUS_", name |-> truth[t].status],
                      hash |-> hash]
          IN  /\ row # visible[t]
              /\ ~has_settlement_details(visible[t])
              /\ visible' = [visible EXCEPT ![t] = row]
    /\ UNCHANGED <<truth, wire, stream, budget, tracker, waiter, clock, listed>>

\* The stream drops; any of the events on their way may be lost with it.
Gap ==
    /\ stream = "up"
    /\ budget.gaps > 0
    /\ budget' = [budget EXCEPT !.gaps = @ - 1]
    /\ stream' = "down"
    /\ wire' \in SUBSET wire
    /\ UNCHANGED <<truth, visible, tracker, waiter, clock, listed>>

Resubscribe ==
    /\ stream = "down"
    /\ stream' = "resubscribed"
    /\ UNCHANGED <<truth, visible, wire, budget, tracker, waiter, clock, listed>>

-----------------------------------------------------------------------------
(* TradeStatusTracker, called from the stream's thread.                    *)

Retained == {t \in Trades : trades[t] # NoTrade}

\* mutant: the oldest id is erased from the map but stays in the queue
InsertKeepsOldest(t, trade) ==
    /\ trades' = IF Cardinality(Retained) < Capacity
                 THEN [trades EXCEPT ![t] = trade]
                 ELSE [trades EXCEPT ![t] = trade, ![Head(arrival)] = NoTrade]
    /\ arrival' = Append(arrival, t)

\* A trade not yet known enters the map and the back of the queue; past the
\* capacity the oldest one leaves both.
Insert(t, trade) ==
    IF Cardinality(Retained) < Capacity
    THEN /\ trades' = [trades EXCEPT ![t] = trade]
         /\ arrival' = Append(arrival, t)
    ELSE /\ trades' = [trades EXCEPT ![t] = trade, ![Head(arrival)] = NoTrade]
         /\ arrival' = Append(Tail(arrival), t)

\* record(): one step under mutex_. A settled trade is not replaced by an
\* event of an earlier stage, and such an event wakes nobody.
record(t, trade) ==
    IF trades[t] = NoTrade
    THEN Insert(t, trade) /\ version' = version + 1
    ELSE IF /\ is_settled_trade_status(trades[t].status)
            /\ ~is_settled_trade_status(trade.status)
         THEN UNCHANGED <<trades, arrival, version>>
         ELSE /\ trades' = [trades EXCEPT ![t] = trade]
              /\ version' = version + 1
              /\ UNCHANGED arrival

\* on_trade: the events of a stream may overtake each other.
Deliver ==
    /\ \E e \in wire :
          /\ wire' = wire \ {e}
          /\ record(e.id, e.trade)
    /\ UNCHANGED <<truth, visible, stream, budget, recoveries, waiter, clock, listed>>

\* mutant: a recovery is counted but wakes nobody
RecoveredWakesNobody ==
    /\ stream = "resubscribed"
    /\ stream' = "up"
    /\ recoveries' = recoveries + 1
    /\ UNCHANGED <<truth, visible, wire, budget, trades, arrival, version,
                   waiter, clock, listed>>

\* on_stream_recovered: one step under mutex_.
mark_recovered ==
    /\ stream = "resubscribed"
    /\ stream' = "up"
    /\ recoveries' = recoveries + 1
    /\ version' = version + 1
    /\ UNCHANGED <<truth, visible, wire, budget, trades, arrival, waiter, clock, listed>>

-----------------------------------------------------------------------------
(* The waiting call.                                                       *)

Shared == <<exchange, tracker>>

\* Fills REST lists as settled.
ListedFills == {t \in Fills : has_settlement_details(visible[t])}

Return(result) == waiter' = [waiter EXCEPT !.pc = "done", !.result = result]

\* finish_settlement: the hashes of the fills that did not fail, or an error
\* when every fill failed.
finish_settlement ==
    LET kept == {t \in Fills : ~is_failed_trade_status(waiter.settled[t].status)}
    IN  waiter' = [waiter EXCEPT
                     !.pc = "done",
                     !.result = IF kept = {} THEN "failed" ELSE "settled",
                     !.hashes = {waiter.settled[t].hash : t \in kept}]

\* Entry of either form: an invalid timeout or interval and an order without
\* fills return at once.
Call ==
    /\ waiter.pc = "idle"
    /\ \/ Return("invalid") /\ UNCHANGED <<clock, listed>>
       \/ Fills = {} /\ Return("unfilled") /\ UNCHANGED <<clock, listed>>
       \/ /\ Fills # {}
          /\ waiter' = [waiter EXCEPT !.pc = "lookup", !.mode = "poll", !.todo = Fills]
          /\ clock' = "early"
          /\ listed' = ListedFills
       \/ /\ Fills # {}
          /\ waiter' = [waiter EXCEPT !.pc = "baseline", !.mode = "tracker"]
          /\ clock' = "early"
          /\ UNCHANGED listed
    /\ UNCHANGED Shared

\* reconciled_recoveries = tracker.recoveries()
ReadBaseline ==
    /\ waiter.pc = "baseline"
    /\ waiter' = [waiter EXCEPT !.pc = "version", !.reconciled = recoveries]
    /\ UNCHANGED <<Shared, clock, listed>>

\* seen_version = tracker.version(), before any trade is read
ReadVersion ==
    /\ waiter.pc = "version"
    /\ waiter' = [waiter EXCEPT !.pc = "scan", !.seen = version,
                                !.needs_hash_lookup = FALSE,
                                !.todo = pending_ids(waiter.settled)]
    /\ listed' = ListedFills
    /\ UNCHANGED <<Shared, clock>>

\* One round of the loop over tracker.latest(): a trade with settlement
\* details is kept, a settled one without its hash asks for one REST lookup.
ReadLatest ==
    /\ waiter.pc = "scan"
    /\ \E t \in waiter.todo :
       LET trade == trades[t]
           rest  == waiter.todo \ {t}
           ask   == /\ is_settled_trade_status(trade.status)
                    /\ ~has_settlement_details(trade)
                    /\ t \notin waiter.asked
       IN  /\ IsFirst(t, waiter.todo)
           /\ waiter' = [waiter EXCEPT
                 !.todo = rest,
                 !.pc = IF rest = {} THEN "decide" ELSE "scan",
                 !.settled[t] = IF has_settlement_details(trade) THEN trade ELSE @,
                 !.asked = IF ask THEN @ \cup {t} ELSE @,
                 !.needs_hash_lookup = @ \/ ask]
    /\ UNCHANGED <<Shared, clock, listed>>

\* Every fill settled: leave the loop. Otherwise compare the clock with
\* next_reconcile and the deadline.
Decide ==
    /\ waiter.pc = "decide"
    /\ \/ pending_ids(waiter.settled) = {} /\ finish_settlement
       \/ /\ pending_ids(waiter.settled) # {}
          /\ waiter' = [waiter EXCEPT
                          !.pc = "compare",
                          !.needs_hash_lookup = FALSE,
                          !.look = waiter.needs_hash_lookup \/ clock # "early"]
    /\ UNCHANGED <<Shared, clock, listed>>

\* tracker.recoveries() again, and the choice between REST and waiting.
Compare ==
    /\ waiter.pc = "compare"
    /\ LET look == waiter.look \/ recoveries # waiter.reconciled
       IN  waiter' = [waiter EXCEPT
                        !.pc = IF look THEN "lookup" ELSE "wait",
                        !.todo = IF look THEN pending_ids(waiter.settled) ELSE {},
                        !.look = FALSE,
                        !.reconciled = recoveries]
    /\ UNCHANGED <<Shared, clock, listed>>

\* lookup_trade: an HTTP, rate limit or parse error ends the call. A page
\* without the trade, or with a trade that has no settlement details, leaves
\* the fill pending.
lookup_trade ==
    /\ waiter.pc = "lookup"
    /\ \/ Return("error")
       \/ \E t \in waiter.todo :
          LET rest == waiter.todo \ {t}
          IN  /\ IsFirst(t, waiter.todo)
              /\ waiter' = [waiter EXCEPT
                    !.todo = rest,
                    !.pc = IF rest = {} THEN "after" ELSE "lookup",
                    !.settled[t] = IF has_settlement_details(visible[t])
                                   THEN visible[t] ELSE @]
    /\ UNCHANGED <<Shared, clock, listed>>

\* After a round of lookups: done, timed out, or wait for the next one. The
\* polling form goes to sleep_before_next_poll, the tracker form sets
\* next_reconcile and waits for a change.
AfterLookups ==
    /\ waiter.pc = "after"
    /\ \/ /\ pending_ids(waiter.settled) = {}
          /\ finish_settlement
          /\ UNCHANGED clock
       \/ /\ pending_ids(waiter.settled) # {}
          /\ clock = "late"
          /\ Return("timeout")
          /\ UNCHANGED clock
       \/ /\ pending_ids(waiter.settled) # {}
          /\ clock # "late"
          /\ waiter' = [waiter EXCEPT !.pc = "wait"]
          /\ clock' = "early"
    /\ UNCHANGED <<Shared, listed>>

\* mutant: a wait that ends at the deadline gives up without a last poll
WakeGivesUpLate ==
    /\ waiter.pc = "wait"
    /\ \/ clock = "late" /\ Return("timeout") /\ UNCHANGED listed
       \/ /\ clock # "late" /\ waiter.mode = "tracker"
          /\ clock = "due" \/ version # waiter.seen
          /\ waiter' = [waiter EXCEPT !.pc = "version"] /\ UNCHANGED listed
       \/ /\ clock # "late" /\ waiter.mode = "poll" /\ clock = "due"
          /\ waiter' = [waiter EXCEPT !.pc = "lookup", !.todo = pending_ids(waiter.settled)]
          /\ listed' = ListedFills
    /\ UNCHANGED <<Shared, clock>>

\* mutant: the tracker form waits for a change only
WakeOnChangeOnly ==
    /\ waiter.pc = "wait"
    /\ \/ /\ waiter.mode = "tracker"
          /\ version # waiter.seen
          /\ waiter' = [waiter EXCEPT !.pc = "version"]
          /\ UNCHANGED listed
       \/ /\ waiter.mode = "poll"
          /\ clock # "early"
          /\ waiter' = [waiter EXCEPT !.pc = "lookup", !.todo = pending_ids(waiter.settled)]
          /\ listed' = ListedFills
    /\ UNCHANGED <<Shared, clock>>

\* wait_for_change(seen_version, min(deadline, next_reconcile)), or the end of
\* the sleep between two polls.
Wake ==
    /\ waiter.pc = "wait"
    /\ \/ /\ waiter.mode = "tracker"
          /\ version # waiter.seen \/ clock # "early"
          /\ waiter' = [waiter EXCEPT !.pc = "version"]
          /\ UNCHANGED listed
       \/ /\ waiter.mode = "poll"
          /\ clock # "early"
          /\ waiter' = [waiter EXCEPT !.pc = "lookup", !.todo = pending_ids(waiter.settled)]
          /\ listed' = ListedFills
    /\ UNCHANGED <<Shared, clock>>

Active == waiter.pc \notin {"idle", "done"}

\* steady_clock passes next_reconcile (the next poll). Past the deadline the
\* code treats every reading alike, so "late" stands for both.
Due ==
    /\ Active
    /\ clock = "early"
    /\ clock' = "due"
    /\ UNCHANGED <<Shared, waiter, listed>>

\* steady_clock passes the deadline.
Late ==
    /\ Active
    /\ clock # "late"
    /\ clock' = "late"
    /\ UNCHANGED <<Shared, waiter, listed>>

Waiter ==
    \/ ReadBaseline
    \/ ReadVersion
    \/ ReadLatest
    \/ Decide
    \/ Compare
    \/ lookup_trade
    \/ AfterLookups
    \/ Wake

Exchange ==
    \/ \E t \in Trades : Advance(t) \/ Resend(t) \/ Publish(t)
    \/ Gap
    \/ Resubscribe

Next ==
    \/ Exchange
    \/ Deliver
    \/ mark_recovered
    \/ Call
    \/ Waiter
    \/ Due
    \/ Late

Spec == Init /\ [][Next]_vars

-----------------------------------------------------------------------------
(* Properties.                                                             *)

Pcs == {"idle", "baseline", "version", "scan", "decide", "compare", "lookup",
        "after", "wait", "done"}

\* Types of the state (trade_status_tracker.hpp:48-55 and the locals of
\* wait_for_order_fill_settlement): in particular a round of lookups or of
\* reads always has a pending fill left to read.
TypeOK ==
    /\ truth \in [Trades -> [status : Names, tries : Nat]]
    /\ visible \in [Trades -> Trade \cup {NoTrade}]
    /\ wire \in SUBSET [id : Trades, trade : Trade]
    /\ stream \in {"up", "down", "resubscribed"}
    /\ budget \in [gaps : 0..MaxGaps, resends : 0..MaxResends]
    /\ trades \in [Trades -> Trade \cup {NoTrade}]
    /\ arrival \in Seq(Trades)
    /\ version \in Nat
    /\ recoveries \in Nat
    /\ waiter \in [pc : Pcs, mode : {"poll", "tracker"}, todo : SUBSET Fills,
                   settled : [Fills -> Trade \cup {NoTrade}], asked : SUBSET Fills,
                   needs_hash_lookup : BOOLEAN, look : BOOLEAN, seen : Nat,
                   reconciled : Nat, result : Results, hashes : SUBSET Nat]
    /\ clock \in {"early", "due", "late"}
    /\ listed \in SUBSET Fills
    /\ waiter.pc \in {"scan", "lookup"} => waiter.todo # {}

\* The tracker's queue and map agree (record, trade_status_tracker.cpp:41-67):
\* every retained trade is queued exactly once, nothing else is queued, and
\* there are never more than capacity_ of them.
ArrivalMatchesTrades ==
    /\ {arrival[i] : i \in DOMAIN arrival} = Retained
    /\ \A i, j \in DOMAIN arrival : arrival[i] = arrival[j] => i = j
    /\ Len(arrival) <= Capacity

\* What the exchange has decided for good, seen from a trade record.
Agrees(t, trade) ==
    /\ normalized_trade_status(trade.status) = truth[t].status
    /\ truth[t].status = "CONFIRMED" => trade.hash = truth[t].tries

\* A returned settlement is the final one, whichever of the stream and REST
\* supplied each fill, in whatever order (clob_order_settlement.cpp:75-96): every
\* fill is confirmed or failed at the exchange with the status reported, the
\* hashes are exactly those of the transactions that confirmed fills (never of
\* a transaction that was retried), and the failure TransactionFailed means
\* that every fill failed.
SettlementFinal ==
    /\ waiter.result = "settled" =>
          /\ \A t \in Fills : Agrees(t, waiter.settled[t]) /\ truth[t].status \in SettledNames
          /\ waiter.hashes = {truth[t].tries : t \in {u \in Fills : truth[u].status = "CONFIRMED"}}
          /\ waiter.hashes # {} /\ 0 \notin waiter.hashes
    /\ waiter.result = "failed" => \A t \in Fills : truth[t].status = "FAILED"

\* The tracker form never sleeps on news it could act on (version is read
\* before the trades, clob_order_settlement.cpp:205, and the wait compares with
\* that reading, trade_status_tracker.cpp:103): while it stays blocked, no
\* pending fill has settlement details in the tracker, a settled status without
\* its hash has had its lookup, and the last recovery has been reconciled.
NoLostWakeup ==
    (waiter.pc = "wait" /\ waiter.mode = "tracker" /\ version = waiter.seen) =>
       /\ \A t \in pending_ids(waiter.settled) :
             /\ ~has_settlement_details(trades[t])
             /\ is_settled_trade_status(trades[t].status) => t \in waiter.asked
       /\ waiter.reconciled = recoveries

\* A timeout names only fills that were really unsettled: no fill that REST
\* already listed as settled when the last wait ended is reported as pending
\* (poll_deadline.hpp:17-19 "a final poll at the deadline", and the lookup
\* forced by now >= deadline, clob_order_settlement.cpp:225).
TimeoutIsHonest ==
    waiter.result = "timeout" => pending_ids(waiter.settled) \cap listed = {}

\* The call has to return: REST lists every fill as settled, or the deadline has
\* passed (clob_order_settlement.cpp:145-248).
WaitOwed == Active /\ (clock = "late" \/ ListedFills = Fills)
=============================================================================
