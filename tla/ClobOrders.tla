------------------------------ MODULE ClobOrders ------------------------------
(***************************************************************************)
(* The order path of ClobClient for one token: the cache of market         *)
(* metadata shared by all threads (clob_market_metadata.cpp), the lookups, *)
(* books and checks an order passes (clob_order_placement.cpp,             *)
(* clob_order_execution.cpp, market_price_client.cpp) and the POST that    *)
(* ends it (clob_order_submission.cpp).                                    *)
(*                                                                         *)
(* A call is the sequence of steps it still has to take.  Prices are       *)
(* numbers and a tick size is the distance of the grid; the server may     *)
(* change the tick at any time, and `now' numbers its changes.  Signing,   *)
(* amounts and the rest of the order are data.                             *)
(***************************************************************************)
EXTENDS Naturals, Sequences, FiniteSets

CONSTANTS Callers,   \* threads using the client
          Prices,    \* prices an order may ask for
          Ticks,     \* tick sizes
          Budgets    \* bounds: the tasks of a history, its calls, tick changes and faults

VARIABLES market,      \* the server: its tick size and the number of its change
          tickCache,   \* tick_size_cache_ of the token
          negCache,    \* neg_risk_cache_ has the token
          inFlight,    \* metadata_cache_in_flight_
          call,        \* thread |-> the call it is in
          clearedAt,   \* history: server time of the last clear
          posted,      \* history: thread |-> the prices its call has posted
          booked,      \* history: a book has put a tick into the cache
          budget

vars == <<market, tickCache, negCache, inFlight, call, clearedAt, posted, booked, budget>>

None == [tick |-> 0, read |-> 0, by |-> "nobody"]
Keys == {"tick", "neg"}

\* create_order and create_market_order (with its price given), when neither the
\* tick size nor the neg-risk flag is among their parameters.
CreateOrder == <<"tick", "validate", "neg">>
CreateMarketOrder == <<"tick", "validate", "neg">>

\* What a call does, step by step.  A market order with a worst price takes the
\* steps of a limit order.
Steps == [tick |-> <<"tick">>, neg |-> <<"neg">>, book |-> <<"book">>, clear |-> <<"clear">>,
          estimate |-> <<"book", "tick", "quote">>,
          limit |-> <<"tick", "grid">> \o CreateOrder \o <<"post">>,
          requested |-> <<"cached">> \o Tail(CreateOrder) \o <<"post">>,
          market |-> <<"book", "tick", "price">> \o CreateMarketOrder \o <<"post">>]

Resting == [task |-> "none", todo |-> <<>>, phase |-> "run", price |-> 0, level |-> 0,
            got |-> None, since |-> 0, result |-> "none"]

InitState ==
  /\ market \in [tick : Ticks, now : {0}]
  /\ tickCache = None /\ negCache = FALSE /\ inFlight = {}
  /\ call = [t \in Callers |-> Resting]
  /\ clearedAt = 0
  /\ posted = [t \in Callers |-> <<>>] /\ booked = FALSE

Init == InitState /\ budget \in Budgets

Spend(kind) == budget[kind] > 0 /\ budget' = [budget EXCEPT ![kind] = @ - 1]
Busy(t) == call[t].todo # <<>>
At(t, steps, phase) == Busy(t) /\ Head(call[t].todo) \in steps /\ call[t].phase = phase

\* The call goes on after its step, or it is over.
Advance(t, c) ==
  call' = [call EXCEPT ![t] =
             [c EXCEPT !.todo = Tail(@), !.phase = "run",
                       !.result = IF Len(c.todo) = 1 THEN "ok" ELSE "none"]]
Fail(t, why) == call' = [call EXCEPT ![t].todo = <<>>, ![t].phase = "run", ![t].result = why]
Phase(t, phase) == call' = [call EXCEPT ![t].phase = phase]

OnGrid(price, tick) == price % tick = 0

-------------------------------------------------------------------------------
\* place_limit_order and place_market_order after their argument checks, and the
\* plain lookups.  With a requested tick size the price is checked against it.
Begin(t, task, price, tick) ==
  /\ ~Busy(t) /\ Spend("calls") /\ task \in budget.tasks
  /\ call' = [call EXCEPT ![t] = [Resting EXCEPT !.task = task, !.todo = Steps[task],
                                  !.price = price, !.level = tick, !.since = market.now]]
  /\ posted' = [posted EXCEPT ![t] = <<>>]
  /\ UNCHANGED <<market, tickCache, negCache, inFlight, clearedAt, booked>>

Cached(key) == IF key = "tick" THEN tickCache # None ELSE negCache

\* The head of tick_size_result and neg_risk_result: a hit, a fetch of its own,
\* or a wait for the fetch of another thread.
Lookup(t) ==
  /\ At(t, Keys, "run")
  /\ LET key == Head(call[t].todo)
     IN IF Cached(key)
        THEN Advance(t, IF key = "tick" THEN [call[t] EXCEPT !.got = tickCache] ELSE call[t])
             /\ UNCHANGED inFlight
        ELSE IF key \in inFlight
        THEN Phase(t, "wait") /\ UNCHANGED inFlight
        ELSE Phase(t, "ask") /\ inFlight' = inFlight \cup {key}
  /\ UNCHANGED <<market, tickCache, negCache, clearedAt, posted, budget, booked>>

\* The wait for the condition variable ends, and the loop looks again.
Resume(t) ==
  /\ At(t, Keys, "wait") /\ Head(call[t].todo) \notin inFlight
  /\ Phase(t, "run")
  /\ UNCHANGED <<market, tickCache, negCache, inFlight, clearedAt, posted, budget, booked>>

\* The server answers; a book brings a price level on the grid of its tick.
Answered(t) ==
  /\ At(t, Keys, "ask") \/ At(t, {"book"}, "run")
  /\ \E p \in Prices :
       /\ OnGrid(p, market.tick)
       /\ call' = [call EXCEPT ![t].phase = "answer",
                     ![t].level = IF Head(call[t].todo) = "book" THEN p ELSE @,
                     ![t].got = IF Head(call[t].todo) = "neg" THEN @ ELSE
                                [tick |-> market.tick, read |-> market.now,
                                 by |-> Head(call[t].todo)]]
  /\ UNCHANGED <<market, tickCache, negCache, inFlight, clearedAt, posted, budget, booked>>

\* The request fails or its answer does not parse: MetadataFetchCompletion still
\* removes the key.
FetchFails(t) ==
  /\ At(t, Keys, "ask") \/ At(t, {"book"}, "run")
  /\ Spend("faults") /\ Fail(t, "error")
  /\ inFlight' = inFlight \ (IF call[t].phase = "ask" THEN {Head(call[t].todo)} ELSE {})
  /\ UNCHANGED <<market, tickCache, negCache, clearedAt, posted, booked>>

\* A parsed lookup is stored and its key removed; a book is remembered with the
\* metadata it carries, though no key stood for it.
Store(t) ==
  /\ At(t, Keys \cup {"book"}, "answer")
  /\ LET step == Head(call[t].todo)
     IN /\ inFlight' = inFlight \ {step}
        /\ tickCache' \in IF step = "neg" THEN {tickCache}
                          ELSE IF step = "book" THEN {tickCache, call[t].got} ELSE {call[t].got}
        /\ negCache' \in IF step = "tick" THEN {negCache}
                         ELSE IF step = "book" THEN {negCache, TRUE} ELSE {TRUE}
  /\ booked' = (booked \/ (Head(call[t].todo) = "book" /\ tickCache' = call[t].got))
  /\ Advance(t, call[t])
  /\ UNCHANGED <<market, clearedAt, posted, budget>>

\* The five minutes of a cached tick are over.
Expire ==
  /\ tickCache # None /\ Spend("updates")
  /\ tickCache' = None
  /\ UNCHANGED <<market, negCache, inFlight, call, clearedAt, posted, booked>>

\* Mutant: clear_market_metadata_cache does not wait for running fetches.
ClearAtOnce(t) ==
  /\ At(t, {"clear"}, "run")
  /\ tickCache' = None /\ negCache' = FALSE
  /\ clearedAt' = market.now
  /\ Advance(t, call[t])
  /\ UNCHANGED <<market, inFlight, posted, budget, booked>>

Clear(t) ==
  /\ At(t, {"clear"}, "run") /\ inFlight = {}
  /\ tickCache' = None /\ negCache' = FALSE
  /\ clearedAt' = market.now
  /\ Advance(t, call[t])
  /\ UNCHANGED <<market, inFlight, posted, budget, booked>>

-------------------------------------------------------------------------------
\* place_limit_order evicts a tick that rejects the price (evict_tick_size).
Grid(t) ==
  /\ At(t, {"grid"}, "run")
  /\ tickCache' = IF OnGrid(call[t].price, call[t].got.tick) THEN tickCache ELSE None
  /\ Advance(t, call[t])
  /\ UNCHANGED <<market, negCache, inFlight, clearedAt, posted, budget, booked>>

\* resolve_requested_tick_size: only a cached minimum can reject it.
Requested(t) ==
  /\ At(t, {"cached"}, "run")
  /\ IF tickCache # None /\ call[t].level < tickCache.tick
     THEN Fail(t, "rejected")
     ELSE Advance(t, [call[t] EXCEPT !.got = [None EXCEPT !.tick = call[t].level]])
  /\ UNCHANGED <<market, tickCache, negCache, inFlight, clearedAt, posted, budget, booked>>

\* validate_order_price.
Validate(t) ==
  /\ At(t, {"validate"}, "run")
  /\ IF OnGrid(call[t].price, call[t].got.tick) THEN Advance(t, call[t]) ELSE Fail(t, "rejected")
  /\ UNCHANGED <<market, tickCache, negCache, inFlight, clearedAt, posted, budget, booked>>

\* estimate_market_price on the fetched book: place_market_order refreshes the
\* tick once when it rejects a level of the book, and the second estimate, like
\* the only one of the public call, may fail.
Price(t) ==
  /\ At(t, {"price", "again", "quote"}, "run")
  /\ IF OnGrid(call[t].level, call[t].got.tick)
     THEN Advance(t, [call[t] EXCEPT !.price = call[t].level]) /\ UNCHANGED tickCache
     ELSE IF Head(call[t].todo) = "price"
     THEN /\ tickCache' = None
          /\ call' = [call EXCEPT ![t].todo = <<"tick", "again">> \o Tail(@)]
     ELSE Fail(t, "rejected") /\ UNCHANGED tickCache
  /\ UNCHANGED <<market, negCache, inFlight, clearedAt, posted, budget, booked>>

\* post_signed_order: the server takes the order, refuses it, or the answer is
\* lost; nothing is sent twice.
Post(t) ==
  /\ At(t, {"post"}, "run")
  /\ posted' = [posted EXCEPT ![t] = Append(@, call[t].price)]
  /\ \/ OnGrid(call[t].price, market.tick) /\ Advance(t, call[t]) /\ UNCHANGED budget
     \/ ~OnGrid(call[t].price, market.tick) /\ Fail(t, "error") /\ UNCHANGED budget
     \/ Spend("faults") /\ Fail(t, "error")
  /\ UNCHANGED <<market, tickCache, negCache, inFlight, clearedAt, booked>>

\* The server narrows or widens the tick.
TickChanges ==
  /\ Spend("updates")
  /\ \E k \in Ticks \ {market.tick} : market' = [tick |-> k, now |-> market.now + 1]
  /\ UNCHANGED <<tickCache, negCache, inFlight, call, clearedAt, posted, booked>>

Step(t) ==
  Lookup(t) \/ Resume(t) \/ Answered(t) \/ Store(t) \/ Clear(t) \/ Grid(t) \/ Requested(t)
  \/ Validate(t) \/ Price(t) \/ Post(t)

Next ==
  \/ \E t \in Callers :
       \/ \E task \in DOMAIN Steps \ {"limit", "requested"} : Begin(t, task, 0, 0)
       \/ \E p \in Prices : Begin(t, "limit", p, 0)
       \/ \E p \in Prices, k \in Ticks : Begin(t, "requested", p, k)
       \/ Step(t) \/ FetchFails(t)
  \/ Expire \/ TickChanges

\* Threads run, and the server answers.
Fairness == \A t \in Callers : WF_vars(Step(t))

Spec == Init /\ [][Next]_vars /\ Fairness

-------------------------------------------------------------------------------
\* Concurrent misses of one key share one request.
OneFetchPerKey ==
  \A k \in Keys : Cardinality({t \in Callers : At(t, {k}, "ask") \/ At(t, {k}, "answer")}) <= 1

\* A tick that a lookup put into the cache was read after the last clear: a fetch
\* that was under way when the cache was cleared cannot bring the old tick back.
\* (A book can: it is not in metadata_cache_in_flight_.)
FreshAfterClear == tickCache.by = "tick" => tickCache.read >= clearedAt

\* An order that leaves the tick to the client is rejected here only by a tick
\* the server announced since the call began: a stale cached tick by itself
\* never refuses a valid price, as long as no book has filled the cache.
StaleTickRejectsNothing ==
  ~booked => \A t \in Callers :
    call[t].result = "rejected" /\ call[t].task = "limit" => call[t].got.read >= call[t].since

\* A call posts at most one order: exactly one, at the price asked for or of the
\* book it fetched, when it succeeds, and none when it rejects the price.
PostsAtMostOnce ==
  \A t \in Callers :
    LET c == call[t] IN
    /\ Len(posted[t]) <= 1
    /\ c.result = "rejected" => posted[t] = <<>>
    /\ c.result = "ok" /\ c.task \in {"limit", "requested", "market"} =>
         posted[t] = <<IF c.task = "market" THEN c.level ELSE c.price>>
===============================================================================
