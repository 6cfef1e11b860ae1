# A verification project for polymarket-cpp-client

TLA+ models of the library, the TLC configurations that model-check them on small
instances, and theorems about its parts that TLAPS proves for every value of the
constants. `PROJECT.json` maps every definition to the source lines it models, and
lists the components, runs, mutants, hazards and theorems that this file explains.

Paths are relative to the repository (`src/` is its root, so its sources are in
`src/src/` and `src/include/polymarket/`).

1. [The system](#1-the-system)
2. [The models](#2-the-models)
3. [What is checked](#3-what-is-checked)
4. [What is proved](#4-what-is-proved)
5. [Where code and promise disagree](#5-where-code-and-promise-disagree)
6. [What is not modelled](#6-what-is-not-modelled)
7. [Plan](#7-plan)

## 1. The system

The library talks to the Polymarket exchange (CLOB REST API, market and user
streams), to its catalogue and data services, to its relayer, and to a Polygon node
(JSON-RPC over HTTP and WebSocket). Its parts form four layers.

| Layer | Component | State it keeps | Operations | What is hard | Module |
|---|---|---|---|---|---|
| transport | WebSocket client | `state_`, `stream_generation_`, `resnapshot_pending_`, stop flags, a bounded queue, three threads | connect, disconnect, send, request_resnapshot, callbacks | stop from a callback, gaps reported by several threads at once, overflow, idle reconnects, joins | WebSocketClient, GapStream |
| | HTTP client | libcurl's reference count, one handle, a heartbeat thread | get, post, del, warm, heartbeat, move | a handle shared by threads, failed construction | HttpGlobal, HttpConnection |
| | Tunnel | two bounded buffers, a worker | relay, destroy | back pressure, the last bytes of a side that closed, a blocked join | WebSocketTunnel |
| protocol | JSON-RPC client | subscriptions | call, subscribe | replay after a reconnect | JsonRpcWs |
| | User stream, order book manager, public streams | tracked subscriptions, generation, books and legs | connect, subscribe, callbacks | gap and recovery order, connect timeout, sends outside the lock | UserStream, OrderbookManager, PublicStream |
| | Rate limits, REST calls | retry policy, listener, credentials | about a hundred calls | deadlines, mutations sent twice, half accepted answers | RestCalls, RestEndpoints |
| | Pagination | cursor, offset, token | pages, resume | repeated cursors, caps | Paginator |
| state | EVM event indexer | `LiveState`, delivery queues, `delivered_logs`, the cursor | catch_up, start_live, stop | handoff from history to live, reorganisations, gaps, crashes, callbacks that throw | EvmEventIndexer |
| | EVM cursor store | the cursor file | load, save, rewind | crashes, two processes | CursorFile |
| | Trade status tracker | latest status per trade, arrival order, version, recoveries | record, mark_recovered, wait_for_change | capacity, reordered events | TradeSettlement |
| | Oracle watcher | histories, compacted bases | ingest_event | order, repetition, withdrawal | OracleDashboard |
| | Market metadata | tick and neg-risk cache, fetches in flight | get_tick_size, clear | shared fetches, stale ticks | ClobOrders |
| operations | Order settlement | locals of one waiting call | wait_for_order_fill_settlement (two forms) | wake-ups, lost events, deadlines | TradeSettlement |
| | Orders | none | create, validate, post | a stale tick, one order per call | ClobOrders |
| | Positions and relayer | `send_mutex`, nonces | split, merge, redeem, approve, wait | submit and poll, partial batches, lost answers | PositionTransactions |
| | Market fetcher | a worker pool | fetch batches, walk pages | first failure, order of results | MarketFetcher, MarketTime |
| | Arbitrage example | the market watched | main() | rotation against the end of a market | ArbRuntime |
| pure | Order arithmetic, EVM encoding, calendar | none | amounts, depth, plans; ABI, RLP, integers; slugs | widths, rounding, offsets, clock changes | OrderAmounts, EvmCodec, MarketTime |

How they interact: the stream runtimes and the JSON-RPC runtime are built on the
WebSocket client and use it through four things only, which `GapStream` states: a
connection opens, the subscriptions are copied and replayed, the connect callback
runs, and a gap draws a new generation and is reported by the thread that drew it.
The indexer's live subscription runs over the JSON-RPC runtime; `EvmTransportEpoch`
filters what the WebSocket delivers by stream generation, and a gap reaches the
indexer as a live error that schedules an overlap scan over HTTP. The user stream
feeds the tracker through `on_trade` and `on_stream_recovered`; the settlement wait
reads the tracker and falls back to REST. The oracle watcher consumes what the indexer
delivers, including its removals.

What makes each part correct:

- *WebSocket client*: within a generation messages arrive in order and without a
  hole, whatever is lost is announced by a new generation, a stop always completes,
  from whichever thread it is asked for.
- *Streams on top of it*: a failed connect is off, the server sends what the
  subscriptions say, every gap the user is told of is recovered, nothing of an old
  connection is mixed with the new one.
- *Indexer and cursor file*: the persisted cursor never claims a log that no callback
  accepted, also across crashes; a live session at rest has shown its consumer exactly
  the canonical logs; after `stop()` nothing scans; every call returns.
- *Tracker and settlement*: a returned settlement is final and carries the hashes of
  the confirming transactions; the wait never sleeps on news; a timeout is honest.
- *REST*: nothing that changes the server is sent twice, retries keep within policy and
  deadline, pages come once, in order and completely, or the caller is told.
- *Transactions*: one nonce each, nothing executed twice, and an outcome that says what
  happened.
- *Pure parts*: what is signed, decoded or asked for is exact at every edge, or refused.

## 2. The models

### EvmEventIndexer.tla

Five threads: `user` (inside `catch_up` or `start_live`), `reconcile` (the
reconciliation worker), the delivery worker, a thread inside `stop()` and the
transport thread that hands over subscription messages. **One step is one critical
section of `LiveState::mutex`, or one call of the transport or of the cursor
store**, so everything that can happen between two such sections in the code can
happen between two steps. The chain and the RPC node are external: they mine,
reorganise and answer `eth_getLogs` with the canonical logs of the moment.

| Variable | Code |
|---|---|
| `ls` | the scalar fields of `LiveState` (accepting, buffering, started, buffered and pending head, refresh, overlap, handoff gap, reconciliation_active, generations) and the handoff buffer |
| `hist`, `liveq` | `historical_deliveries`, `live_deliveries` |
| `delivered` | keys of `delivered_logs` |
| `worker` | the delivery thread and the job it holds |
| `scan[t]` | program counter and locals of `user` and `reconcile` |
| `cursor` | the persisted `EvmIndexCursor` |
| `chain`, `link`, `stream` | external: blocks and forks, the subscription, messages under way |
| `ever`, `view`, `skipped`, `flags` | history, read by the properties only |

| Actions | Code |
|---|---|
| `catch_up`, `LoadCursor`, `FetchRange`, `NextLog`, `DispatchReturns`, `save_log_checkpoint`, `save_checkpoint` | `catch_up_to`, `scan_ranges` and the checkpoints of `evm_event_indexer.cpp` |
| `reconcile_gap`, `ComputeOrphans` | the overlap scan of `evm_reorg_reconciliation.cpp` |
| `PopHistorical`, `PopLive`, `EmitRewind`, `EmitAdmit`, `CallbackReturns`, `CallbackThrows`, `schedule_overlap_recovery` | the delivery worker of `evm_event_dispatch.cpp` |
| `start_live`, `Subscribe`, `CaptureBoundary`, `Handoff`, `drain_live_buffer`, `DrainGap`, `DrainWait`, `ReplayHead`, `StartLiveReturns`, `StartLiveAborts` | `start_live` and the handoff loop of `evm_live_handoff.cpp` |
| `ReconcileWake`, `RefreshHead`, `reconcile_confirmed`, `report_reconciliation_failure`, `ReconcileRelease` | the reconciliation worker |
| `handle_live_log`, `handle_live_head`, `StreamGap`, `LiveError` | the transport's callbacks |
| `StopSignal`, `StopTransport`, `StopReturn` | `stop()` |
| `CallThrows` | an exception of the transport or the store, in any scan |
| `Crash` | the process dies: only the cursor and what callbacks did survive |

Logs are `[block, fork, index]`: a block hash is the number of the fork that made
it. A range is fetched in one step and its logs are dispatched one at a time in the
order of `evm_log_before`, each through the delivery queue and back.

### WebSocketClient.tla

User threads (`Callers`), the IXWebSocket thread, the message worker and the
detached transport worker. `pc[t]` is the stack of what thread `t` still has to do,
so that a callback that calls `disconnect()` pushes the steps of the call on top of
those of the dispatcher. A step is one atomic access or one critical section. The
consumer of the stream is `EvmTransportEpoch`: `epoch` is what `advance` stored,
and a message is admitted when its generation equals it.

| Variable | Code |
|---|---|
| `state`, `gen`, `resnap`, `stopping`, `running` | `state_`, `stream_generation_`, `resnapshot_pending_`, `transport_stop_pending_`, `worker_running_` |
| `active`, `requested` | `transport_worker_active_`, `transport_stop_requested_` |
| `queue`, `closed` | `BoundedMessageQueue` |
| `ix` | external: auto-reconnect, stop and connection of the IXWebSocket object |
| `msg`, `mark` | the message in a thread's hands; the generation a gap report has drawn |
| `epoch`, `recv`, `got`, `ordered` | the consumer and history |

| Actions | Code |
|---|---|
| `ConnectEntry`, `ConnectRetire`, `AwaitTransportStop`, `ConnectStart`, `ConnectLaunch` | `connect` |
| `Disconnect`, `TransportWake`, `WsStop`, `StopMessageWorker`, `Publish`, `TransportFinal` | `disconnect`, `request_transport_stop`, `finish_disconnect`, `transport_worker_loop` |
| `MarkGap`, `DiscardPending`, `StreamGapCallback` | `mark_stream_gap`, three separate steps |
| `ResnapshotCheck`, `ResnapshotExchange`, `ResnapshotClose` | `request_resnapshot` |
| `HandleOpen`, `RestoreSubscriptions`, `HandleClose`, `HandleError`, `TransportCallback` | the IX callbacks |
| `EnqueueCheck`, `EnqueueStamp`, `Push` | `enqueue_message`: the checks, the generation it is stamped with, the push with its overflow |
| `WorkerLoop`, `Pop`, `DispatchMessage`, `Deliver` | the message worker, with the idle check and throwing callbacks |
| `Dial`, `DialFails`, `ConnectionDrops`, `Receive` | external |

### TradeSettlement.tla

The exchange, its REST database and the user stream are external: a trade is
matched, mined, retried (each transaction has a hash of its own) and finally
confirmed or failed; REST follows with a delay; the stream reorders events, loses
any of them in a gap, and may send one again. A confirmation may come before its
hash. The tracker's `record` and `mark_recovered` are one step each, under `mutex_`.
The waiter's reads are separate steps, as each takes the mutex anew: recoveries,
version, `latest` for each fill, recoveries again. The clock has the three readings
the code tells apart: before `next_reconcile`, after it, and after the deadline.

| Variable | Code |
|---|---|
| `trades`, `arrival`, `version`, `recoveries` | the members of `TradeStatusTracker` |
| `waiter` | the locals of `wait_for_order_fill_settlement` (`mode` tells the two forms apart) |
| `truth`, `visible`, `wire`, `stream` | external |
| `clock` | `now` against `next_reconcile` and `deadline` |
| `listed` | history: fills REST listed as settled when the current round began |

| Actions | Code |
|---|---|
| `Deliver` (`record`, `Insert`), `mark_recovered` | `trade_status_tracker.cpp` |
| `Call` | the early returns: invalid options, an order without fills |
| `ReadBaseline`, `ReadVersion`, `ReadLatest`, `Decide`, `Compare` | the tracker form up to its choice between REST and waiting |
| `lookup_trade`, `AfterLookups`, `Wake` | REST lookups, deadline, `wait_for_change` or `sleep_before_next_poll` |
| `Due`, `Late` | the clock |

Status strings keep their spelling: REST's `TRADE_STATUS_` prefix is part of the
value and `normalized_trade_status` removes it.

### GapStream.tla

What `WebSocketClient` promises to the runtimes built on it, as a specification of its
own with five variables: the phase of the connection (`link`), the generation, the gaps
drawn and not yet reported, a pending resnapshot, and whether the close event of an
ended connection is still to come. `WebSocketClient` is shown to implement it: the
refinement mapping is the `INSTANCE GapStream WITH ...` at the end of
`WebSocketClient.tla`, and `ImplementsGapStream` (its `GapSpec`) is a property of the
run `ws_stream`. `UserStream`, `OrderbookManager`, `PublicStream` and `JsonRpcWs`
*extend* `GapStream` and conjoin its actions with their own callbacks, so that what is
shown about them holds over every transport that implements it.

### UserStream.tla, OrderbookManager.tla, PublicStream.tla, JsonRpcWs.tla

A step is one atomic access, one critical section or one callback, except for the merges
listed below the table. `user` is the thread that connects and disconnects, `subs` one
that changes subscriptions, `work` the message worker, `telling` (`inval` for the books)
the threads that report gaps; the IXWebSocket thread is the phase of `link` and `conn`.
What the server holds is external.

| Module | Code | Actions |
|---|---|---|
| UserStream | `user_stream_runtime*.cpp`, `user_stream_runtime.hpp` | `CallConnect`, `ConnectFlags`, `ConnectStart`, `ConnectWait`, `TearDown`; `UpdateSubscription`, `SendUpdate`, `FinishUpdate` with `PlanSync`; `HandleStreamGap` (`CheckGap`, `CountGap`, `StoreGap`, `TellGap`); `HandleConnect` (`ConnectCheck`, `ConnectLoad`, `ConnectSwap`, `ConnectRecovered`); `HandleClose`; `Dispatch`, `HandleMessage`, `HandleEvent` |
| OrderbookManager | `orderbook_runtime*.cpp`, `orderbook_stream.cpp` | `CallConnect`, `Connecting`, `Deactivate`; `Subscribe`, `Unsubscribe`, `UnsubscribeAll`, `SendUpdate`, `EraseBooks`; `InvalidateStreamState`; `HandleMessage`, `FindToken`, `ApplyEvent`, `StoreLeg`, `CheckArb` |
| PublicStream | `public_stream.cpp`, `rtds_stream.cpp`, `sports_stream.cpp` | `Connect`, `Disconnect`; `Update`, `SendFrame`, `EndUpdate`; `HandleGap` (`CheckGap`, `StoreGap`, `TellGap`); `HandleConnect` (`ConnectCheck`, `ConnectTake`, `ConnectCompare`, `ConnectRecovered`); `Parse`, `SportsMessage`, `Deliver`, `ReportInvalidMessage` |
| JsonRpcWs | `json_rpc_ws_runtime.cpp`, `json_rpc_ws_dispatch.cpp` | `Call`, `EndCall`, `Subscribe`, `Resubscribe`, `OnStreamGap` |

A gap report and `handle_connect` interleave freely. The store of
`recovery_generation_` comes before the gap callback
(`user_stream_runtime_events.cpp:25-27`), so `handle_connect` may take a generation over
and call `recovered` *before* the gap callback that `recovered` answers: TLC reaches it. A
subscriber cannot read `recovered` as "after the last gap I heard of". The properties say
what does hold: the generation taken over is the newest the runtime was handed, and a gap
callback that comes late is followed by another `recovered` or a deactivation, since the
request that drew its generation goes on to close the connection.

Steps that stand for several accesses, and why no property depends on it:

- the loads of `owner_active_` and `stream_active_` in one condition, and those of
  `stream_is_current`: each is followed by steps of their own in which the answer may be
  stale, and the order of two loads adds no other answer (once cleared, `owner_active_`
  stays so);
- `deactivate_stream`'s exchange and increment (`user_stream_runtime.cpp:272-276`):
  between the two, `stream_is_current` is false on account of the flag already;
- `handle_connect`'s load of `recovery_generation_` and the read of the client's
  generation in `UserStream`: a gap in between is stored by a later `StoreGap`, or makes
  the exchange fail;
- the test of the flags and the increment in `InvalidateStreamState`: an increment after
  a deactivation changes a number that is compared for equality only;
- `on_stream_gap` of `JsonRpcWs`: a load and a callback, with no store between them.

### The modules without a WebSocket

| Module | Code | State and steps |
|---|---|---|
| HttpGlobal | `http_global.cpp`, `http_client.cpp` | the reference count, the manual pin, and each client's handle and reference; constructors that fail at either step, moves, destructors, on two threads |
| HttpConnection | `http_client_request.cpp`, `http_client_connection.cpp` | the options left on the one handle, its mutex, announced waiters, the heartbeat; requests, warm-up, configuration, beat, stop |
| RestEndpoints, RestCalls | the REST clients, `rate_limit*.{cpp,hpp}`, `sdk_error.cpp`, `rest_paging.hpp` | a row per call says what tells the calls apart; a call is checked, sent, answered, retried and read |
| ClobOrders | `clob_market_metadata.cpp`, `clob_order_{placement,execution,submission}.cpp` | the tick cache, the fetch in flight, two order calls and a thread that clears, while the market's tick changes |
| Paginator | `pagination.hpp` | three kinds of pages over a server that fails, repeats a cursor, or has a cap |
| CursorFile | `evm_cursor_store.cpp`, `evm_cursor_io.cpp` | versions of the file, which of them a power failure brings back, the system calls of a save one by one |
| PositionTransactions | `position_*.cpp`, `safe_relayer.cpp`, `transaction_handle.cpp`, `trading_approvals.cpp`, `approval_calls.cpp`, `json_rpc_transactions.cpp` | what the contracts hold, the transactions accepted, `send_mutex`, and each thread's operation from its requests to its outcome |
| OracleDashboard | `oracle_watcher.cpp`, `oracle_event_history.cpp` | state, history, base and boundary per key |
| MarketFetcher | `bounded_workers.cpp`, `gamma_market_fetcher.cpp`, `market_fetcher.cpp` | a batch and its workers; a page walk |
| ArbRuntime | `main.cpp`, `arb_runtime.cpp` | main() line by line, a signal, the clock |
| WebSocketTunnel | `websocket_tunnel.cpp` | where the bytes of each direction are, and the worker's loop; the destructor |
| OrderAmounts | `order_amounts.cpp`, `decimal_math.cpp`, `market_price.cpp`, `arb_sizing.cpp` | functions; one step applies one to an input |
| MarketTime | `market_time.cpp` | functions, likewise |
| EvmCodec | `evm_abi.cpp`, `evm_rlp.cpp`, `evm_uint.cpp`, `evm_utils.cpp`, `evm_transaction.cpp`, `polymarket_events.cpp` | functions, likewise |

The pure modules keep the algorithm of the code with smaller numbers: 64-bit limits
become `UMax` and `HostMax`, 32-byte words have `WordSize` bytes, six decimals become
three, so that every edge is a few steps away. Their properties say what the result is
for, without the algorithm: a reader of ABI and RLP, the cheapest covering limit by
comparison of all limits, a calendar that counts days.

### Compositions and instances

`StreamRuntimes` and `RestComponents` hold several components side by side and let
`which` choose the one a behaviour is about; the others do not move. They state the
properties of the runs `streams` and `rest` and the assumptions on the constants, and
the theorems are about them. Each component has its budgets (how many calls, messages
and faults), one record per kind of history. `MCStreams` and `MCRest` give the constants
their values, and `MCRest` adds the pure modules, whose inputs `MCExact` lists.
`MCWebSocketClient` has two kinds of history within one
run, and `MCTradeSettlement` cuts what no property can see.

## 3. What is checked

Each property has a mutant of the code (in `PROJECT.json`) that violates it under
the run's own configuration: a dropped guard, a missing reset, a swapped order.

### Properties

| Property | Says | Run |
|---|---|---|
| `CursorCovers` | the cursor claims no block whose logs no callback accepted, except blocks below a gap window, and a partial cursor claims a delivered prefix | indexer_cursor |
| `QuietAfterStop` | from the return of `stop()` to the next `start_live` no reconciliation scan runs | indexer_cursor |
| `ViewMatchesChain` | a session at rest has delivered, additions minus retractions, exactly the canonical logs | indexer_view |
| `Settles`, `CallsReturn` (indexer) | a session comes to rest; `start_live` and `stop` return | indexer_live |
| `ImplementsGapStream` | every step of the client is one of `GapStream` or a stutter | ws_stream |
| `NoSilentLoss` | once settled, the consumer is in the stream's generation and has every message of it | ws_stream |
| `InOrderAcrossCalls` | no message is admitted after a hole, when only the IX thread and overflows mark gaps | ws_stream |
| `StopFinishes` | when no stop is under way any more, the client is DISCONNECTED and can connect again | ws_stream |
| `NoSelfJoin`, `TeardownCompletes`, `CallsReturn`, `ResnapshotEnds` | no thread joins itself; a pending stop is carried out; calls return; a resnapshot ends in a connection or a stop | ws_callback_stop |
| `ArrivalMatchesTrades` | the tracker's queue and map hold the same trades, each once, at most capacity_ | settlement |
| `SettlementFinal` | a returned settlement agrees with the exchange for every fill and carries exactly the confirming hashes | settlement |
| `NoLostWakeup` | a waiter blocked on an unchanged version has nothing to act on | settlement |
| `TimeoutIsHonest` | a timeout names no fill that REST listed when the last wait ended | settlement |
| `SettlementWaitsReturn` | once REST lists every fill, or the deadline passes, both forms of the wait return | streams |
| `UserStreamSafe` | a failed connect() is off although the handshake completed meanwhile; at most one event of a superseded message is delivered; the server delivers what `subscription_` says | streams |
| `UserGapsRecovered` | the gap that `handle_connect` takes for recovered is the newest one handed to the runtime, whatever order two reports arrive in; every stored gap is taken up and every gap callback followed by `recovered`, or the stream is deactivated | streams |
| `BooksOfOneConnection` | no ask of an earlier connection survives a gap; the arbitrage callback compares asks of one connection; a snapshot that was sent is kept | streams |
| `PublicStreamSafe`, `PublicGapsRecovered` | `UserStreamSafe` for RTDS and Sports, and subscriptions that share a key do not silence each other; a gap callback is followed by `recovered` or a disconnect | streams |
| `RpcSubscriptionsKept` | every stored subscription is sent on the connection, by its caller or by the replay, at most twice; a loss is reported before the next attempt | streams |
| `HttpSafe` | libcurl is cleaned up exactly when nothing pins it and never under a handle; a request goes out with its own verb, headers and timeout | rest |
| `OrdersSafe` | one fetch per missing key; a fetch from before a clear cannot fill the cache; a stale tick alone refuses nothing; at most one order per call | rest |
| `PagesComplete` | every item once and in order across failures and resumptions; everything or a reason; a bound on requests | rest |
| `MutationsSentOnce` | no call that the code classes as a write (orders, cancellations, keys, notifications) is sent again after a 429; `update_balance_allowance` is classed as a read | rest |
| `RetriesWithinPolicy` | retries and sleeps keep to the policy the call began with and to its deadline, each attempt is signed afresh, a cancellation is reported only when confirmed | rest |
| `RestActions` | a retry waits as long as the server asked; only an answer accepted as a whole reaches the cache | rest |
| `CursorFilesWhole` | after a crash at any point the file is a whole one, and in one process no save loses or lowers a cursor | rest |
| `TransactionsSafe` | one nonce per transaction, batches in order, nothing executed twice over retries, no condition merged twice, honest outcomes | rest |
| `DiscoverySafe` | each request of a batch once and the results in order; a dashboard that does not depend on the order of arrival; one market watched, and a clean exit | rest |
| `TunnelKeepsBytes` | a buffer holds less than the limit and one chunk, as the room is tested before a read of up to a chunk; no byte lost, a side that closed is drained | rest |
| `ArithmeticExact` | signed amounts have exactly the price, a budget is kept, depth and plans are what they claim, slugs and dates are those of the calendar | rest |
| `CodecExact` | ABI, RLP and 256-bit integers read back as what was encoded, and nothing malformed is accepted | rest |
| `CallsEnd` | requests, order calls, operations, drains, batches, rotations and stops end, whatever fails | rest |

`MutationsSentOnce` follows the code's own classes. `update_balance_allowance`
(`clob_account.cpp:271`) asks the server to refresh its record of a balance, by a GET that
goes through `read()`: it is in `AccountReads`, and is sent again after a 429 as the policy
allows. It places and cancels nothing, and a second refresh has the effect of the first.

The three detailed modules also have a `TypeOK`; the indexer's includes that no head
underflows, the WebSocket's that the queue keeps its limit, the settlement's that no
loop begins over an empty list.

### Runs and bounds

| Run | Instance | Why it is enough |
|---|---|---|
| indexer_cursor | 2 blocks of 2 logs, 1 confirmation, ranges of 2 blocks, 1 block of lookback, two calls, and any two of gap, stop, crash, throwing callback, failing call | two logs per block give partial cursors; a range of two blocks crosses the confirmed head; lookback 1 makes pruning and gap windows bite |
| indexer_view | 2 blocks of 1 log, queues of 1, any two of reorganisation, gap, throwing callback | a queue of one makes the handoff buffer and the live queue overflow on the second log |
| indexer_live | the same without reorganisation, with a stop, under fairness | |
| ws_stream | one caller, queue of 2; either two connects, stops, a failed dial, a drop and four messages, or one connection with a request, a throwing callback or an idle check beside a burst of three or two messages and a drop | the third message of a burst overflows a queue of two, two queued messages cross a gap together, and a fourth may come after the hole; any two gap reports race |
| ws_callback_stop | stops only from callbacks, 3 connects, 2 stops, 2 messages, fairness | a stop from each kind of thread, followed by a restart and another stop |
| settlement | two fills with a repeated and an empty id, capacity 1, two transactions for one trade, 2 events in flight, one gap or one resent event | capacity 1 evicts on the second trade; two transactions give a stale hash; two events overtake each other |
| streams | two markets or tokens, two RTDS subscriptions of which one needs the other's key; one to three connects or stops, up to three subscription changes, up to two messages, up to two faults, in the combinations `Budget(calls, updates, messages, faults)` lists; a settlement of one trade | two changes around a replay, two gaps in flight at once, two connections whose asks could be mixed |
| rest | per component: two threads where the code has threads, one or two faults, and the smallest sizes at which a limit, a cap, an eviction or an overflow happens (retained history of 2, buffers of 2 filled by reads of up to 2, three clients of HTTP in two threads, delays on both sides of the cast) | each hazard in section 1 needs at most two faults and two actors |

Every unbounded counter is capped by a named constant (`Max...`) or by a budget that an
action spends. In `RestComponents` two cuts keep the space small: nothing follows the return of
the last REST or order call (`UnderWay`), and a new retry policy or listener is explored
where a call begins and while one sleeps (`Reconfigured`), since it commutes with the
other steps. `OneCall` in `MCTradeSettlement` and `StreamRuntimes` cuts what no property can
see: nothing after the return of the call, no REST row for the unsettled statuses
MATCHED and RETRYING (a row for MINED stays), and a silent stream for the polling form,
which never reads the tracker. `CounterView` identifies states that differ only in the
absolute value of `version` and `recoveries`, which the code compares for equality only.

Deadlock checking is off in every run: the bounded systems may come to an end (all
calls returned, budgets spent), and what must not get stuck is stated as `CallsReturn`,
`TeardownCompletes`, `SettlementWaitsReturn` and `CallsEnd`.

### Fairness

- *Indexer* (`Fairness`): the library's threads, a running callback, the transport's
  thread and its reconnection make progress. The chain need not mine, the user need
  not call, nothing need fail. The code justifies it: the threads block only on
  condition variables whose predicates the guards state, and reconnection is
  automatic.
- *WebSocket* (`Fairness`): every thread that can take a step takes it, the server
  accepts a dial, and a closing handshake ends. Calls, messages and faults need not
  happen. Liveness is checked with unlimited reconnection attempts
  (`MaxAttempts = 0`) and no dial failures.
- *Streams* (`Fairness` of `UserStream` and `PublicStream`): every thread goes on, and
  the transport does what costs no fault: it dials again and opens. Reconnection is
  unlimited by default.
- *Settlement*: the waiting thread runs, and `next_reconcile` arrives. Whether the
  deadline passes and what exchange, REST and stream do is open.
- *REST and the rest* (`Fairness` of `RestComponents`): threads run; a request is answered or its
  transport times out, as every transfer has a timeout; the clock moves; a peer of the
  tunnel reads what has arrived; an operation's deadline comes. A chain that never
  mines and a relayer that never confirms are allowed.

## 4. What is proved

Thirty theorems, in eight proof modules. They hold for every value of the constants
that satisfies the named assumptions; the bounds on events are constants
too, so the theorems cover any number of events.

| Theorem | Statement | Module |
|---|---|---|
| `TypeCorrect` | `Spec => []TypeOK` of the indexer | EvmEventIndexerProofs |
| `StopIsQuiet` | `Spec => []QuietAfterStop` | EvmEventIndexerProofs |
| `CursorNeverOverclaims` | `Spec => []CursorCovers` | EvmEventIndexerProofs |
| `TypeCorrect` | `Spec => []TypeOK` of the settlement | TradeSettlementProofs |
| `QueueMatchesMap` | `Spec => []ArrivalMatchesTrades` | TradeSettlementProofs |
| `WakesOnNews` | `Spec => []NoLostWakeup` | TradeSettlementProofs |
| `TimeoutsAreHonest` | `Spec => []TimeoutIsHonest` | TradeSettlementProofs |
| `SettlementsAreFinal` | `Spec => []SettlementFinal` | TradeSettlementProofs |
| `TypeCorrect` | `Spec => []TypeOK` of the WebSocket client | WebSocketClientProofs |
| `StopsFinish` | `OneCaller(c)` implies `Spec => []StopFinishes` | WebSocketClientProofs |
| `StopsJoinOthers` | `OnlyCallbacksStop(c)` implies `Spec => []NoSelfJoin` | WebSocketClientProofs |
| `ClientImplementsGapStream` | `OneCaller(c)` and `ReconnectEnabled` imply `Spec => ImplementsGapStream`: the refinement | WebSocketStreamProofs |
| `ClientLosesNothingSilently` | `OneCaller(c)` implies `Spec => []NoSilentLoss` | WebSocketStreamProofs |
| `MessagesInOrder` | `OneCaller(c)` implies `MCSpec => []InOrderAcrossCalls` | WebSocketStreamProofs |
| `RpcKeepsSubscriptions` | `Spec => []RpcSubscriptionsKept` | StreamProofs |
| `PublicStreamStaysSafe` | `Spec => []PublicStreamSafe` | StreamProofs |
| `UserStreamStaysSafe` | `Spec => []UserStreamSafe` | StreamProofs |
| `UserRecoversNewestGap` | `Spec => User!RecoversNewestGap`, the action property within `UserGapsRecovered` | StreamProofs |
| `BooksStayOfOneConnection` | `Spec => []BooksOfOneConnection` | StreamProofs |
| `CursorFileSafe` | the cursor store's own specification keeps `WholeFile` and `CursorsKept` | RestProofs |
| `CursorFilesStayWhole` | `Spec => []CursorFilesWhole` | RestProofs |
| `TunnelBytesKept` | `Spec => []TunnelKeepsBytes` | RestProofs |
| `HttpStaysSafe` | `Spec => []HttpSafe` | RestProofs |
| `DiscoveryStaysSafe` | `Spec => []DiscoverySafe` | RestProofs |
| `WritesNotRetried` | `Spec => []MutationsSentOnce` | ClobProofs |
| `RetriesStayWithinPolicy` | `Spec => []RetriesWithinPolicy` | ClobProofs |
| `RestStepsSafe` | `Spec => RestActions`, an action property | ClobProofs |
| `PagesStayComplete` | `Spec => []PagesComplete` | ClobProofs |
| `OrdersStaySafe` | `Spec => []OrdersSafe` | ClobProofs |
| `TransactionsStaySafe` | `Spec => []TransactionsSafe` | TransactionProofs |

Each proof has the same outline: an inductive invariant, one lemma per action or group
of actions that says that it is preserved, and the property as a consequence. The
invariants were found with TLC, on the instances of the runs.

### Assumptions

| Assumption | Says | From |
|---|---|---|
| `ConfigAssumption` | at least one log per block; a batch, a lookback and a queue limit of at least one; a start block on the chain | the indexer's validation of its options |
| `OrderAssumption` | the order is a sequence of trade ids and empty ids | the REST answer it is read from |
| `CapacityAssumption` | the tracker's capacity is at least one | its constructor throws otherwise |
| `BoundAssumption` | the bounds are numbers and the empty id names no trade | |
| `OptionsAssumption` | the message queue holds at least one message, the switches are Booleans, no user thread is one of the library's | `websocket_client_resilience.cpp:31` throws on a limit of zero |
| `HttpAssumption` | timeouts are integers; a client object belongs to one thread; threads and clients are finitely many | the class is not to be shared while it is moved or destroyed |
| `OrdersAssumption` | prices are numbers of grid units and a tick is positive | |
| `PagesAssumption` | lengths are numbers and no page size is zero | `pagination.hpp:290` throws on a limit of zero; pages by cursor have the server's size |
| `CallsAssumption` | no policy has a negative part, no wait is negative | `validate_rate_limit_retry` and the parser of the header |
| `TxAssumption` | a wallet is an EOA or a Safe; a Protocol V2 condition is listed in one of its forms | the two senders; `market_context_from_gamma` |
| `OracleAssumption` | no two logs of a question share a place in the order of the chain | the tuple that `canonical_before` compares |
| `FetchAssumption` | a fetcher has at least one client; pages are answered in one of four ways | `bounded_workers.cpp:47` throws on a worker limit of zero |
| `ArbAssumption` | a listing is of markets with an id, a symbol and an end | `FetchSelected`'s four sources |
| `FileAssumption`, `TunnelAssumption` | sizes and budgets are numbers; a read of the tunnel takes up to a chunk of at least one byte, and libcurl takes at least one byte at a time | |

The theorems about `RestComponents` are about its `Spec`, which has the two cuts of
section 3 (`UnderWay`, `Reconfigured`), and those about `StreamRuntimes` are about
runtimes over `GapStream`, which `ClientImplementsGapStream` shows the client to
implement, with one caller and reconnection, for every value of the other constants.

The theorems about the WebSocket client have hypotheses of their own, since the code
does not keep the properties without them. `OneCaller(c)`, in all but `TypeCorrect` and `StopsJoinOthers`:
one user thread, and no callback calls `disconnect()`. With a second thread that stops,
user or callback, a client can stay CLOSING (finding 3 of section 5) or receive into a
closed queue. `ReconnectEnabled`, in the refinement: without it a resnapshot turns the
transport's own reconnection on, and the transport dials again after the client has
published DISCONNECTED, a connection that `GapStream` does not have. `MessagesInOrder`
is about `MCSpec`, which starts from the budgets of the run `ws_stream`, because the
property is stated for the histories in which only the IX thread draws generations
(finding 4). `OnlyCallbacksStop(c)`: one thread connects, only callbacks stop,
reconnection is on and unlimited. After a last attempt has failed, or when a second
`connect()` has retired the transport, a callback finds no transport worker to leave the
teardown to, and joins its own thread (section 5, *a self-join*). Everything else is
free: the queue, drops, failed dials, throwing callbacks, resnapshots, and except in
`StopsJoinOthers` the reconnect limit.

### The invariants

**Indexer types.** `TypeOK` is not inductive: a scan computes its first block from
the cursor, a rewind takes the block of the worker's job, a confirmed pass subtracts
from the head it was woken with. `TypeInv` adds that each has a value when it is
used. `QuietInv` adds that `accepting` stays off after a stop, because the worker
enters a scan only while it is set.

**The cursor.** What a checkpoint may claim depends on how far a scan has come, on
the logs it has fetched and not yet dispatched, and on the answer it will get for the
delivery it waits for. `CursorInv` is the conjunction of

- `TypeInv` and `BoundsInv`: targets, heads and generations never run ahead of the
  chain and the session;
- `ScanInv`: everything below a scan's next block is done, and each block of the
  range it fetched has *one* version of which every log is accepted, still to do, or
  the one being waited for;
- `WaiterInv`: at most one queued or running delivery answers a thread, and it is the
  one the thread believes it waits for; a `false` answer means either "delivered
  before" or "an older generation";
- `DeliveredInv`: `delivered_logs` holds accepted logs and the one in the callback,
  which is why a throwing callback must take it out again;
- `CursorOK`: the claim itself.

The proof has one lemma per group of actions, and small lemmas that say that
deliveries by others (more accepted logs, more forks) disturb no scan.

**Settlement.** `TypeInv` joins the types with `ArrivalMatchesTrades`, because
`record` takes the head of the queue at capacity, and with `SomethingPending`.
`WakeInv`: while the version read at the beginning of the round is still current,
every fill already examined is still unsettled in the tracker; this fails if the
version is read after the trades or if `record` changes a trade without it.
`HonestInv`: a pending fill whose lookup is over was not listed when the round began,
and REST does not withdraw rows. `FinalInv`: every copy of a settled status, on the
wire, in REST, in the tracker and in the waiter's hands, is *truthful* about the
exchange, which holds because final statuses never change.

**WebSocket client.** The stacks of the threads are the hard part. A lemma per stack
operation (`GoType`, `GoOn`, `GoAlone`, `TeardownOnTop`) says what a step leaves on a
stack; `TypeOK` follows with the queue's bound, which `Push` keeps because it discards
everything on overflow.

- `StopInv` (for `StopFinishes`): the shapes of the caller's and of the transport
  worker's stack (`StopShapes`); a pending stop was asked for by the caller, who waits
  for it (`StopWaits`); a transport worker that has joined leaves no IX thread, and
  where there is none the state is DISCONNECTED or the caller is in its own teardown
  (`StopLeaves`).
- `JoinInv` (for `NoSelfJoin`): the shapes again (`JoinShapes`); without a transport
  worker neither library thread has anything to do and no stop is pending
  (`JoinQuiet`), so that a callback always finds a worker; which threads the worker has
  joined (`JoinTeardown`); `connect` starts a transport only where the last worker is
  gone (`JoinCaller`); DISCONNECTED is published only by a worker about to end
  (`JoinPublished`), which is where the reconnect limit matters.
- `IxReady` (for all that follows): `StreamShapes` lists the stacks of the IX thread and
  of the message worker, one set per stage of the code, and says which flags each stage
  needs.
- The refinement: a stage fits the published state (`PhaseInv`), and a gap that is being
  reported carries a generation that has been drawn, no two the same (`MarkInv`). The
  initial states map to initial states, and each action to a step of `GapStream` or a
  stutter.
- `LossInv` (for `NoSilentLoss`) says where every message of the current generation is:
  admitted, in the worker's hands, in the queue, or in the IX thread's hands on its way
  there (`FlowInv`), and none carries a generation or a number that was not given out
  (`StampInv`); the consumer of an open connection knows its generation or is about to be
  told (`ToldInv`); a connection starts without messages (`OpeningInv`) and is subscribed
  once it is open (`SubInv`). `RunInv` and `DrainInv`: the worker runs while there is a
  connection, and the transport worker leaves an empty queue.
- `OrderInv` (for `InOrderAcrossCalls`): the message in the worker's hands is the next one
  (`HeldNext`, `DeliverNext`) and what is queued continues it (`OrderFlows`). `Spared` and
  `CalmInv` carry the history: no request, throwing callback or idle check is left, so
  neither the worker nor the caller is in a resnapshot and only the IX thread draws
  generations.

**Streams.** One invariant per runtime, over the phases of `GapStream`.

- `RpcInv`: each stored subscription is sent or has a sender ahead of it, the caller or
  the replay (`RpcKept`), each counts once (`RpcCounts`), and a loss is either heard or
  in the hands of the IX thread before the next dial (`RpcLoss`).
- `PublicInv` and `UserInv`: what the server has, corrected by the frames still to be
  sent, is what the subscriptions need, phase by phase (`PublicKeys`, `UserPlan`,
  `UserSession`); a superseded message stays superseded (`PublicMessage`,
  `UserMessage`). `UserGaps`: every gap is drawn once and on its way to the user in at most one
  call, whose place says whether it has been stored; what is stored, and what the connect
  callback has loaded and still finds stored, is a gap that was handed to the runtime, and
  when it is the client's generation no newer one was. This gives `RecoversNewestGap` as an
  action property.
- `BookInv`: a message of the current generation is of this connection, which is still
  up (`BookMessage`); no leg is of an earlier connection unless a reset is ahead of it
  (`BookLegs`, `LegsResetAhead`); a snapshot that the server owes or has sent is kept,
  carried by the worker, or asked for (`BookSnapshots`). `NoStaleLeg` alone is not
  inductive: a leg of an old connection exists between a gap and the second half of
  `InvalidateStreamState`.

**HTTP, cursor file, tunnel.** `GlobalInv` counts references: as many as the clients
that hold one, plus those on their way back. `ConnInv`: whoever holds `curl_mutex_` made
all the options of the handle (`HandleOfOwner`), and nobody holds it when it has the
configured ones. `FileInv`: the temporary is on disk before it is renamed
(`TemporarySynced`), one call at a time within a process, and what it writes is the file
it read with one cursor changed (`WritesWhatItRead`). `TunnelInv`: the bytes of each
direction add up (`Balanced`), and the end of a side is seen behind its last byte
(`EndsBehindBytes`).

**REST calls, pages, orders.** `CallsInv`: a write has no policy and its requests are
counted ahead (`SendsCounted`); a sleep answers a request sent before it and ends no
earlier than the server asked (`SleepsLongEnough`). `PagesInv`: what was handed out and
what is buffered are together the beginning of the listing, and the pager stands at its
end (`PagerAt`); where it does not, a cursor has been repeated (`p_looped`). `OrdersInv`:
what is left of each call (`CallOK`), each fetch is registered by its one owner and
brings a tick no older than the last clear (`FetchOK`, `OneFetches`), and what a limit
order may still meet in the cache (`LimitOK`): the tick it has already been given, one
its price is on, or one read since it began.

**Transactions.** `TxInv` speaks of each thread and of the transactions together.
`ThreadOK`: what an operation still has to do (`TodoOK`), what the batch it is sending
contains (`ContentsOK`), how many of its calls are on chain at each step of the two
wallets (`EoaPhase`, `SafePhase`), that no condition is listed twice for a merge
(`MergesOK`), that a setup has looked at every spender (`SetupOK`), and that what it
reports is what happened (`ReportOK`). `TxsOK`: each
transaction belongs to one call of one run (`OneEach`, `RunsBegun`), of at most two calls
(`FewCalls`), in the order of the batch (`EoaTxs`, `SafeTxs`), and what it approved stays
approved unless it is revoked (`GrantsKept`). `NonceFresh` with
`TxLocked`: a nonce that was fetched is still unused because its owner holds `send_mutex`.
TLC checked `TxInv` before the proof.

**Discovery.** Three components, three invariants.

- The batch: `TakenInOrder` (requests are taken one after the other, each by one worker),
  `WorkersEnd` (a worker ends when there is nothing left to take or after a failure) and
  `OwnResults` (a result is at the index of its request). The walk: while it goes on
  (`Reached`), all pages so far were read, and what it has found is the first of what they
  list; when it is over (`Finished`), of all that could be read.
- The dashboard: `KeyShape` (a history in order, within its limit, and the state rebuilt
  from it) and, for a key that nothing came too late for, `KeyTold`: *there is* a sequence
  of compacted logs that the base sums up, and which, followed by the history, is all the
  live logs of the key in the order of the chain. `Canonical` then is that sequence, and a
  fold over a concatenation is the fold over its second part from the fold over its first
  (`RebuildApart`), timeline by timeline.
- The example: what `main()` watches, runs and holds at each of its points (`ArbInv`), and
  that what it selected had time left (`WellChosen`).

**Induction over data.** `RebuildState`, `Keep`, `Markets`, `Listed` and `AppendUnique` are
recursive functions. The library's induction rules take an operator; `LeastNumber` takes a
set instead, from the well-foundedness of `<` on the natural numbers, and `InductionUpTo`
follows for the set of the numbers a claim holds of. `RecursionDefined` and
`SameRecursion` say that a recursive function exists and is the only one; the lemmas named
`...Is` and `...Defined` apply them to each.

### Only model-checked

| Property | Why |
|---|---|
| `Settles`, both `CallsReturn`, `TeardownCompletes`, `ResnapshotEnds`, `SettlementWaitsReturn`, the second half of `UserGapsRecovered`, `PublicGapsRecovered`, `CallsEnd` | liveness under fairness is beyond the prover |
| `ViewMatchesChain` | holds within bounds only: a lookback that covers the chain and no crash; needs the additions and retractions still owed by queues and scans, summed over the forks |
| `ArithmeticExact`, `CodecExact` | about the inputs that `MCExact` lists, and the algorithms are recursive operators, over which the prover's SMT backend is not available |
| the four properties of the runs that expect a violation | the code does not have them |

## 5. Where code and promise disagree

Four runs expect a violation. Each checks one property that a document or a
test of the repository states, and TLC shows a behaviour of the code that breaks it.

1. **indexer_at_least_once.** `docs/polygon-indexing.md:48`: "Indexer delivery is
   at-least-once across process restarts." `reconcile_gap` starts its scan
   `reorg_lookback_blocks` below the new head whatever the cursor says, and
   checkpoints at the end: when the stream was down for longer than the window, the
   blocks below it are passed and never fetched, also after a restart.
2. **indexer_stale_queue.** `tests/evm_gap_reorg_tests.hpp:50`: "gap overlap must
   retract an orphan and deliver its replacement". A live log queued before a gap
   stays in `live_deliveries`; the overlap scan holds it back, and it is delivered
   after the scan computed its orphans. Nothing retracts it.
3. **ws_stop_stranded.** `tests/websocket_transport_callback_tests.hpp:134`: a stop
   from a callback must "return, finish teardown, and restart".
   `transport_worker_loop` publishes DISCONNECTED before it clears
   `transport_worker_active_`; a `disconnect()` in between sets CLOSING and leaves
   the teardown to a worker that is about to exit. The client stays CLOSING.
4. **ws_gap_overlap.** `docs/protocol-development.md:49`: missed events are stale
   state and gaps are reported. Two threads in `mark_stream_gap` at once: the late
   `discard_pending` of the older generation empties the queue of the newer, and a
   later message of it is delivered after the hole.

The passing runs set these cases aside where they would hide others, always
visibly: `CursorCovers` excepts blocks below a gap window (`skipped`),
`ViewMatchesChain` the stale log (`flags.stale`), and the WebSocket runs choose
histories in which the window of 3 (no user stop beside a callback's stop) or 4
(`InOrderAcrossCalls`: no requested resnapshot beside a drop) does not open.

Further behaviours met while modelling. No run checks them; each is visible in the
model named.

- *A closed queue.* A `disconnect()` between the queue's reset and the publication
  of DISCONNECTED (`websocket_client_resilience.cpp:211`) closes the queue of the next
  connection, whose messages are then dropped. (`NoSilentLoss` with `CallerStops` and
  `CallbackStops` both TRUE and two connects.)
- *A self-join.* A callback that stops a client whose transport worker has gone, as
  after the last reconnection attempt failed, joins its own thread
  (`websocket_client_transport.cpp:109`). (`NoSelfJoin` with `MaxAttempts = 1`, a dial
  failure and `CallbackStops`.)
- *A resnapshot without reconnection.* With `reconnect_enabled` false a peer close
  between setting `resnapshot_pending_` and re-enabling reconnection
  (`websocket_client_resilience.cpp:231`) leaves the client waiting for a connection
  nobody dials. (`ResnapshotEnds` with `ReconnectEnabled = FALSE`.)
- *An early recovery.* The gap is reported when the socket opens, before
  `eth_subscribe` is sent again (`evm_indexer_transport.cpp:70`); a block mined in
  between is in neither the scan nor the subscription until a later head confirms it.
  `ViewMatchesChain` excepts it (`flags.missed`).
- *A stop in the middle of a pass.* `stop()` while `reconciliation_active` is set and a
  refresh pending leaves the flag set; live deliveries of the next session wait for
  its next head (`evm_live_handoff.cpp:174`).
- *A late stop.* A `stop()` that overlaps the next `start_live` stops the new
  session's transport (`evm_event_indexer.cpp:219`); `Settles` excepts it.
- *A book of the old connection.* A message that passed its check before a gap may store
  its book after the gap cleared the books (`orderbook_runtime_stream.cpp:52`): the book
  stays until the new snapshot replaces it. The test `test_orderbook_stream.cpp:161`
  checks the sequential case only. Legs are stored under a second check and do not have
  this (`NoStaleLeg`).
- *A dark connection.* A `connect()` of the order book manager that times out leaves the
  transport dialling and the stream inactive; when it comes up, its snapshots are
  dropped, and a later `connect()` on the open transport does not ask for them again
  (`SnapshotKept` excepts it, `dark`).
- *A connect while connected.* `UserStreamRuntime::connect` clears and sets its flags
  before it asks the transport (`user_stream_runtime.cpp:232`); called while an
  authentication failure is tearing the stream down it can return true on a stream
  that is then deactivated. `ConnectsWhenActive` is FALSE in the run.
- *A change between copy and replay.* `restore_subscriptions` copies the subscriptions,
  releases the lock and sends the copy; a change that is sent in between reaches the
  server before the older copy (`overlap` in the three stream models).
- *A tick from a book.* A book that was requested before the cache was cleared stores its
  tick after it, since books are not among the fetches that a clear waits for
  (`clob_market_metadata.cpp:211`). An order call that refreshes the tick because it
  rejects the price ("refreshed once if it rejects the price", `clob_client.hpp:182`;
  `docs/order-flow.md:71`) can then be given the old tick again and refuse a valid
  price. `FreshAfterClear` is stated for lookups, `StaleTickRejectsNothing` without books.
- *A delay that does not fit.* `rate_limit_delay` casts `ceil(seconds * 1000)` to
  `long long` (`rate_limit.cpp:186`). For a number that does not fit, the result is the
  least value on x86-64, which passes the test of `max_delay` and is slept for not at
  all, so the retry is immediate. `ServerDelayKept` is stated for the delays that fit.
- *A transaction nobody names.* When the node takes the first transaction of a batch
  and its answer is lost, `execute_from_eoa` rethrows the error under the comment
  "Nothing on chain yet: the original error is the whole story."
  (`position_senders.cpp:114`). `OutcomeHonest` allows this one transaction.
- *Bytes inside libcurl.* The tunnel reads both sides before it polls because libcurl
  may hold bytes that no longer make the socket readable (`websocket_tunnel.cpp:257`).
  A direction that has no room leaves such bytes held, and poll() then waits for the
  client to become writable; bytes held while nothing is pending wait for the next
  event on a socket.

## 6. What is not modelled

In the modelled components: `connect()` from inside a callback and from two threads at
once, failure to create a thread, statistics, `run()`, destructors other than those of
the HTTP client and the tunnel, registration of callbacks, reentrant calls of the
indexer from its own callbacks, the coalescing of error reports, the subscription's
acknowledgement handshake, the early return at the largest block number, the routing of
JSON-RPC notifications. Several waits on one tracker are independent readers; one is
modelled.

| Left out | Reason |
|---|---|
| Hashes, signatures, EIP-712 domains | no state, and beyond a model checker; a signature is made at a time and an attempt carries it |
| Field by field parsers and query strings | conversions without state: an item is accepted by its parser or it is not, and what a call does then is modelled |
| Decimal text and the correction of a double by one ulp (`decimal_math.cpp`) | needs IEEE 754 arithmetic; inputs of the arithmetic models are exact decimals |
| Proxies and routes (`network_route.cpp`), TLS, the transfer inside libcurl | external: one step that succeeds or fails |
| Environment, geoblock, version, JSON fields | tables and conversions |
| Test programs beside the sources | read as statements of what the client promises |

Outside the prover's reach: liveness under fairness, `ENABLED`, and recursive operators,
so what the algorithms of OrderAmounts, EvmCodec and MarketTime compute is compared with
its reference by TLC over bounded inputs. The loops of OracleDashboard, MarketFetcher and
ArbRuntime are recursive functions, and what they compute is proved.

## 7. Plan

1. `ViewMatchesChain`, from `CursorInv` and an invariant on what the two queues still
   owe the consumer.
2. `CursorFile` as a refinement of the one-step save of the indexer.
3. OrderAmounts with recursive functions in place of its recursive operators, so that the
   exactness of a signed amount can be proved for every price and size.
