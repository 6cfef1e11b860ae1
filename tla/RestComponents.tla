---------------------------- MODULE RestComponents ----------------------------
(***************************************************************************)
(* The components that no WebSocketClient drives: HTTP, the REST calls and *)
(* their pagination, orders, the cursor file, transactions, the dashboard, *)
(* market discovery, the example runtime and the tunnel.  They share no    *)
(* state, so a behaviour is about one of them (`which') and the others     *)
(* stay in an initial state.                                               *)
(***************************************************************************)
EXTENDS Integers, Sequences, FiniteSets

CONSTANTS
    Threads,                                       \* user threads
    Slots, GlobalBudgets, Timeouts, ConnBudgets,   \* HttpGlobal, HttpConnection
    Prices, Ticks, OrderBudgets,                   \* ClobOrders
    Totals, Limits, MaxOffset, MaxPages, PageBudgets,    \* Paginator
    Waits, LongMax, Policies, MaxWait, CallBudgets,      \* RestCalls
    Names, MaxBlock, FileBudgets,                  \* CursorFile
    MaxTries, TxBudgets,                           \* PositionTransactions
    Logs, Retained, OracleBudgets,                 \* OracleDashboard
    Sizes, Clients, Walks, FetchBudgets,           \* MarketFetcher
    Listings, Arguments, MaxMarkets, MaxTime, ArbBudgets,    \* ArbRuntime
    MaxPending, Chunk, Buffer, Record, TunnelBudgets \* WebSocketTunnel

(* The mutex tells its owners from nobody and from the heartbeat; a timeout is a long.  A
   client object belongs to one thread, and there are finitely many of each. *)
ASSUME HttpAssumption ==
    /\ "free" \notin Threads /\ "heartbeat" \notin Threads
    /\ Timeouts \subseteq Int
    /\ IsFiniteSet(DOMAIN Slots)
    /\ IsFiniteSet(UNION {Slots[t] : t \in DOMAIN Slots})
    /\ \A t, u \in DOMAIN Slots : t # u => Slots[t] \cap Slots[u] = {}

(* Prices are in units of the finest grid, and a tick is a distance on it. *)
ASSUME OrdersAssumption == Prices \subseteq Nat /\ Ticks \subseteq Nat \ {0}

(* The sizes and bounds of a listing are numbers, and no page size is zero. *)
ASSUME PagesAssumption ==
    /\ Totals \subseteq Nat /\ Limits \subseteq Nat \ {0}
    /\ MaxOffset \in Nat /\ MaxPages \in Nat

(* validate_rate_limit_retry takes no negative policy, and no wait below zero is parsed. *)
ASSUME CallsAssumption ==
    /\ Policies \subseteq [retries : Nat, max_delay : Nat]
    /\ Waits \subseteq Nat /\ LongMax \in Nat

(* A block number is a number, and a history has so many events of each kind. *)
ASSUME FileAssumption ==
    /\ MaxBlock \in Nat
    /\ FileBudgets \subseteq [calls : Nat, faults : Nat, crashes : Nat, processes : Nat]

(* A wallet is an EOA or a Safe, and a Protocol V2 condition is listed in one of its forms. *)
ASSUME TxAssumption ==
    TxBudgets \subseteq [wallet : {"eoa", "safe"}, tasks : SUBSET STRING, calls : Nat,
                         faults : Nat, closed : SUBSET STRING, listed : 0..2]

(* No two logs of a question have the same place in the order of the chain. *)
ASSUME OracleAssumption ==
    /\ Logs \subseteq [at : Nat \ {0}, key : STRING, kind : STRING, price : STRING]
    /\ Retained \in Nat
    /\ \A l, m \in Logs : l.key = m.key /\ l.at = m.at => l = m

(* A batch has so many requests, the fetcher has a client at least, and a page is read,
   or unreadable, or without a cursor, or not to be had. *)
ASSUME FetchAssumption ==
    /\ Sizes \subseteq Nat /\ Clients \in Nat \ {0}
    /\ Walks \subseteq [limit : Nat, only : BOOLEAN,
                        pages : Seq([answer : {"ok", "garbled", "cursorless", "error"},
                                     items : Seq(Nat)])]

(* What a fetch finds are markets. *)
ASSUME ArbAssumption ==
    /\ Listings \subseteq [{"15m", "1h", "4h", "neg-risk"} ->
                              Seq([id : Nat, symbol : STRING, ends : Nat])]
    /\ MaxMarkets \in Nat

(* max_pending_bytes and the buffers are sizes; a read brings at least a byte. *)
ASSUME TunnelAssumption ==
    /\ MaxPending \in Nat /\ Buffer \in Nat /\ {Chunk, Record} \subseteq Nat \ {0}
    /\ TunnelBudgets \subseteq [bytes : Nat, connections : Nat, faults : Nat]

VARIABLES
    which,     \* the component this behaviour is about
    budget,    \* events of each kind that may still happen in it
    g_client, g_refs, g_manual, g_initialized, g_op,
    h_configured, h_curl, h_headers, h_lock, h_waiters, h_caller, h_running, h_hb,
    h_stopping,
    c_market, c_tickCache, c_negCache, c_inFlight, c_call, c_clearedAt, c_posted,
    c_booked,
    p_total, p_pager, p_buffer, p_filling, p_iterates, p_got, p_requests, p_looped,
    r_call, r_policy, r_listener, r_auth, r_cache, r_now,
    f_file, f_older, f_calls, f_floor,
    t_chain, t_txs, t_lock, t_op,
    o_states, o_histories, o_bases, o_through, o_live, o_late,
    b_batch, b_next, b_workers, b_cancelled, b_failure, b_results, b_main, b_runs, b_walk,
    x_now, x_pc, x_options, x_markets, x_current, x_books, x_thread, x_running, x_global,
    x_chosen,
    w_pc, w_up, w_down, w_closed, w_eof, w_backlog, w_stopping, w_owner, w_failed

g_vars == <<g_client, g_refs, g_manual, g_initialized, g_op>>
h_vars == <<h_configured, h_curl, h_headers, h_lock, h_waiters, h_caller, h_running,
    h_hb, h_stopping>>
c_vars == <<c_market, c_tickCache, c_negCache, c_inFlight, c_call, c_clearedAt, c_posted,
    c_booked>>
p_vars == <<p_total, p_pager, p_buffer, p_filling, p_iterates, p_got, p_requests,
    p_looped>>
r_vars == <<r_call, r_policy, r_listener, r_auth, r_cache, r_now>>
f_vars == <<f_file, f_older, f_calls, f_floor>>
t_vars == <<t_chain, t_txs, t_lock, t_op>>
o_vars == <<o_states, o_histories, o_bases, o_through, o_live, o_late>>
b_vars == <<b_batch, b_next, b_workers, b_cancelled, b_failure, b_results, b_main,
    b_runs, b_walk>>
x_vars == <<x_now, x_pc, x_options, x_markets, x_current, x_books, x_thread, x_running,
    x_global, x_chosen>>
w_vars == <<w_pc, w_up, w_down, w_closed, w_eof, w_backlog, w_stopping, w_owner, w_failed>>

Global == INSTANCE HttpGlobal WITH Budgets <- GlobalBudgets,
    client <- g_client, refs <- g_refs, manual <- g_manual, initialized <- g_initialized,
    op <- g_op
Conn == INSTANCE HttpConnection WITH Callers <- Threads, Budgets <- ConnBudgets,
    configured <- h_configured, curl <- h_curl, headers <- h_headers, lock <- h_lock,
    waiters <- h_waiters, caller <- h_caller, running <- h_running, hb <- h_hb,
    stopping <- h_stopping
Orders == INSTANCE ClobOrders WITH Callers <- Threads, Budgets <- OrderBudgets,
    market <- c_market, tickCache <- c_tickCache, negCache <- c_negCache,
    inFlight <- c_inFlight, call <- c_call, clearedAt <- c_clearedAt, posted <- c_posted,
    booked <- c_booked
Pages == INSTANCE Paginator WITH Budgets <- PageBudgets, total <- p_total,
    pager <- p_pager, buffer <- p_buffer, filling <- p_filling, iterates <- p_iterates,
    got <- p_got, requests <- p_requests, looped <- p_looped
Calls == INSTANCE RestCalls WITH MaxTime <- MaxWait, Budgets <- CallBudgets,
    call <- r_call, policy <- r_policy, listener <- r_listener, auth <- r_auth,
    cache <- r_cache, now <- r_now
File == INSTANCE CursorFile WITH Budgets <- FileBudgets, file <- f_file,
    older <- f_older, calls <- f_calls, floor <- f_floor
Txs == INSTANCE PositionTransactions WITH Budgets <- TxBudgets, chain <- t_chain,
    txs <- t_txs, lock <- t_lock, op <- t_op
Oracle == INSTANCE OracleDashboard WITH Budgets <- OracleBudgets, states <- o_states,
    histories <- o_histories, bases <- o_bases, through <- o_through, live <- o_live,
    late <- o_late
Fetch == INSTANCE MarketFetcher WITH Budgets <- FetchBudgets, batch <- b_batch,
    next <- b_next, workers <- b_workers, cancelled <- b_cancelled, failure <- b_failure,
    results <- b_results, main <- b_main, runs <- b_runs, walk <- b_walk
Arb == INSTANCE ArbRuntime WITH Budgets <- ArbBudgets, now <- x_now, pc <- x_pc,
    options <- x_options, markets <- x_markets, current <- x_current, books <- x_books,
    thread <- x_thread, running <- x_running, global <- x_global, chosen <- x_chosen
Tunnel == INSTANCE WebSocketTunnel WITH Budgets <- TunnelBudgets, pc <- w_pc,
    up <- w_up, down <- w_down, closed <- w_closed, eof <- w_eof, backlog <- w_backlog,
    stopping <- w_stopping, owner <- w_owner, failed <- w_failed

Select ==
    \/ which = "global" /\ budget \in GlobalBudgets
    \/ which = "conn" /\ budget \in ConnBudgets
    \/ which = "orders" /\ budget \in OrderBudgets
    \/ which = "pages" /\ budget \in PageBudgets
    \/ which = "calls" /\ budget \in CallBudgets
    \/ which = "file" /\ budget \in FileBudgets
    \/ which = "txs" /\ budget \in TxBudgets
    \/ which = "oracle" /\ budget \in OracleBudgets
    \/ which = "fetch" /\ budget \in FetchBudgets
    \/ which = "arb" /\ budget \in ArbBudgets
    \/ which = "tunnel" /\ budget \in TunnelBudgets

(* The components a behaviour is not about are in one initial state. *)
OneOf(S) == CHOOSE x \in S : TRUE
InitComponents ==
    /\ Global!InitState
    /\ Conn!InitState /\ (which # "conn" => h_configured = OneOf(Timeouts))
    /\ Orders!InitState /\ (which # "orders" => c_market.tick = OneOf(Ticks))
    /\ Pages!InitState
    /\ which # "pages" => /\ p_total = OneOf(Totals) /\ ~p_iterates
                          /\ p_pager.kind = "cursor" /\ p_pager.limit = OneOf(Limits)
    /\ Calls!InitState /\ (which # "calls" => r_auth = "none" /\ r_policy = Calls!NoPolicy)
    /\ File!InitState
    /\ Txs!InitState
    /\ Oracle!InitState
    /\ Fetch!InitState
    /\ which # "fetch" => b_batch.size = OneOf(Sizes) /\ b_walk.input = OneOf(Walks)
    /\ Arb!InitState /\ (which # "arb" => x_options = Arb!ParseOptions(OneOf(Arguments)))
    /\ Tunnel!InitState
Init == Select /\ InitComponents

OnlyGlobal == which = "global" /\ UNCHANGED <<which, h_vars, c_vars, p_vars, r_vars,
    f_vars, t_vars, o_vars, b_vars, x_vars, w_vars>>
OnlyConn == which = "conn" /\ UNCHANGED <<which, g_vars, c_vars, p_vars, r_vars, f_vars,
    t_vars, o_vars, b_vars, x_vars, w_vars>>
OnlyOrders == which = "orders" /\ UNCHANGED <<which, g_vars, h_vars, p_vars, r_vars,
    f_vars, t_vars, o_vars, b_vars, x_vars, w_vars>>
OnlyPages == which = "pages" /\ UNCHANGED <<which, g_vars, h_vars, c_vars, r_vars,
    f_vars, t_vars, o_vars, b_vars, x_vars, w_vars>>
OnlyCalls == which = "calls" /\ UNCHANGED <<which, g_vars, h_vars, c_vars, p_vars,
    f_vars, t_vars, o_vars, b_vars, x_vars, w_vars>>
OnlyFile == which = "file" /\ UNCHANGED <<which, g_vars, h_vars, c_vars, p_vars, r_vars,
    t_vars, o_vars, b_vars, x_vars, w_vars>>
OnlyTxs == which = "txs" /\ UNCHANGED <<which, g_vars, h_vars, c_vars, p_vars, r_vars,
    f_vars, o_vars, b_vars, x_vars, w_vars>>
OnlyOracle == which = "oracle" /\ UNCHANGED <<which, g_vars, h_vars, c_vars, p_vars,
    r_vars, f_vars, t_vars, b_vars, x_vars, w_vars>>
OnlyFetch == which = "fetch" /\ UNCHANGED <<which, g_vars, h_vars, c_vars, p_vars,
    r_vars, f_vars, t_vars, o_vars, x_vars, w_vars>>
OnlyArb == which = "arb" /\ UNCHANGED <<which, g_vars, h_vars, c_vars, p_vars, r_vars,
    f_vars, t_vars, o_vars, b_vars, w_vars>>
OnlyTunnel == which = "tunnel" /\ UNCHANGED <<which, g_vars, h_vars, c_vars, p_vars,
    r_vars, f_vars, t_vars, o_vars, b_vars, x_vars>>

(* Nothing follows the return of the last REST or order call. *)
UnderWay == budget.calls > 0 \/ r_call.step # "idle" \/ \E t \in Threads : Orders!Busy(t)

(* A new policy or listener commutes with every step but the ones that read them: it is
   explored where a call begins, and while one sleeps. *)
Reconfigured ==
    <<r_policy, r_listener>>' # <<r_policy, r_listener>> => r_call.step = "sleep"

Next ==
    \/ OnlyGlobal /\ Global!Next
    \/ OnlyConn /\ Conn!Next
    \/ OnlyOrders /\ Orders!Next /\ UnderWay
    \/ OnlyPages /\ Pages!Next
    \/ OnlyCalls /\ Calls!Next /\ UnderWay /\ Reconfigured
    \/ OnlyFile /\ File!Next
    \/ OnlyTxs /\ Txs!Next
    \/ OnlyOracle /\ Oracle!Next
    \/ OnlyFetch /\ Fetch!Next
    \/ OnlyArb /\ Arb!Next
    \/ OnlyTunnel /\ Tunnel!Next

allVars == <<which, budget, g_vars, h_vars, c_vars, p_vars, r_vars, f_vars, t_vars, o_vars,
    b_vars, x_vars, w_vars>>

(* The fairness of each module, for the component the behaviour is about: threads run,
   servers answer or time out, clocks move, peers read what has arrived. *)
Fairness ==
    /\ \A t \in Threads :
          /\ WF_h_vars(which = "conn" /\ Conn!Perform(t)) /\ WF_h_vars(which = "conn" /\ Conn!Done(t))
          /\ WF_c_vars(which = "orders" /\ Orders!Step(t))
          /\ WF_t_vars(which = "txs" /\ Txs!Step(t)) /\ WF_t_vars(which = "txs" /\ Txs!Deadline(t))
    /\ WF_h_vars(which = "conn" /\ Conn!Wake) /\ WF_h_vars(which = "conn" /\ Conn!Beat)
    /\ WF_h_vars(which = "conn" /\ Conn!BeatEnds) /\ WF_h_vars(which = "conn" /\ Conn!Joined)
    /\ WF_p_vars(which = "pages" /\ Pages!Page) /\ WF_p_vars(which = "pages" /\ Pages!FillBuffer)
    /\ WF_p_vars(which = "pages" /\ Pages!Consume)
    /\ WF_r_vars(which = "calls" /\ Calls!Send) /\ WF_r_vars(which = "calls" /\ Calls!Wake)
    /\ WF_r_vars(which = "calls" /\ Calls!Tick)
    /\ WF_r_vars(which = "calls" /\ (Calls!Sleep \/ Calls!Finish))
    /\ WF_r_vars(which = "calls" /\ Calls!Answered)
    /\ WF_b_vars(which = "fetch" /\ Fetch!Start) /\ WF_b_vars(which = "fetch" /\ Fetch!Join)
    /\ WF_b_vars(which = "fetch" /\ \E w \in Fetch!Workers : Fetch!Take(w) \/ Fetch!Perform(w))
    /\ WF_x_vars(which = "arb" /\ Arb!Main) /\ WF_x_vars(which = "arb" /\ Arb!Passes)
    /\ WF_w_vars(which = "tunnel" /\ Tunnel!Worker)
    /\ WF_w_vars(which = "tunnel" /\ w_owner = "joining" /\ Tunnel!Destroy)
    /\ WF_w_vars(which = "tunnel" /\ Tunnel!PeersRead)

Spec == Init /\ [][Next]_allVars /\ Fairness

-----------------------------------------------------------------------------
(* HttpClient: no sequence of moves, failed constructions and destructions on two threads
   cleans libcurl up under a live handle or leaks a reference, and a request never goes out
   with what the heartbeat or an earlier request left on the shared handle. *)
HttpSafe ==
    /\ which = "global" => Global!HandleNeedsGlobal /\ Global!NoReferenceLeaks
    /\ which = "conn" => Conn!RequestsAsConfigured

(* ClobClient's market metadata: concurrent misses share one fetch, a fetch from before a
   clear cannot fill the cache, a stale cached tick alone refuses no order, and an order
   call posts at most one order. *)
OrdersSafe ==
    which = "orders" => /\ Orders!OneFetchPerKey /\ Orders!FreshAfterClear
                        /\ Orders!StaleTickRejectsNothing /\ Orders!PostsAtMostOnce

(* Paginator: every item once and in order over failures and resumptions, everything or a
   reason why not, and no more requests than max_pages. *)
PagesComplete ==
    which = "pages" => Pages!ItemsInOrder /\ Pages!CompleteOrTold /\ Pages!RequestsBounded

(* REST: no request that the code classes as a write is sent again after a 429. *)
MutationsSentOnce == which = "calls" => Calls!MutationsSentOnce

(* REST: retries and sleeps stay within the policy the call began with and its deadline,
   each attempt is signed afresh, and a cancellation is only reported when confirmed. *)
RetriesWithinPolicy ==
    which = "calls" =>
        Calls!RetriesWithinPolicy /\ Calls!FreshSignature /\ Calls!CancelsConfirmed

(* REST: a retry waits for as long as the server asked, and only an answer accepted as a
   whole reaches the metadata cache. *)
RestActions == Calls!ServerDelayKept /\ Calls!CacheFromAcceptedBooks

(* The cursor file is whole after a crash at any point, and no save of one process loses or
   lowers a cursor. *)
CursorFilesWhole == which = "file" => File!WholeFile /\ File!CursorsKept

(* Transactions: one nonce each, batches in order, nothing executed twice over retries, and
   an outcome that says what happened. *)
TransactionsSafe ==
    which = "txs" => /\ Txs!NoncesDistinct /\ Txs!BatchInOrder /\ Txs!ExecutedOnce
                     /\ Txs!MergesDistinct /\ Txs!OutcomeHonest

(* Market discovery, the dashboard and the example: every request of a batch once and in
   order, a state that does not depend on the order of arrival, one market watched. *)
DiscoverySafe ==
    /\ which = "fetch" => Fetch!FetchesComplete
    /\ which = "oracle" => Oracle!ArrivalOrderIrrelevant
    /\ which = "arb" => Arb!WatchesOneMarket

(* The tunnel bounds what it holds, loses no byte, and drains a side that closed. *)
TunnelKeepsBytes == which = "tunnel" => Tunnel!TunnelKeepsBytes

(* What has to end: the call of a thread, a drain, a batch, or the stop of the heartbeat,
   of the program, of the tunnel; and a market that ran out, and bytes on their way. *)
Owed(x) ==
    \/ which = "conn" /\ (IF x = "stop" THEN h_stopping ELSE h_caller[x].at # "idle")
    \/ which = "orders" /\ x \in Threads /\ Orders!Busy(x)
    \/ which = "txs" /\ x \in Threads /\ t_op[x].step # "idle"
    \/ which = "calls" /\ x = "r" /\ r_call.step # "idle"
    \/ which = "pages" /\ x = "r" /\ ~(Pages!Over(p_pager) /\ p_buffer = <<>>)
    \/ which = "fetch" /\ x = "r" /\ b_main \notin {"returned", "threw"}
    \/ which = "arb" /\ (IF x = "stop" THEN Arb!Stopping ELSE x = "r" /\ Arb!Expired)
    \/ which = "tunnel" /\ (IF x = "stop" THEN w_owner = "joining" ELSE x = "r" /\ Tunnel!Carrying)

(* Whatever fails, and whoever waits on whom: a request gets past the heartbeat, a call
   returns though its fetch is another thread's, retries and operations end though the
   chain never answers, the market is rotated, and a stop gets through. *)
CallsEnd == \A x \in Threads \cup {"stop"} : Owed(x) ~> ~Owed(x)
=============================================================================
