--------------------------- MODULE StreamRuntimes ---------------------------
(***************************************************************************)
(* The four runtimes over a WebSocketClient, each composed with GapStream, *)
(* and the settlement wait that a user stream feeds.  They share no state, *)
(* so a behaviour is about one of them (`which') and the others stay in    *)
(* their initial states.                                                   *)
(***************************************************************************)
EXTENDS Integers, Sequences, FiniteSets

CONSTANTS
    Markets, Tokens, Keys,                               \* what the runtimes subscribe to
    UserBudgets, BookBudgets, PublicBudgets, RpcBudgets, \* bounds on the events of each
    Trades, Order, NoId, Capacity, MaxTries, MaxWire, MaxGaps, MaxResends \* TradeSettlement

VARIABLES
    which,     \* the component this behaviour is about
    budget,    \* events of each kind that may still happen in it
    u_link, u_gen, u_reports, u_pending, u_closing, u_owner, u_active, u_auth, u_sgen,
    u_recovery, u_sub, u_copy, u_server, u_user, u_subs, u_work, u_closer,
    u_telling, u_conn, u_result, u_told, u_waits, u_late, u_overlap,
    o_link, o_gen, o_reports, o_pending, o_closing, o_owner, o_active, o_sgen, o_books,
    o_ready, o_legs, o_market, o_tracked, o_copy, o_server, o_snaps, o_conn, o_user,
    o_subs, o_work, o_inval, o_arb, o_dark, o_overlap,
    p_link, p_gen, p_reports, p_pending, p_closing, p_owner, p_active, p_recovery,
    p_added, p_copy, p_server, p_user, p_subs, p_work, p_telling, p_conn, p_result,
    p_gap, p_late, p_overlap,
    j_link, j_gen, j_reports, j_pending, j_closing, j_owner, j_active, j_sgen, j_stored,
    j_sent, j_failed, j_user, j_subs, j_resub, j_heard, j_loss,
    s_truth, s_visible, s_wire, s_stream, s_budget, s_trades, s_arrival, s_version,
    s_recoveries, s_waiter, s_clock, s_listed

u_vars == <<u_link, u_gen, u_reports, u_pending, u_closing, u_owner, u_active, u_auth,
    u_sgen, u_recovery, u_sub, u_copy, u_server, u_user, u_subs, u_work, u_closer,
    u_telling, u_conn, u_result, u_told, u_waits, u_late, u_overlap>>
o_vars == <<o_link, o_gen, o_reports, o_pending, o_closing, o_owner, o_active, o_sgen,
    o_books, o_ready, o_legs, o_market, o_tracked, o_copy, o_server, o_snaps, o_conn,
    o_user, o_subs, o_work, o_inval, o_arb, o_dark, o_overlap>>
p_vars == <<p_link, p_gen, p_reports, p_pending, p_closing, p_owner, p_active,
    p_recovery, p_added, p_copy, p_server, p_user, p_subs, p_work, p_telling,
    p_conn, p_result, p_gap, p_late, p_overlap>>
j_vars == <<j_link, j_gen, j_reports, j_pending, j_closing, j_owner, j_active, j_sgen,
    j_stored, j_sent, j_failed, j_user, j_subs, j_resub, j_heard, j_loss>>
s_vars == <<s_truth, s_visible, s_wire, s_stream, s_budget, s_trades, s_arrival,
    s_version, s_recoveries, s_waiter, s_clock, s_listed>>

User == INSTANCE UserStream WITH ConnectsWhenActive <- FALSE,
    Budgets <- UserBudgets, link <- u_link, gen <- u_gen, reports <- u_reports,
    pending <- u_pending, closing <- u_closing, owner <- u_owner, active <- u_active,
    auth <- u_auth, sgen <- u_sgen, recovery <- u_recovery, sub <- u_sub, copy <- u_copy,
    server <- u_server, user <- u_user, subs <- u_subs, work <- u_work,
    closer <- u_closer, telling <- u_telling, conn <- u_conn, result <- u_result,
    told <- u_told, waits <- u_waits, late <- u_late, overlap <- u_overlap
Books == INSTANCE OrderbookManager WITH Budgets <- BookBudgets,
    link <- o_link, gen <- o_gen, reports <- o_reports, pending <- o_pending,
    closing <- o_closing, owner <- o_owner, active <- o_active, sgen <- o_sgen,
    books <- o_books, ready <- o_ready, legs <- o_legs, market <- o_market,
    tracked <- o_tracked, copy <- o_copy, server <- o_server, snaps <- o_snaps,
    conn <- o_conn, user <- o_user, subs <- o_subs, work <- o_work, inval <- o_inval,
    arb <- o_arb, dark <- o_dark, overlap <- o_overlap
Public == INSTANCE PublicStream WITH Budgets <- PublicBudgets,
    link <- p_link, gen <- p_gen, reports <- p_reports, pending <- p_pending,
    closing <- p_closing, owner <- p_owner, active <- p_active, recovery <- p_recovery,
    added <- p_added, copy <- p_copy, server <- p_server, user <- p_user, subs <- p_subs,
    work <- p_work, telling <- p_telling, conn <- p_conn, result <- p_result,
    gap <- p_gap, late <- p_late, overlap <- p_overlap
Rpc == INSTANCE JsonRpcWs WITH Budgets <- RpcBudgets, link <- j_link, gen <- j_gen,
    reports <- j_reports, pending <- j_pending, closing <- j_closing, owner <- j_owner,
    active <- j_active, sgen <- j_sgen, stored <- j_stored, sent <- j_sent,
    failed <- j_failed, user <- j_user, subs <- j_subs, resub <- j_resub,
    heard <- j_heard, loss <- j_loss
Fills == INSTANCE TradeSettlement WITH truth <- s_truth, visible <- s_visible,
    wire <- s_wire, stream <- s_stream, budget <- s_budget, trades <- s_trades,
    arrival <- s_arrival, version <- s_version, recoveries <- s_recoveries,
    waiter <- s_waiter, clock <- s_clock, listed <- s_listed

(* Settlement: nothing follows the return of the call, and the polling form, which does
   not read the tracker, is explored with a silent stream. *)
OneCall ==
    /\ s_waiter.pc # "done"
    /\ \A t \in DOMAIN s_visible : s_visible'[t].status.name \notin {"MATCHED", "RETRYING"}
    /\ s_waiter'.pc = "idle" \/ s_waiter'.mode = "poll" => s_version' = 0 /\ s_wire' = {}

Select ==
    \/ which = "user" /\ budget \in UserBudgets
    \/ which = "books" /\ budget \in BookBudgets
    \/ which = "public" /\ budget \in PublicBudgets
    \/ which = "rpc" /\ budget \in RpcBudgets
    \/ which = "fills" /\ budget = "none"

Init ==
    /\ Select
    /\ User!InitState /\ Books!InitState /\ Public!InitState /\ Rpc!InitState
    /\ Fills!Init

OnlyUser == which = "user" /\ UNCHANGED <<which, o_vars, p_vars, j_vars, s_vars>>
OnlyBooks == which = "books" /\ UNCHANGED <<which, u_vars, p_vars, j_vars, s_vars>>
OnlyPublic == which = "public" /\ UNCHANGED <<which, u_vars, o_vars, j_vars, s_vars>>
OnlyRpc == which = "rpc" /\ UNCHANGED <<which, u_vars, o_vars, p_vars, s_vars>>
OnlyFills == which = "fills" /\ UNCHANGED <<which, budget, u_vars, o_vars, p_vars, j_vars>>

Next ==
    \/ OnlyUser /\ User!Next
    \/ OnlyBooks /\ Books!Next
    \/ OnlyPublic /\ Public!Next
    \/ OnlyRpc /\ Rpc!Next
    \/ OnlyFills /\ Fills!Next /\ OneCall
allVars == <<which, budget, u_vars, o_vars, p_vars, j_vars, s_vars>>

(* Every thread goes on, and the transport when nothing has to happen to it.  For the
   settlement the waiting thread runs and the clock reaches the next poll; whether the
   deadline passes, and what the exchange does, is left open. *)
Spec ==
    /\ Init /\ [][Next]_allVars
    /\ User!Fairness /\ Public!Fairness
    /\ WF_s_vars(which = "fills" /\ Fills!Waiter) /\ WF_s_vars(which = "fills" /\ Fills!Due)

-----------------------------------------------------------------------------
(* UserStream: a failed connect() is off, at most one event of a superseded message is
   delivered, and the server delivers what subscription_ says. *)
UserStreamSafe == User!FailedConnectIsOff /\ User!OneLateEvent /\ User!ServerAgrees

(* UserStream: handle_connect takes for recovered the newest gap handed to the runtime, and
   every gap callback is followed by a recovered callback or the stream is deactivated. *)
UserGapsRecovered == User!RecoversNewestGap /\ User!GapIsRecovered

(* OrderbookManager: no ask of an earlier connection survives a gap, an arbitrage callback
   compares legs of one connection, and a snapshot that was sent is kept. *)
BooksOfOneConnection == Books!NoStaleLeg /\ Books!ArbFromOneConnection /\ Books!SnapshotKept

(* PublicStream: the server's keys agree with the subscriptions, a failed connect() is
   off, and a superseded message reaches at most one more target. *)
PublicStreamSafe == Public!KeysAgree /\ Public!PublicConnectIsOff /\ Public!OneLateDelivery

(* PublicStream: every gap told to the user is recovered or the stream deactivated. *)
PublicGapsRecovered == Public!PublicGapRecovers

(* JSON-RPC runtime: no stored subscription is lost, none is sent three times, and a lost
   connection is reported before the next one. *)
RpcSubscriptionsKept == Rpc!NoLostSubscription /\ Rpc!SentAtMostTwice /\ Rpc!LossReported

(* Settlement: both forms of wait_for_order_fill_settlement return once REST lists every
   fill or the deadline has passed, also when the stream lost every event. *)
SettlementWaitsReturn == (which = "fills" /\ Fills!WaitOwed) ~> s_waiter.pc = "done"
=============================================================================
