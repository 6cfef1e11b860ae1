----------------------------- MODULE ArbRuntime ------------------------------
(***************************************************************************)
(* main() of polymarket_arb: it finds markets, watches the one that ends   *)
(* next, and rotates to another before it ends.  Time is in minutes; a     *)
(* market is its id, its symbol and the minute it ends in.  The books are  *)
(* those of OrderbookManager, here the set of ids they are subscribed to.  *)
(***************************************************************************)
EXTENDS Integers, Sequences, FiniteSets

CONSTANTS
    Listings,   \* what one fetch may find: source |-> a sequence of markets
    Arguments,  \* command lines, as sets of flags
    MaxMarkets, \* options.max_markets
    MaxTime,    \* bound: the last minute
    Budgets     \* [fetches, faults]

VARIABLES
    now,        \* now_sec()
    pc,         \* where main() is
    options,    \* what parse_options made of the command line
    markets,    \* what the last fetch kept
    current,    \* the market being watched
    books,      \* ids subscribed to
    thread,     \* websocket_loop: "none", "running" or "joined"
    running,    \* the flag the signal handlers clear
    global,     \* references main() holds on libcurl's global state
    chosen,     \* history: the minute current was selected in
    budget

vars == <<now, pc, options, markets, current, books, thread, running, global, chosen, budget>>

NoMarket == [id |-> 0, symbol |-> "", ends |-> 0]

(* parse_options: --help, --live, an unknown flag and a value that is not positive run
   nothing; without a source the 15-minute markets are meant. *)
ParseOptions(arguments) ==
    LET sources == arguments \cap {"15m", "1h", "4h", "neg-risk"} IN
    [run |-> arguments \cap {"help", "live", "unknown", "not positive"} = {},
     fetch_only |-> "fetch-only" \in arguments,
     sources |-> IF sources = {} THEN {"15m"} ELSE sources,
     symbol |-> "btc"]

(* crypto_selected: only a market of the symbol is then watched. *)
TargetSymbol == IF options.sources \cap {"15m", "1h", "4h"} = {} THEN "" ELSE options.symbol

InitState ==
    /\ now = 0 /\ pc = "init" /\ options \in {ParseOptions(a) : a \in Arguments} /\ markets = <<>> /\ current = NoMarket
    /\ books = {} /\ thread = "none" /\ running = TRUE /\ global = 0 /\ chosen = 0
Init == InitState /\ budget \in Budgets

-----------------------------------------------------------------------------
AppendUnique(destination, source) ==
    LET all[n \in 0..Len(source)] ==
            IF n = 0 THEN destination
            ELSE IF \E i \in DOMAIN all[n - 1] : all[n - 1][i].id = source[n].id THEN all[n - 1]
            ELSE Append(all[n - 1], source[n])
    IN all[Len(source)]

(* fetch_selected: the sources that were asked for, in this order. *)
FetchSelected(listing) ==
    LET Asked(got, x) == IF x \in options.sources THEN AppendUnique(got, listing[x]) ELSE got
        all == Asked(Asked(Asked(Asked(<<>>, "15m"), "1h"), "4h"), "neg-risk")
    IN SubSeq(all, 1, IF Len(all) > MaxMarkets THEN MaxMarkets ELSE Len(all))

(* select_market: the one that ends first among those with more than two minutes left. *)
SelectMarket(listed) ==
    LET open == {i \in DOMAIN listed : /\ listed[i].ends > now + 2
                                       /\ TargetSymbol \in {"", listed[i].symbol}} IN
    IF open = {} THEN NoMarket
    ELSE listed[CHOOSE i \in open : \A j \in open :
                    listed[i].ends < listed[j].ends \/ (listed[i].ends = listed[j].ends /\ i <= j)]

(* seconds_until(...) < 60 *)
MustRotate == current.ends - now < 1

-----------------------------------------------------------------------------
Goto(l) == pc' = l

(* Options, signal handlers, http_global_init. *)
Begin ==
    /\ pc = "init"
    /\ IF options.run THEN global' = 1 /\ Goto("fetch") ELSE Goto("exit") /\ UNCHANGED global
    /\ UNCHANGED <<now, options, markets, current, books, thread, running, chosen, budget>>

(* fetch_selected, on start and on rotation. *)
Fetch ==
    /\ pc \in {"fetch", "refetch"} /\ budget.fetches > 0
    /\ budget' = [budget EXCEPT !.fetches = @ - 1]
    /\ \E listing \in Listings : markets' = FetchSelected(listing)
    /\ Goto(IF pc = "refetch" THEN "select"
            ELSE IF markets' = <<>> THEN "cleanup"
            ELSE IF options.fetch_only THEN "cleanup" ELSE "select")
    /\ UNCHANGED <<now, options, current, books, thread, running, global, chosen>>

Select ==
    /\ pc = "select" /\ current' = SelectMarket(markets) /\ chosen' = now
    /\ Goto("prepare")
    /\ UNCHANGED <<now, options, markets, books, thread, running, global, budget>>

(* refresh_market_metadata: an answer without a tick or a minimum size, one that cannot be
   read, and no answer are failures. *)
RefreshMarketMetadata(answer) == answer = "complete"

(* prepare_market: a market was found and its metadata could be refreshed. *)
Prepare ==
    /\ pc = "prepare"
    /\ \E answer \in {"complete", "incomplete", "garbled", "none"} :
        IF current # NoMarket /\ RefreshMarketMetadata(answer)
        THEN Goto("subscribe") /\ UNCHANGED <<running, budget>>
        ELSE /\ \/ current = NoMarket /\ UNCHANGED budget
                \/ /\ current # NoMarket /\ budget.faults > 0
                   /\ budget' = [budget EXCEPT !.faults = @ - 1]
             /\ IF thread = "running" THEN Goto("stop") /\ running' = FALSE
                ELSE Goto("cleanup") /\ UNCHANGED running
    /\ UNCHANGED <<now, options, markets, current, books, thread, global, chosen>>

Subscribe ==
    /\ pc = "subscribe" /\ books' = books \cup {current.id}
    /\ Goto(IF thread = "running" THEN "loop" ELSE "connect")
    /\ UNCHANGED <<now, options, markets, current, thread, running, global, chosen, budget>>

(* connect(), and the thread of run(). *)
Connect ==
    /\ pc = "connect"
    /\ \/ thread' = "running" /\ Goto("loop") /\ UNCHANGED budget
       \/ /\ budget.faults > 0 /\ budget' = [budget EXCEPT !.faults = @ - 1]
          /\ Goto("cleanup") /\ UNCHANGED thread
    /\ UNCHANGED <<now, options, markets, current, books, running, global, chosen>>

(* One turn of the loop: stop, wait 250 ms more, or give up the market. *)
Loop ==
    /\ pc = "loop"
    /\ IF ~running THEN Goto("stop") /\ UNCHANGED books
       ELSE MustRotate /\ Goto("refetch") /\ books' = {}
    /\ UNCHANGED <<now, options, markets, current, thread, running, global, chosen, budget>>

(* books.stop(), and the join. *)
Stop ==
    /\ pc = "stop" /\ thread' = "joined" /\ Goto("cleanup")
    /\ UNCHANGED <<now, options, markets, current, books, running, global, chosen, budget>>

Cleanup ==
    /\ pc = "cleanup" /\ global' = global - 1 /\ Goto("exit")
    /\ UNCHANGED <<now, options, markets, current, books, thread, running, chosen, budget>>

Signal ==
    /\ running /\ pc # "exit" /\ running' = FALSE
    /\ UNCHANGED <<now, pc, options, markets, current, books, thread, global, chosen, budget>>

Passes ==
    /\ now < MaxTime /\ pc # "exit" /\ now' = now + 1
    /\ UNCHANGED <<pc, options, markets, current, books, thread, running, global, chosen, budget>>

Main == Begin \/ Fetch \/ Select \/ Prepare \/ Subscribe \/ Connect \/ Loop \/ Stop \/ Cleanup
Next == Main \/ Signal \/ Passes

Fairness == WF_vars(Main) /\ WF_vars(Passes)
Spec == Init /\ [][Next]_vars /\ Fairness

-----------------------------------------------------------------------------
(* main() watches at most one market, the current one, that it chose with more than two
   minutes left; it never exits with the WebSocket thread running or with libcurl's global
   state still, or no longer, held. *)
WatchesOneMarket ==
    /\ Cardinality(books) <= 1 /\ (pc \in {"loop", "connect"} => books = {current.id})
    /\ pc = "loop" => current.ends > chosen + 2 /\ TargetSymbol \in {"", current.symbol}
    /\ pc = "exit" => global = 0 /\ thread # "running"
    /\ thread = "running" => global = 1

(* main() has been told to end, and the bound on fetches is not what holds it up. *)
Stopping == ~running /\ pc \notin {"init", "exit"} /\ budget.fetches > 0

(* The market being watched has run out. *)
Expired == pc = "loop" /\ now >= current.ends
=============================================================================
