---------------------------- MODULE MarketFetcher ----------------------------
(***************************************************************************)
(* MarketFetcher: a batch of Gamma requests run by run_bounded_tasks, one  *)
(* HTTP client per worker, and the walk over the CLOB's pages of markets.  *)
(* A market is a number; an odd one is not open for trading (neg-risk      *)
(* discovery leaves it out).                                               *)
(***************************************************************************)
EXTENDS Integers, Sequences, FiniteSetsExt

CONSTANTS
    Sizes,     \* numbers of requests of a batch
    Clients,   \* gamma_http_.size(), the worker limit
    Walks,     \* page walks: [pages, limit, only]
    Budgets    \* [faults]

VARIABLES
    batch,     \* the requests of the call: their number and how many workers serve them
    next,      \* next_task
    workers,   \* worker |-> [at, index]: "unborn", "free", "busy" or "gone"
    cancelled, \* the flag
    failure,   \* the first exception, or None
    results,   \* request |-> its market, or None
    main,      \* the caller: "starting", "joining", "returned" or "threw"
    runs,      \* history: request |-> how often it was run
    walk,      \* a page walk: its input, position and markets so far
    budget

vars == <<batch, next, workers, cancelled, failure, results, main, runs, walk, budget>>

None == 0
Lesser(a, b) == IF a < b THEN a ELSE b
Workers == 1..batch.workers
Requests == 1..batch.size

(* fetch_gamma_markets up to run_bounded_tasks, and fetch_market_pages up to its loop. *)
InitState ==
    /\ \E size \in Sizes :
          /\ batch = [size |-> size, workers |-> Lesser(Clients, size)]
          /\ workers = [w \in 1..Lesser(Clients, size) |-> [at |-> "unborn", index |-> 0]]
          /\ results = [i \in 1..size |-> None] /\ runs = [i \in 1..size |-> 0]
    /\ next = 1 /\ cancelled = FALSE /\ failure = None /\ main = "starting"
    /\ walk \in {[input |-> w, page |-> 1, found |-> <<>>, done |-> FALSE] : w \in Walks}
Init == InitState /\ budget \in Budgets

Unborn == {w \in Workers : workers[w].at = "unborn"}

(* The caller starts the next worker; a thread that cannot be started cancels the rest. *)
Start ==
    /\ main = "starting"
    /\ IF Unborn = {} THEN main' = "joining" /\ UNCHANGED <<workers, cancelled, failure, budget>>
       ELSE \/ /\ workers' = [workers EXCEPT ![Min(Unborn)].at = "free"]
               /\ UNCHANGED <<main, cancelled, failure, budget>>
            \/ /\ budget.faults > 0 /\ budget' = [budget EXCEPT !.faults = @ - 1]
               /\ main' = "failing" /\ cancelled' = TRUE /\ UNCHANGED <<workers, failure>>
    /\ UNCHANGED <<batch, next, results, runs, walk>>

(* Mutant: the index is read and then incremented. *)
TakeUncounted(w) ==
    /\ workers[w].at = "free"
    /\ IF cancelled \/ next > batch.size
       THEN workers' = [workers EXCEPT ![w].at = "gone"] /\ UNCHANGED <<next, runs>>
       ELSE /\ next' \in {next, next + 1} /\ workers' = [workers EXCEPT ![w] = [at |-> "busy", index |-> next]]
            /\ runs' = [runs EXCEPT ![next] = @ + 1]
    /\ UNCHANGED <<batch, cancelled, failure, results, main, walk, budget>>

(* A worker looks at the flag and takes the next request, or ends. *)
Take(w) ==
    /\ workers[w].at = "free"
    /\ IF cancelled \/ next > batch.size
       THEN workers' = [workers EXCEPT ![w].at = "gone"] /\ UNCHANGED <<next, runs>>
       ELSE /\ next' = next + 1 /\ workers' = [workers EXCEPT ![w] = [at |-> "busy", index |-> next]]
            /\ runs' = [runs EXCEPT ![next] = @ + 1]
    /\ UNCHANGED <<batch, cancelled, failure, results, main, walk, budget>>

(* parse_gamma_market_json: an event that is closed, or without a market that takes
   orders, gives nothing, as does an answer that cannot be read. *)
ParseGammaEvent(answer, i) == IF answer = "open" THEN i ELSE None

(* The task of a request returns, or throws: the first exception is kept. *)
Perform(w) ==
    LET i == workers[w].index IN
    /\ workers[w].at = "busy" /\ workers' = [workers EXCEPT ![w].at = "free"]
    /\ \/ /\ \E answer \in {"open", "closed", "failed"} :
                results' = [results EXCEPT ![i] = ParseGammaEvent(answer, i)]
          /\ UNCHANGED <<cancelled, failure, budget>>
       \/ /\ budget.faults > 0 /\ budget' = [budget EXCEPT !.faults = @ - 1]
          /\ failure' = IF failure = None THEN i ELSE failure
          /\ cancelled' = TRUE /\ UNCHANGED results
    /\ UNCHANGED <<batch, next, main, runs, walk>>

(* ThreadJoiner, then the exception if there is one. *)
Join ==
    /\ main \in {"joining", "failing"} /\ \A w \in Workers : workers[w].at \in {"unborn", "gone"}
    /\ main' = IF main = "failing" \/ failure # None THEN "threw" ELSE "returned"
    /\ UNCHANGED <<batch, next, workers, cancelled, failure, results, runs, walk, budget>>

(* What fetch_gamma_markets returns. *)
Markets ==
    LET found[n \in 0..batch.size] ==
            IF n = 0 THEN <<>>
            ELSE IF results[n] = None THEN found[n - 1] ELSE Append(found[n - 1], results[n])
    IN found[batch.size]

-----------------------------------------------------------------------------
(* parse_clob_markets_json; what precedes the unreadable cursor of a page is kept. *)
PageItems(page) == IF page.answer = "garbled" THEN <<>> ELSE page.items
Valid(market) == market % 2 = 0

Keep(found, items, limit, only) ==
    LET kept[n \in 0..Len(items)] ==
            IF n = 0 THEN found
            ELSE IF (only /\ ~Valid(items[n])) \/ Len(kept[n - 1]) = limit THEN kept[n - 1]
            ELSE Append(kept[n - 1], items[n])
    IN kept[Len(items)]

(* One turn of fetch_market_pages, which its caller calls after the batch: enough, a page
   that cannot be fetched, or a page; an unreadable one ends the walk as if it were the
   last. *)
NextPage ==
    LET w == walk.input
        page == w.pages[walk.page]
        found == Keep(walk.found, PageItems(page), w.limit, w.only)
    IN /\ ~walk.done /\ main = "returned"
       /\ walk' = IF Len(walk.found) >= w.limit THEN [walk EXCEPT !.done = TRUE]
                  ELSE IF walk.page > Len(w.pages) THEN [walk EXCEPT !.done = TRUE]
                  ELSE IF page.answer = "error" THEN [walk EXCEPT !.done = TRUE]
                  ELSE [walk EXCEPT !.found = found, !.page = @ + 1,
                                    !.done = page.answer \in {"garbled", "cursorless"}]
       /\ UNCHANGED <<batch, next, workers, cancelled, failure, results, main, runs, budget>>

Next == Start \/ Join \/ NextPage \/ \E w \in Workers : Take(w) \/ Perform(w)

Fairness == WF_vars(Start) /\ WF_vars(Join) /\ WF_vars(\E w \in Workers : Take(w) \/ Perform(w))
Spec == Init /\ [][Next]_vars /\ Fairness

-----------------------------------------------------------------------------
(* How many pages come before the first that fails; one without a cursor is the last. *)
Readable(pages) ==
    LET bad == {i \in DOMAIN pages : pages[i].answer # "ok"}
    IN IF bad = {} THEN Len(pages)
       ELSE IF pages[Min(bad)].answer = "cursorless" THEN Min(bad) ELSE Min(bad) - 1

(* The items of a page that qualify, and those of the first pages. *)
Qualifying(items, only) ==
    LET chosen[n \in 0..Len(items)] ==
            IF n = 0 THEN <<>>
            ELSE IF only /\ ~Valid(items[n]) THEN chosen[n - 1]
            ELSE Append(chosen[n - 1], items[n])
    IN chosen[Len(items)]
Listed(w) ==
    LET listed[n \in 0..Len(w.pages)] ==
            IF n = 0 THEN <<>>
            ELSE listed[n - 1] \o Qualifying(w.pages[n].items, w.only)
    IN listed[Readable(w.pages)]

(* A batch that returns has run every request once, whichever worker took it, and lists
   the markets in the order of the requests; one that throws ran none twice and left no
   worker behind.  A walk yields the first markets that qualify, up to the limit, of the
   pages before the first one that fails. *)
FetchesComplete ==
    /\ main = "returned" =>
         /\ \A i \in Requests : runs[i] = 1
         /\ \A i, j \in DOMAIN Markets : i < j => Markets[i] < Markets[j]
    /\ \A i \in Requests : runs[i] <= 1
    /\ main \in {"returned", "threw"} => \A w \in Workers : workers[w].at # "busy" /\ workers[w].at # "free"
    /\ main = "returned" => failure = None
    /\ walk.done =>
         walk.found = SubSeq(Listed(walk.input), 1, Lesser(walk.input.limit, Len(Listed(walk.input))))
=============================================================================
