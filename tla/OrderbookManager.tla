-------------------------- MODULE OrderbookManager --------------------------
(***************************************************************************)
(* OrderbookRuntime: order books, market legs and the arbitrage trigger,   *)
(* composed with GapStream.  Threads: `user' connects and disconnects,     *)
(* `subs' changes subscriptions, `work' is the message worker, and `inval' *)
(* holds the gap callbacks that are clearing the cached state.             *)
(*                                                                         *)
(* Of a book or a leg the model keeps the connection it came from (0 for   *)
(* none); prices, sizes and times are data.  The tokens are those of one   *)
(* market: its legs are complete when every token has one.                 *)
(***************************************************************************)
EXTENDS GapStream

CONSTANTS
    Tokens,             \* token ids of the market
    Budgets             \* bounds: how many events of each kind may happen

VARIABLES
    owner,     \* owner_active_
    active,    \* stream_active_
    sgen,      \* stream_generation_ of the runtime
    books,     \* orderbooks_
    ready,     \* snapshot_ready_
    legs,      \* markets_: the asks of the market's tokens
    market,    \* markets_ holds the market
    tracked,   \* subscribed_tokens_, token_to_condition_, the replayed subscription
    copy,      \* the copy restore_subscriptions sends
    server,    \* external: tokens the server sends updates for
    snaps,     \* external: tokens whose snapshot the server has yet to send
    conn,      \* the connection: how many there have been
    user, subs, work, inval,          \* where the threads are
    arb,       \* the last arbitrage callback: the legs and the connection of its permit
    dark,      \* history: the stream was inactive while this connection was up
    overlap,   \* history: a change came between copy and replay
    budget     \* events of each kind that may still happen

bookVars == <<books, ready>>
legVars == <<legs, market>>
subVars == <<tracked, copy, server, snaps, subs, overlap>>
lifeVars == <<owner, active, sgen, user>>
vars == <<gapVars, bookVars, legVars, subVars, lifeVars, conn, work, inval, arb, dark, budget>>

None == [t \in Tokens |-> 0]
Idle == [pc |-> "idle"]

InitState ==
    /\ GapInit
    /\ owner = TRUE /\ active = FALSE /\ sgen = 0 /\ conn = 0
    /\ books = None /\ ready = {} /\ legs = None /\ market = FALSE
    /\ tracked = {} /\ copy = {} /\ server = {} /\ snaps = {}
    /\ user = "idle" /\ subs = Idle /\ work = Idle /\ inval = {}
    /\ arb = [legs |-> {}, conn |-> 0]
    /\ dark = FALSE /\ overlap = FALSE
Init == InitState /\ budget \in Budgets

Spend(kind) == budget[kind] > 0 /\ budget' = [budget EXCEPT ![kind] = @ - 1]

(* stream_is_current *)
Current(s, w) == owner /\ active /\ s = sgen /\ w = gen

(* The worker holds subscriptions_mutex_ while it applies an event, and markets_mutex_
   shared while it stores the leg. *)
SubscriptionsFree == work.pc \notin {"apply", "leg", "store"}
MarketsFree == work.pc # "store"

(* invalidate_stream_books, and reset_market_leg of both legs. *)
ClearBooks == books' = None /\ ready' = {}
ResetLegs == MarketsFree /\ legs' = None

-----------------------------------------------------------------------------
(* connect, disconnect and stop, shutdown.                                 *)

CallConnect ==
    /\ user = "idle" /\ owner /\ Spend("calls")
    /\ active' = TRUE /\ user' = "start"
    /\ UNCHANGED <<gapVars, bookVars, legVars, subVars, owner, sgen, conn, work, inval, arb,
                   dark>>

(* websocket_.connect() and wait_until_connected; a timeout only deactivates. *)
Connecting ==
    /\ \/ user = "start" /\ Start /\ user' = "wait" /\ UNCHANGED budget
       \/ /\ user = "wait" /\ UNCHANGED gapVars
          /\ \/ Connected /\ user' = "idle" /\ UNCHANGED budget
             \/ link = "off" /\ user' = "deactivate" /\ UNCHANGED budget
             \/ ~Connected /\ Spend("faults") /\ user' = "deactivate"
    /\ UNCHANGED <<bookVars, legVars, subVars, owner, active, sgen, conn, work, inval, arb,
                   dark>>

CallDisconnect ==
    /\ user = "idle" /\ Spend("calls")
    /\ owner' \in {owner, FALSE}
    /\ user' = "deactivate_stop"
    /\ UNCHANGED <<gapVars, bookVars, legVars, subVars, active, sgen, conn, work, inval, arb,
                   dark>>

(* deactivate_stream: the generation, the books, the legs; then the transport. *)
Deactivate ==
    /\ \/ /\ user \in {"deactivate", "deactivate_stop"}
          /\ active' = FALSE
          /\ sgen' = IF active THEN sgen + 1 ELSE sgen
          /\ user' = IF user = "deactivate" THEN "books" ELSE "books_stop"
          /\ UNCHANGED <<gapVars, bookVars, legVars>>
       \/ /\ user \in {"books", "books_stop"} /\ ClearBooks
          /\ user' = IF user = "books" THEN "legs" ELSE "legs_stop"
          /\ UNCHANGED <<gapVars, legVars, active, sgen>>
       \/ /\ user \in {"legs", "legs_stop"} /\ ResetLegs
          /\ user' = IF user = "legs" THEN "idle" ELSE "stop"
          /\ UNCHANGED <<gapVars, bookVars, market, active, sgen>>
       \/ /\ user = "stop" /\ work = Idle /\ Stop
          /\ inval = {} \/ reports' = reports      \* a callback that is running goes on
          /\ user' = "idle"
          /\ UNCHANGED <<bookVars, legVars, active, sgen>>
    /\ dark' = (dark \/ (user = "deactivate" /\ link # "off"))
    /\ UNCHANGED <<subVars, owner, conn, work, inval, arb, budget>>

-----------------------------------------------------------------------------
(* Subscriptions.                                                          *)

(* subscribe: a new LiveMarketState under markets_mutex_, then the tokens under
   subscriptions_mutex_. *)
Subscribe ==
    /\ \/ /\ subs = Idle /\ owner /\ MarketsFree /\ Spend("updates")
          /\ legs' = None /\ market' = TRUE
          /\ subs' = [pc |-> "track"]
          /\ UNCHANGED <<tracked, overlap>>
       \/ /\ subs.pc = "track" /\ SubscriptionsFree
          /\ tracked' = Tokens
          /\ subs' = [pc |-> "send", add |-> Tokens \ tracked, remove |-> {}, gone |-> {}]
          /\ overlap' = (overlap \/ link = "replay")
          /\ UNCHANGED <<legVars, budget>>
    /\ UNCHANGED <<gapVars, bookVars, copy, server, snaps, lifeVars, conn, work, inval, arb,
                   dark>>

(* unsubscribe of a token, and unsubscribe_all, under the lock. *)
Untrack(gone) ==
    /\ subs = Idle /\ owner /\ SubscriptionsFree /\ Spend("updates")
    /\ tracked' = tracked \ gone
    /\ subs' = [pc |-> "send", add |-> {}, remove |-> gone \cap tracked, gone |-> gone]
    /\ overlap' = (overlap \/ link = "replay")
    /\ UNCHANGED <<gapVars, bookVars, legVars, copy, server, snaps, lifeVars, conn, work,
                   inval, arb, dark>>
Unsubscribe == \E t \in Tokens : Untrack({t})
UnsubscribeAll == Untrack(Tokens)

(* Outside the lock: the update is sent; a failed send asks for a new connection. *)
SendUpdate ==
    /\ subs.pc = "send"
    /\ subs' = [subs EXCEPT !.pc = "erase"]
    /\ \/ /\ ~Connected \/ subs.add \cup subs.remove = {}
          /\ UNCHANGED <<gapVars, server, snaps>>
       \/ /\ Connected /\ ~closing /\ link # "lost" /\ subs.add \cup subs.remove # {}
          /\ server' = (server \cup subs.add) \ subs.remove
          /\ snaps' = (snaps \cup subs.add) \ subs.remove
          /\ UNCHANGED gapVars
       \/ /\ Connected /\ (closing \/ link = "lost") /\ subs.add \cup subs.remove # {}
          /\ Request
          /\ UNCHANGED <<server, snaps>>
    /\ UNCHANGED <<bookVars, legVars, tracked, copy, overlap, lifeVars, conn, work, inval,
                   arb, dark, budget>>

(* The rest of the call: the books of what was unsubscribed are erased, tracked or not;
   the leg only if it was tracked, and unsubscribe_all drops the market. *)
EraseBooks ==
    /\ \/ subs.pc = "erase" /\ subs.gone = {} /\ subs' = Idle /\ UNCHANGED <<bookVars, legVars>>
       \/ /\ subs.pc = "erase" /\ subs.gone # {}
          /\ books' = [t \in Tokens |-> IF t \in subs.gone THEN 0 ELSE books[t]]
          /\ ready' = ready \ subs.gone
          /\ subs' = IF subs.remove = {} /\ subs.gone # Tokens THEN Idle
                     ELSE [subs EXCEPT !.pc = "leg"]
          /\ UNCHANGED legVars
       \/ /\ subs.pc = "leg" /\ MarketsFree
          /\ legs' = [t \in Tokens |-> IF t \in subs.gone THEN 0 ELSE legs[t]]
          /\ market' = (market /\ subs.gone # Tokens)
          /\ subs' = Idle /\ UNCHANGED bookVars
    /\ UNCHANGED <<gapVars, tracked, copy, server, snaps, overlap, lifeVars, conn, work,
                   inval, arb, dark, budget>>

-----------------------------------------------------------------------------
(* Gap callbacks and the IXWebSocket thread.                               *)

(* invalidate_stream_state: the generation, the books, the legs. *)
InvalidateStreamState(r) ==
    /\ r \in reports /\ ~r.told
    /\ \/ /\ \A i \in inval : i.gen # r.gen
          /\ IF owner /\ active
             THEN /\ sgen' = sgen + 1
                  /\ inval' = inval \cup {[gen |-> r.gen, pc |-> "books"]}
                  /\ UNCHANGED gapVars
             ELSE Report(r) /\ UNCHANGED <<sgen, inval>>
          /\ UNCHANGED <<bookVars, legs>>
       \/ /\ [gen |-> r.gen, pc |-> "books"] \in inval /\ ClearBooks
          /\ inval' = (inval \ {[gen |-> r.gen, pc |-> "books"]})
                          \cup {[gen |-> r.gen, pc |-> "legs"]}
          /\ UNCHANGED <<gapVars, sgen, legs>>
       \/ /\ [gen |-> r.gen, pc |-> "legs"] \in inval /\ ResetLegs /\ Report(r)
          /\ inval' = inval \ {[gen |-> r.gen, pc |-> "legs"]}
          /\ UNCHANGED <<sgen, bookVars>>
    /\ UNCHANGED <<market, subVars, owner, active, user, conn, work, arb, dark, budget>>

NoReplay == UNCHANGED <<copy, server, snaps, overlap, conn, dark>>
Transport ==
    /\ \/ /\ Open
          /\ conn' = conn + 1 /\ server' = {} /\ snaps' = {}
          /\ overlap' = FALSE /\ dark' = ~active
          /\ UNCHANGED <<copy, budget>>
       \/ (Publish \/ Drop \/ Lost \/ Closed \/ Failed \/ OnConnect) /\ NoReplay /\ UNCHANGED budget
       \/ /\ CopySubscriptions /\ copy' = tracked
          /\ UNCHANGED <<server, snaps, overlap, conn, dark, budget>>
       \/ /\ link = "replay" /\ (closing => copy = {}) /\ Replay
          /\ server' = server \cup copy /\ snaps' = snaps \cup copy
          /\ UNCHANGED <<copy, overlap, conn, dark, budget>>
       \/ /\ link = "replay" /\ closing /\ copy # {} /\ ReplayFails
          /\ pending \/ gen' > gen
          /\ NoReplay /\ UNCHANGED budget
       \/ (PeerCloses \/ DialFails) /\ Spend("faults") /\ NoReplay
       \/ \E r \in reports : /\ Abandon(r) \/ CloseSocket(r)
                             /\ \A i \in inval : i.gen # r.gen
                             /\ NoReplay /\ UNCHANGED budget
    /\ UNCHANGED <<bookVars, legVars, tracked, subs, lifeVars, work, inval, arb>>

-----------------------------------------------------------------------------
(* The message worker.                                                     *)

(* The server sends a token's snapshot, then its changes. *)
Dispatch ==
    /\ work = Idle /\ link = "up" /\ ~pending /\ Spend("messages")
    /\ \E t \in server :
          /\ work' = [pc |-> "begin", ws |-> gen, conn |-> conn, token |-> t, snap |-> t \in snaps,
                       sgen |-> 0, legs |-> {}]
          /\ snaps' = snaps \ {t}
    /\ UNCHANGED <<gapVars, bookVars, legVars, tracked, copy, server, subs, overlap, lifeVars,
                   conn, inval, arb, dark>>

(* handle_message; a message that does not parse asks for a new connection. *)
HandleMessage ==
    /\ work.pc = "begin"
    /\ \/ ~Current(sgen, work.ws) /\ work' = Idle /\ UNCHANGED gapVars
       \/ Current(sgen, work.ws) /\ work' = Idle /\ Request
       \/ /\ Current(sgen, work.ws)
          /\ work' = [work EXCEPT !.pc = "token", !.sgen = sgen]
          /\ UNCHANGED gapVars
    /\ UNCHANGED <<bookVars, legVars, subVars, lifeVars, conn, inval, arb, dark, budget>>

Fresh == Current(work.sgen, work.ws)
Step(pc) == [work EXCEPT !.pc = pc]

(* handle_orderbook_update: the token, under subscriptions_mutex_ ... *)
FindToken ==
    /\ work.pc = "token"
    /\ work' = IF Fresh /\ work.token \in tracked THEN Step("apply") ELSE Idle
    /\ UNCHANGED <<gapVars, bookVars, legVars, subVars, lifeVars, conn, inval, arb, dark,
                   budget>>

(* ... apply_stream_book_event, under orderbooks_mutex_ ... *)
ApplyEvent ==
    /\ work.pc = "apply"
    /\ IF work.snap \/ work.token \in ready
       THEN /\ books' = [books EXCEPT ![work.token] = IF work.snap THEN work.conn ELSE @]
            /\ ready' = ready \cup {work.token}
            /\ work' = IF Fresh THEN Step("leg") ELSE Idle
       ELSE work' = Idle /\ UNCHANGED bookVars
    /\ UNCHANGED <<gapVars, legVars, subVars, lifeVars, conn, inval, arb, dark, budget>>

(* Mutant: the stream is not checked again under markets_mutex_. *)
StoreLegUnchecked ==
    /\ \/ work.pc = "leg" /\ work' = Step("store") /\ UNCHANGED legs
       \/ /\ work.pc = "store"
          /\ work' = IF market THEN Step("callback") ELSE Idle
          /\ legs' = IF market THEN [legs EXCEPT ![work.token] = work.conn] ELSE legs
    /\ UNCHANGED <<gapVars, bookVars, market, subVars, lifeVars, conn, inval, arb, dark, budget>>

(* ... and the leg, under a shared markets_mutex_ that a reset has to wait for. *)
StoreLeg ==
    /\ \/ work.pc = "leg" /\ work' = (IF Fresh THEN Step("store") ELSE Idle) /\ UNCHANGED legs
       \/ /\ work.pc = "store"
          /\ work' = IF market THEN Step("callback") ELSE Idle
          /\ legs' = IF market THEN [legs EXCEPT ![work.token] = work.conn] ELSE legs
    /\ UNCHANGED <<gapVars, bookVars, market, subVars, lifeVars, conn, inval, arb, dark, budget>>

(* The update callback; then check_arb_opportunity reads both legs, checks the stream
   again and hands the user a permit for it. *)
CheckArb ==
    /\ \/ work.pc = "callback" /\ work' = (IF Fresh THEN Step("arb") ELSE Idle) /\ UNCHANGED arb
       \/ /\ work.pc = "arb"
          /\ work' = IF market /\ \A t \in Tokens : legs[t] # 0
                     THEN [work EXCEPT !.pc = "permit", !.legs = {legs[t] : t \in Tokens}] ELSE Idle
          /\ UNCHANGED arb
       \/ /\ work.pc = "permit"
          /\ work' = Idle
          /\ arb' = IF Fresh THEN [legs |-> work.legs, conn |-> work.conn] ELSE arb
    /\ UNCHANGED <<gapVars, bookVars, legVars, subVars, lifeVars, conn, inval, dark, budget>>

-----------------------------------------------------------------------------
UserStep == Connecting \/ Deactivate
SubsStep == SendUpdate \/ EraseBooks
GapReports == \E r \in reports : InvalidateStreamState(r)
WorkStep == HandleMessage \/ FindToken \/ ApplyEvent \/ StoreLeg \/ CheckArb
Next ==
    \/ CallConnect \/ CallDisconnect \/ UserStep
    \/ Subscribe \/ Unsubscribe \/ UnsubscribeAll \/ SubsStep
    \/ GapReports \/ Transport \/ Dispatch \/ WorkStep

-----------------------------------------------------------------------------
Quiet == /\ user = "idle" /\ subs = Idle /\ work = Idle /\ inval = {} /\ reports = {}
         /\ ~pending /\ ~closing

(* A gap or a disconnect leaves no ask of an earlier connection in a market: the leg is
   stored under a lock that the reset waits for, after a check that the reset precedes. *)
NoStaleLeg == Quiet => \A t \in Tokens : legs[t] \in {0, conn} /\ (~active => legs[t] = 0)

(* An arbitrage callback is computed from two legs of one connection, the one its permit
   names. *)
ArbFromOneConnection == arb.legs \subseteq {arb.conn}

(* A subscribed token whose snapshot was sent on this connection has a book, unless a
   timed-out connect() had deactivated the stream while the connection was up. *)
SnapshotKept ==
    (Quiet /\ active /\ link = "up" /\ ~dark)
        => \A t \in (tracked \cap server) \ snaps : t \in ready /\ books[t] = conn
=============================================================================
