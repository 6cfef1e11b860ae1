----------------------------- MODULE ClobProofs ------------------------------
(***************************************************************************)
(* The CLOB client's calls, for every value of the constants.              *)
(*                                                                         *)
(* REST calls and their pagination: a call has one attempt unless its row  *)
(* of RestEndpoints says it is retried: RowOK is what all rows have in     *)
(* common, and CallsInv says how many attempts and pauses lie behind a     *)
(* call at each of its steps.  A pager stands for the items it has handed  *)
(* out: PagesInv says that these are the first n of the list and that it   *)
(* asks for the ones after them.                                           *)
(*                                                                         *)
(* Order calls, and the tick and neg-risk cache they share: a call is the  *)
(* sequence of the steps it has left, and OrdersInv says what has been     *)
(* read and checked when a given step is the next one.                     *)
(***************************************************************************)
EXTENDS RestComponents, SequenceTheorems, FiniteSetTheorems, TLAPS

(* A step of the composition is a step of the component it is about, or leaves that one
   alone. *)
LEMMA StepOfClob ==
    ASSUME [Next]_allVars
    PROVE  /\ which' = which
           /\ which = "orders" => [Orders!Next]_(Orders!vars)
           /\ which = "pages" => [Pages!Next]_(Pages!vars)
           /\ which = "calls" => [Calls!Next]_(Calls!vars)
<1>1. CASE UNCHANGED allVars
  BY <1>1 DEF allVars, c_vars, p_vars, r_vars, Orders!vars, Pages!vars, Calls!vars
<1>2. CASE Next
  BY <1>2 DEF Next, OnlyGlobal, OnlyConn, OnlyOrders, OnlyPages, OnlyCalls, OnlyFile,
              OnlyTxs, OnlyOracle, OnlyFetch, OnlyArb, OnlyTunnel
<1> QED BY <1>1, <1>2

-----------------------------------------------------------------------------
(* RestEndpoints. *)

(* What the rows have in common: a call that is retried changes nothing and is not the one
   that makes a second attempt, and only post_orders answers a failure for each order. *)
RowOK(e) ==
    /\ e.shape = "either" => ~e.retried
    /\ e.shape \in {"confirmed", "book", "books"} => e.fails # "each"

LEMMA ReadRow ==
    ASSUME NEW c, NEW s, NEW f,
           s # "either", s # "confirmed", s \in {"book", "books"} => f # "each"
    PROVE  /\ RowOK(Calls!Public(c, s, f)) /\ RowOK(Calls!Private(c, s, f))
           /\ RowOK(Calls!Checked(c, s, f))
  BY DEF RowOK, Calls!Public, Calls!Private, Calls!Checked

LEMMA MutationRow ==
    ASSUME NEW a, NEW c, NEW b, NEW s, NEW f, s \in {"confirmed", "book", "books"} => f # "each"
    PROVE  RowOK(Calls!Mutation(a, c, b, s, f)) /\ ~Calls!Mutation(a, c, b, s, f).retried
  BY DEF RowOK, Calls!Mutation

LEMMA MarketDataRows == \A e \in Calls!MarketData : RowOK(e)
  BY ReadRow DEF
     Calls!MarketData, Calls!order_book_result, Calls!get_order_books, Calls!get_price,
     Calls!get_prices, Calls!get_last_trade_price, Calls!get_last_trades_prices,
     Calls!get_midpoint, Calls!get_midpoints, Calls!get_spread, Calls!get_spreads,
     Calls!get_server_time, Calls!fetch_market_page, Calls!market_paginator,
     Calls!get_market, Calls!get_market_live_activity, Calls!get_prices_history,
     Calls!get_fee_rate, Calls!get_rewards_markets_current, Calls!get_rewards_markets,
     Calls!position_paginator, Calls!fetch_position_pages

LEMMA AccountReadsRows == \A e \in Calls!AccountReads : RowOK(e)
  BY ReadRow DEF
     Calls!AccountReads, Calls!get_api_keys, Calls!get_order_result,
     Calls!open_orders_pager, Calls!trades_pager, Calls!lookup_trade,
     Calls!get_balance_allowance, Calls!update_balance_allowance,
     Calls!is_order_scoring, Calls!are_orders_scoring, Calls!get_notifications,
     Calls!get_total_earnings_for_user_for_day_all,
     Calls!get_earnings_for_user_for_day_all

LEMMA MutationsRows == \A e \in Calls!Mutations : RowOK(e) /\ ~e.retried
  BY MutationRow DEF
     Calls!Mutations, Calls!create_api_key, Calls!derive_api_key,
     Calls!create_or_derive_api_key, Calls!delete_api_key, Calls!drop_notifications,
     Calls!post_signed_order, Calls!post_orders, Calls!cancel_order_result,
     Calls!cancel_orders, Calls!cancel_all, Calls!cancel_market_orders

LEMMA GammaRows == \A e \in Calls!Gamma : RowOK(e)
  BY ReadRow DEF
     Calls!Gamma, Calls!get_market_by_id, Calls!get_market_by_slug,
     Calls!get_market_by_url, Calls!get_market_tags, Calls!get_event_by_id,
     Calls!get_event_by_slug, Calls!get_event_by_url, Calls!get_event_tags,
     Calls!markets_pager, Calls!events_pager, Calls!get_tag_by_id,
     Calls!get_tag_by_slug, Calls!get_related_tags_by_id,
     Calls!get_related_tags_by_slug, Calls!get_related_tag_resources_by_id,
     Calls!get_related_tag_resources_by_slug, Calls!get_series, Calls!get_sports,
     Calls!get_sports_market_types, Calls!tags_pager, Calls!series_pager,
     Calls!teams_pager, Calls!search_pager, Calls!get_comment_thread,
     Calls!comments_pager, Calls!user_comments_pager, Calls!get_public_profile,
     Calls!Fetch, Calls!Pager

LEMMA DataRows == \A e \in Calls!Data : RowOK(e)
  BY ReadRow DEF
     Calls!Data, Calls!data_trades_pager, Calls!activity_pager, Calls!holders_pager,
     Calls!get_open_interests, Calls!get_event_live_volume, Calls!price_history_pager,
     Calls!get_resolutions, Calls!positions_pager, Calls!get_portfolio_value,
     Calls!get_user_stats, Calls!get_user_pnl, Calls!get_user_volume,
     Calls!download_accounting_snapshot, Calls!trader_leaderboard_pager,
     Calls!get_trader_standing, Calls!biggest_winners_pager, Calls!Fetch, Calls!Pager

LEMMA EndpointRows == \A e \in Calls!Endpoints : RowOK(e)
  BY MarketDataRows, AccountReadsRows, MutationsRows, GammaRows, DataRows DEF Calls!Endpoints

-----------------------------------------------------------------------------
(* RestCalls. *)

RetryPolicies == [retries : Nat, max_delay : Int]

(* The fields of a call; the values of the last six are of no concern here. *)
CallRecords(c) ==
    [e : Calls!Endpoints, step : {"idle", "send", "flight", "answered", "sleep"}, retry : Nat,
     policy : RetryPolicies, deadline : Nat, until : Int, signed : Nat, sent : Nat,
     sends : Nat, second : BOOLEAN, wait : Int,
     asked : {c.asked}, status : {c.status}, body : {c.body}, told : {c.told},
     result : {c.result}, code : {c.code}]

CallsTypeOK ==
    /\ r_call \in CallRecords(r_call)
    /\ r_policy \in RetryPolicies /\ r_now \in Nat

(* What the server asked for, in ticks. *)
Due(c) == IF c.wait = Calls!Unsaid THEN 1 ELSE c.wait

(* A write has no policy, so it does not sleep; it has been sent once, or is about to be. *)
SendsCounted ==
    /\ ~r_call.e.retried => r_call.policy = Calls!NoPolicy
    /\ r_call.e \in Calls!Mutations =>
         r_call.sends + (IF r_call.step = "send" THEN 1 ELSE 0)
           <= IF r_call.second THEN 2 ELSE 1

(* A sleep is the answer to a request sent before it, has a retry left, and ends no earlier
   than the server asked; nor does the retry start. *)
SleepsLongEnough ==
    /\ r_call.step \in {"flight", "answered", "sleep"} => r_call.sent <= r_now
    /\ r_call.step = "sleep" => r_call.retry < r_call.policy.retries
    /\ r_call.step = "sleep" /\ r_call.wait <= LongMax =>
         r_call.until >= r_call.sent + Due(r_call)
    /\ r_call.step = "send" /\ r_call.retry > 0 /\ r_call.wait <= LongMax =>
         r_now >= r_call.sent + Due(r_call)

(* A call under way has not failed yet. *)
NotFailedYet == r_call.step # "idle" => r_call.code = "none"

CallsInv ==
    /\ CallsTypeOK /\ SendsCounted /\ SleepsLongEnough /\ NotFailedYet
    /\ Calls!RetriesWithinPolicy /\ Calls!FreshSignature /\ Calls!CancelsConfirmed

LEMMA NoPolicyType == Calls!NoPolicy \in RetryPolicies /\ Calls!NoPolicy.retries = 0
  BY DEF Calls!NoPolicy, RetryPolicies

LEMMA GetPriceRow ==
    /\ Calls!get_price \in Calls!Endpoints /\ Calls!get_price.retried
    /\ Calls!get_price.shape = "one" /\ Calls!get_price \notin Calls!Mutations
<1>1. Calls!get_price.retried /\ Calls!get_price.shape = "one"
  BY DEF Calls!get_price, Calls!Public
<1> QED BY <1>1, MutationsRows DEF Calls!Endpoints, Calls!MarketData

LEMMA CallsInit == ASSUME Calls!Init PROVE CallsInv
<1>1. /\ r_call = Calls!NoCall /\ r_now = 0 /\ r_policy \in RetryPolicies
  BY CallsAssumption, NoPolicyType DEF Calls!Init, Calls!InitState, RetryPolicies
<1>2. /\ r_call.e = Calls!get_price /\ r_call.step = "idle" /\ r_call.retry = 0
      /\ r_call.policy = Calls!NoPolicy
  BY <1>1 DEF Calls!NoCall
<1>3. r_call \in CallRecords(r_call)
  BY <1>1, NoPolicyType, GetPriceRow DEF CallRecords, Calls!NoCall, Calls!Unsaid
<1> QED BY <1>1, <1>2, <1>3, GetPriceRow, NoPolicyType
    DEF CallsInv, CallsTypeOK, SendsCounted, SleepsLongEnough, NotFailedYet,
        Calls!RetriesWithinPolicy, Calls!FreshSignature, Calls!CancelsConfirmed

(* set_rate_limit_retry and set_rate_limit_listener leave the call alone. *)
LEMMA CallsConfigured ==
    ASSUME CallsInv, UNCHANGED <<r_call, r_now>>, r_policy' \in RetryPolicies PROVE CallsInv'
  BY DEF CallsInv, CallsTypeOK, SendsCounted, SleepsLongEnough, NotFailedYet, CallRecords, Due,
     Calls!RetriesWithinPolicy, Calls!FreshSignature, Calls!CancelsConfirmed

(* A call returns: what is left of it says nothing about sending or sleeping. *)
LEMMA CallsReturned ==
    ASSUME CallsTypeOK', r_call'.step = "idle", r_call'.retry = 0,
           r_call'.policy = Calls!NoPolicy,
           r_call'.e \in Calls!Mutations => r_call'.sends <= IF r_call'.second THEN 2 ELSE 1,
           r_call'.e.shape = "confirmed" /\ r_call'.result # <<>> =>
              /\ r_call'.status = "ok" /\ r_call'.body # Calls!Garbage
              /\ Calls!Range(r_call'.asked) \subseteq
                   {r_call'.body[i].id : i \in {j \in DOMAIN r_call'.body : r_call'.body[j].good}}
              /\ \A i \in DOMAIN r_call'.body : r_call'.body[i].good
    PROVE  CallsInv'
<1>1. SendsCounted'
  BY DEF SendsCounted, CallsTypeOK, CallRecords
<1>2. SleepsLongEnough' /\ NotFailedYet' /\ Calls!FreshSignature'
  BY DEF SleepsLongEnough, NotFailedYet, Calls!FreshSignature
<1>3. Calls!RetriesWithinPolicy'
  BY NoPolicyType DEF Calls!RetriesWithinPolicy
<1>4. Calls!CancelsConfirmed'
  BY DEF Calls!CancelsConfirmed
<1> QED BY <1>1, <1>2, <1>3, <1>4 DEF CallsInv

(* Every call is a record of these fields. *)
LEMMA NoCallType ==
    /\ Calls!NoCall \in CallRecords(Calls!NoCall)
    /\ Calls!NoCall.step = "idle" /\ Calls!NoCall.retry = 0 /\ Calls!NoCall.sends = 0
    /\ Calls!NoCall.second = FALSE /\ Calls!NoCall.code = "none"
    /\ Calls!NoCall.result = <<>> /\ Calls!NoCall.status = "ok"
<1>1. Calls!NoCall \in CallRecords(Calls!NoCall)
  BY NoPolicyType, GetPriceRow DEF CallRecords, Calls!NoCall, Calls!Unsaid
<1>2. Calls!NoCall.second = FALSE
  BY DEF Calls!NoCall
<1> QED BY <1>1, <1>2 DEF Calls!NoCall

(* What is left of a call that returns. *)
LEMMA ReturnedCall ==
    ASSUME NEW c, c \in CallRecords(c)
    PROVE  LET r == Calls!Return(c) IN
           /\ r \in CallRecords(r)
           /\ r.step = "idle" /\ r.retry = 0 /\ r.policy = Calls!NoPolicy
           /\ r.e = c.e /\ r.asked = c.asked /\ r.sends = c.sends /\ r.second = c.second
           /\ r.status = c.status /\ r.body = c.body /\ r.result = c.result /\ r.code = c.code
<1> DEFINE h == [c EXCEPT !.step = "idle", !.retry = 0, !.policy = Calls!NoPolicy,
                            !.deadline = 0]
           r == Calls!Return(c)
<1>1. r = [h EXCEPT !.until = 0, !.signed = 0, !.sent = 0, !.wait = Calls!Unsaid]
  BY DEF Calls!Return
<1>2. h = [c EXCEPT !.step = "idle", !.retry = 0, !.policy = Calls!NoPolicy, !.deadline = 0]
  OBVIOUS
<1> HIDE DEF h, r
<1>8. PICK z \in Int :
        r = [h EXCEPT !.until = z, !.signed = 0, !.sent = 0, !.wait = Calls!Unsaid]
  <2>1. \E z \in Int : z = 0
    OBVIOUS
  <2> QED BY <1>1, <2>1, Zenon
<1>3. h \in CallRecords(h)
  BY <1>2, NoPolicyType, ZenonT(40) DEF CallRecords
<1>4. /\ h.step = "idle" /\ h.retry = 0 /\ h.policy = Calls!NoPolicy
      /\ h.e = c.e /\ h.asked = c.asked /\ h.sends = c.sends /\ h.second = c.second
      /\ h.status = c.status /\ h.body = c.body /\ h.result = c.result /\ h.code = c.code
  BY <1>2 DEF CallRecords
<1>5. Calls!Unsaid \in Int
  BY DEF Calls!Unsaid
<1>6. r \in CallRecords(r)
  BY <1>8, <1>3, <1>5 DEF CallRecords
<1>7. /\ r.step = h.step /\ r.retry = h.retry /\ r.policy = h.policy
      /\ r.e = h.e /\ r.asked = h.asked /\ r.sends = h.sends /\ r.second = h.second
      /\ r.status = h.status /\ r.body = h.body /\ r.result = h.result /\ r.code = h.code
  BY <1>8, <1>3 DEF CallRecords
<1> QED BY <1>4, <1>6, <1>7 DEF r

LEMMA FailedCall ==
    ASSUME NEW c, c \in CallRecords(c), NEW error
    PROVE  LET f == Calls!Failure(c, error) IN
           /\ f \in CallRecords(f)
           /\ f.step = "idle" /\ f.retry = 0 /\ f.policy = Calls!NoPolicy
           /\ f.e = c.e /\ f.asked = c.asked /\ f.sends = c.sends /\ f.second = c.second
           /\ f.status = c.status /\ f.body = c.body /\ f.code = error.code
           /\ c.e.fails # "each" => f.result = <<>>
<1> DEFINE r == Calls!Return(c)
           none == IF c.e.fails = "each" THEN [i \in DOMAIN c.asked |-> Calls!NoId] ELSE <<>>
           f == Calls!Failure(c, error)
<1>1. f = [r EXCEPT !.code = error.code, !.result = none]
  BY DEF Calls!Failure
<1>2. c.e.fails # "each" => none = <<>>
  OBVIOUS
<1>3. /\ r \in CallRecords(r)
      /\ r.step = "idle" /\ r.retry = 0 /\ r.policy = Calls!NoPolicy
      /\ r.e = c.e /\ r.asked = c.asked /\ r.sends = c.sends /\ r.second = c.second
      /\ r.status = c.status /\ r.body = c.body
  BY ReturnedCall
<1> HIDE DEF r, none, f
<1>4. f \in CallRecords(f)
  BY <1>1, <1>3 DEF CallRecords
<1>5. f.step = "idle" /\ f.retry = 0 /\ f.policy = Calls!NoPolicy
  BY <1>1, <1>3 DEF CallRecords
<1>6. /\ f.e = c.e /\ f.asked = c.asked /\ f.sends = c.sends /\ f.second = c.second
      /\ f.status = c.status /\ f.body = c.body /\ f.code = error.code /\ f.result = none
  BY <1>1, <1>3 DEF CallRecords
<1> QED BY <1>2, <1>4, <1>5, <1>6 DEF f

LEMMA CallsAsk ==
    ASSUME CallsInv, NEW e \in Calls!Endpoints, NEW asked, NEW d \in Nat, Calls!Ask(e, asked, d)
    PROVE  CallsInv'
<1> DEFINE p == IF e.retried THEN r_policy ELSE Calls!NoPolicy
           c == [Calls!NoCall EXCEPT !.e = e, !.asked = asked, !.deadline = d, !.policy = p]
<1>1. /\ r_call' = IF Calls!Rejected(e, asked)
                   THEN Calls!Failure(c, Calls!Error("invalid_argument"))
                   ELSE IF ~Calls!Authorised(e) THEN Calls!Failure(c, Calls!Error("auth"))
                   ELSE [c EXCEPT !.step = "send"]
      /\ r_policy' = r_policy /\ r_now' = r_now
  BY DEF Calls!Ask
<1>2. p \in RetryPolicies /\ (~e.retried => p = Calls!NoPolicy)
  BY NoPolicyType DEF CallsInv, CallsTypeOK
<1> HIDE DEF p
<1>3. c \in CallRecords(c)
  BY <1>2, NoCallType DEF CallRecords
<1>4. /\ c.e = e /\ c.policy = p /\ c.step = "idle" /\ c.retry = 0 /\ c.sends = 0
      /\ c.code = "none" /\ c.asked = asked
  BY NoCallType DEF CallRecords
<1>5. c.second = Calls!NoCall.second
  BY NoCallType DEF CallRecords
<1> HIDE DEF c
<1>6. RowOK(e)
  BY EndpointRows
<1>7. ASSUME NEW error, r_call' = Calls!Failure(c, error) PROVE CallsInv'
  <2>1. /\ r_call' \in CallRecords(r_call')
        /\ r_call'.step = "idle" /\ r_call'.retry = 0 /\ r_call'.policy = Calls!NoPolicy
        /\ r_call'.sends = 0 /\ r_call'.e = e
        /\ e.fails # "each" => r_call'.result = <<>>
    BY <1>3, <1>4, <1>7, FailedCall
  <2>2. CallsTypeOK'
    BY <1>1, <2>1 DEF CallsInv, CallsTypeOK
  <2>3. r_call'.sends <= IF r_call'.second THEN 2 ELSE 1
    BY <2>1
  <2>4. r_call'.e.shape = "confirmed" => r_call'.result = <<>>
    BY <1>6, <2>1 DEF RowOK
  <2> QED BY <2>1, <2>2, <2>3, <2>4, CallsReturned
<1>8. CASE r_call' = [c EXCEPT !.step = "send"]
  <2>1. r_call' \in CallRecords(r_call')
    BY <1>3, <1>8 DEF CallRecords
  <2>2. CallsTypeOK'
    BY <1>1, <2>1 DEF CallsInv, CallsTypeOK
  <2>3. /\ r_call'.step = "send" /\ r_call'.retry = 0 /\ r_call'.code = "none"
        /\ r_call'.policy = p /\ r_call'.sends = 0 /\ r_call'.e = e
    BY <1>3, <1>4, <1>8 DEF CallRecords
  <2>4. SendsCounted' /\ SleepsLongEnough' /\ NotFailedYet'
    BY <1>2, <2>3 DEF SendsCounted, SleepsLongEnough, NotFailedYet
  <2>5. Calls!RetriesWithinPolicy' /\ Calls!FreshSignature' /\ Calls!CancelsConfirmed'
    BY <1>2, <2>3 DEF Calls!RetriesWithinPolicy, Calls!FreshSignature, Calls!CancelsConfirmed,
       RetryPolicies
  <2> QED BY <2>2, <2>4, <2>5 DEF CallsInv
<1> QED BY <1>1, <1>7, <1>8

LEMMA CallsSend == ASSUME CallsInv, Calls!Send PROVE CallsInv'
<1>1. /\ r_call.step = "send" /\ UNCHANGED <<r_policy, r_now>>
      /\ r_call' = [r_call EXCEPT !.step = "flight", !.sends = r_call.sends + 1,
                                  !.sent = r_now, !.signed = r_now]
  BY DEF Calls!Send
<1>2. r_call.sends + 1 \in Nat /\ r_now \in Nat /\ r_call \in CallRecords(r_call)
  BY DEF CallsInv, CallsTypeOK, CallRecords
<1>3. /\ r_call'.step = "flight" /\ r_call'.sends = r_call.sends + 1
      /\ r_call'.sent = r_now /\ r_call'.signed = r_now
      /\ r_call'.e = r_call.e /\ r_call'.retry = r_call.retry /\ r_call'.code = r_call.code
      /\ r_call'.policy = r_call.policy /\ r_call'.second = r_call.second
  BY <1>1, <1>2 DEF CallRecords
<1>4. r_call' \in CallRecords(r_call')
  BY <1>1, <1>2 DEF CallRecords
<1>5. CallsTypeOK'
  BY <1>1, <1>4 DEF CallsInv, CallsTypeOK
<1>6. SendsCounted'
  BY <1>1, <1>2, <1>3 DEF CallsInv, SendsCounted, CallsTypeOK, CallRecords
<1>7. SleepsLongEnough' /\ NotFailedYet'
  BY <1>1, <1>2, <1>3 DEF CallsInv, SleepsLongEnough, NotFailedYet
<1>8. Calls!RetriesWithinPolicy' /\ Calls!FreshSignature' /\ Calls!CancelsConfirmed'
  BY <1>3 DEF CallsInv, Calls!RetriesWithinPolicy, Calls!FreshSignature, Calls!CancelsConfirmed
<1> QED BY <1>5, <1>6, <1>7, <1>8 DEF CallsInv

LEMMA CallsRespond ==
    ASSUME CallsInv, NEW status, NEW body, NEW wait \in Waits \cup {Calls!Unsaid},
           Calls!Respond(status, body, wait)
    PROVE  CallsInv'
<1>1. /\ r_call.step = "flight" /\ UNCHANGED <<r_policy, r_now>>
      /\ r_call' = [r_call EXCEPT !.step = "answered", !.status = status, !.body = body,
                                  !.wait = wait]
  BY DEF Calls!Respond
<1>2. wait \in Int /\ r_call \in CallRecords(r_call)
  BY CallsAssumption DEF CallsInv, CallsTypeOK, Calls!Unsaid
<1>3. /\ r_call'.step = "answered" /\ r_call'.sends = r_call.sends /\ r_call'.sent = r_call.sent
      /\ r_call'.e = r_call.e /\ r_call'.retry = r_call.retry /\ r_call'.code = r_call.code
      /\ r_call'.policy = r_call.policy /\ r_call'.second = r_call.second
  BY <1>1, <1>2 DEF CallRecords
<1>4. r_call' \in CallRecords(r_call')
  BY <1>1, <1>2 DEF CallRecords
<1>5. CallsTypeOK'
  BY <1>1, <1>4 DEF CallsInv, CallsTypeOK
<1>6. SendsCounted' /\ SleepsLongEnough' /\ NotFailedYet'
  BY <1>1, <1>3 DEF CallsInv, SendsCounted, SleepsLongEnough, NotFailedYet
<1>7. Calls!RetriesWithinPolicy' /\ Calls!FreshSignature' /\ Calls!CancelsConfirmed'
  BY <1>3 DEF CallsInv, Calls!RetriesWithinPolicy, Calls!FreshSignature, Calls!CancelsConfirmed
<1> QED BY <1>5, <1>6, <1>7 DEF CallsInv

LEMMA CallsSleep == ASSUME CallsInv, Calls!Sleep PROVE CallsInv'
<1>1. PICK delay \in Calls!RateLimitDelay(r_call.wait) :
        /\ Calls!Retries(r_call, delay)
        /\ r_call' = [r_call EXCEPT !.step = "sleep", !.until = r_now + delay]
  BY DEF Calls!Sleep
<1>2. r_call.step = "answered" /\ UNCHANGED <<r_policy, r_now>>
  BY DEF Calls!Sleep
<1>3. r_call \in CallRecords(r_call) /\ r_now \in Nat /\ r_call.wait \in Int
  BY DEF CallsInv, CallsTypeOK, CallRecords
<1>4. delay \in Int /\ (r_call.wait <= LongMax => delay = Due(r_call))
  BY <1>1, <1>3, CallsAssumption DEF Calls!RateLimitDelay, Due, Calls!Unsaid
<1>5. r_now + delay \in Int
  BY <1>3, <1>4
<1>6. /\ r_call'.step = "sleep" /\ r_call'.until = r_now + delay
      /\ r_call'.sends = r_call.sends /\ r_call'.sent = r_call.sent
      /\ r_call'.e = r_call.e /\ r_call'.retry = r_call.retry /\ r_call'.code = r_call.code
      /\ r_call'.policy = r_call.policy /\ r_call'.second = r_call.second
      /\ r_call'.wait = r_call.wait /\ r_call'.deadline = r_call.deadline
  BY <1>1, <1>3 DEF CallRecords
<1>7. r_call' \in CallRecords(r_call')
  BY <1>1, <1>3, <1>5 DEF CallRecords
<1>8. CallsTypeOK'
  BY <1>2, <1>7 DEF CallsInv, CallsTypeOK
<1>9. /\ r_call.retry < r_call.policy.retries /\ delay <= r_call.policy.max_delay
      /\ r_now + delay <= r_call.deadline /\ r_call.sent <= r_now
  BY <1>1, <1>2 DEF Calls!Retries, CallsInv, SleepsLongEnough
<1>10. SendsCounted' /\ NotFailedYet'
  BY <1>2, <1>6 DEF CallsInv, SendsCounted, NotFailedYet
<1>11. SleepsLongEnough'
  BY <1>2, <1>3, <1>4, <1>6, <1>9 DEF SleepsLongEnough, Due, CallRecords
<1>12. Calls!RetriesWithinPolicy'
  BY <1>2, <1>3, <1>4, <1>6, <1>9 DEF CallsInv, Calls!RetriesWithinPolicy, CallRecords,
     RetryPolicies
<1>13. Calls!FreshSignature' /\ Calls!CancelsConfirmed'
  BY <1>6 DEF Calls!FreshSignature, Calls!CancelsConfirmed
<1> QED BY <1>8, <1>10, <1>11, <1>12, <1>13 DEF CallsInv

LEMMA CallsWake == ASSUME CallsInv, Calls!Wake PROVE CallsInv'
<1>1. /\ r_call.step = "sleep" /\ r_now >= r_call.until /\ UNCHANGED <<r_policy, r_now>>
      /\ r_call' = [r_call EXCEPT !.step = "send", !.retry = r_call.retry + 1]
  BY DEF Calls!Wake
<1>2. r_call \in CallRecords(r_call) /\ r_call.retry + 1 \in Nat /\ r_now \in Nat
  BY DEF CallsInv, CallsTypeOK, CallRecords
<1>3. /\ r_call'.step = "send" /\ r_call'.retry = r_call.retry + 1
      /\ r_call'.sends = r_call.sends /\ r_call'.sent = r_call.sent
      /\ r_call'.e = r_call.e /\ r_call'.code = r_call.code /\ r_call'.wait = r_call.wait
      /\ r_call'.policy = r_call.policy /\ r_call'.second = r_call.second
  BY <1>1, <1>2 DEF CallRecords
<1>4. r_call' \in CallRecords(r_call')
  BY <1>1, <1>2 DEF CallRecords
<1>5. CallsTypeOK'
  BY <1>1, <1>4 DEF CallsInv, CallsTypeOK
<1>6. /\ r_call.retry < r_call.policy.retries
      /\ r_call.retry \in Nat /\ r_call.policy.retries \in Nat
  BY <1>1, <1>2 DEF CallsInv, SleepsLongEnough, CallRecords, RetryPolicies
<1>7. r_call.policy # Calls!NoPolicy
  BY <1>6, NoPolicyType
<1>8. SendsCounted'
  <2>1. r_call.e \notin Calls!Mutations /\ r_call.e.retried
    BY <1>2, <1>7, MutationsRows DEF CallsInv, SendsCounted
  <2> QED BY <1>3, <2>1 DEF SendsCounted
<1>9. SleepsLongEnough' /\ NotFailedYet'
  BY <1>1, <1>2, <1>3 DEF CallsInv, SleepsLongEnough, NotFailedYet, Due, CallRecords
<1>10. Calls!RetriesWithinPolicy' /\ Calls!FreshSignature' /\ Calls!CancelsConfirmed'
  BY <1>3, <1>6 DEF Calls!RetriesWithinPolicy, Calls!FreshSignature, Calls!CancelsConfirmed
<1> QED BY <1>5, <1>8, <1>9, <1>10 DEF CallsInv

LEMMA CallsTick == ASSUME CallsInv, Calls!Tick PROVE CallsInv'
<1>1. /\ r_call.step \in {"sleep", "flight"} /\ UNCHANGED <<r_call, r_policy>>
      /\ r_now' = r_now + 1
  BY DEF Calls!Tick
<1>2. r_now \in Nat /\ r_call \in CallRecords(r_call)
  BY DEF CallsInv, CallsTypeOK
<1>3. CallsTypeOK'
  BY <1>1, <1>2 DEF CallsInv, CallsTypeOK, CallRecords
<1>4. SendsCounted' /\ NotFailedYet' /\ Calls!FreshSignature' /\ Calls!CancelsConfirmed'
  BY <1>1 DEF CallsInv, SendsCounted, NotFailedYet, Calls!FreshSignature, Calls!CancelsConfirmed
<1>5. SleepsLongEnough'
  BY <1>1, <1>2 DEF CallsInv, SleepsLongEnough, Due, CallRecords
<1>6. Calls!RetriesWithinPolicy'
  BY <1>1, <1>2 DEF CallsInv, Calls!RetriesWithinPolicy, CallRecords, RetryPolicies
<1> QED BY <1>3, <1>4, <1>5, <1>6 DEF CallsInv

(* How a call ends: with a second attempt, empty, failed, or with what was read. *)
Ended(c) ==
    \/ /\ c.e.shape = "either" /\ ~c.second
       /\ r_call' = [c EXCEPT !.step = "send", !.second = TRUE]
    \/ c.e.shape = "profile" /\ r_call' = Calls!Return(c)
    \/ \E error : r_call' = Calls!Failure(c, error)
    \/ /\ c.status = "ok" /\ Calls!Read(c.e.shape, c.asked, c.body) # Calls!Bad
       /\ r_call' = [Calls!Return(c) EXCEPT !.result = Calls!Read(c.e.shape, c.asked, c.body)]

LEMMA FinishEnds ==
    ASSUME CallsInv, Calls!Finish
    PROVE  \E c : /\ c \in CallRecords(c) /\ c.e = r_call.e /\ c.policy = r_call.policy
                  /\ c.retry = r_call.retry /\ c.sends = r_call.sends
                  /\ c.second = r_call.second /\ c.code = "none" /\ Ended(c)
<1> DEFINE c == [r_call EXCEPT !.told = Calls!Told(r_call)]
           items == Calls!Read(c.e.shape, c.asked, c.body)
           done == IF c.status = "absent" /\ c.e.shape = "profile" THEN Calls!Return(c)
                   ELSE IF c.status # "ok"
                        THEN Calls!Failure(c, Calls!MakeSdkError(c.e, c.status))
                   ELSE IF items = Calls!Bad THEN Calls!Failure(c, Calls!Error("parse"))
                   ELSE [Calls!Return(c) EXCEPT !.result = items]
<1>1. /\ r_call.step = "answered"
      /\ r_call' = IF done.code # "none" /\ Calls!TriesCreate(c)
                   THEN [c EXCEPT !.step = "send", !.second = TRUE] ELSE done
  BY DEF Calls!Finish
<1>2. c = [r_call EXCEPT !.told = Calls!Told(r_call)]
  OBVIOUS
<1> HIDE DEF c
<1>3. r_call \in CallRecords(r_call) /\ r_call.code = "none"
  BY <1>1 DEF CallsInv, CallsTypeOK, NotFailedYet
<1>4. c \in CallRecords(c)
  BY <1>2, <1>3 DEF CallRecords
<1>5. /\ c.e = r_call.e /\ c.policy = r_call.policy /\ c.retry = r_call.retry
      /\ c.sends = r_call.sends /\ c.second = r_call.second /\ c.code = "none"
  BY <1>2, <1>3 DEF CallRecords
<1>6. Ended(c)
  BY <1>1 DEF Ended, Calls!TriesCreate
<1> QED BY <1>4, <1>5, <1>6

(* A cancellation that was read is confirmed. *)
LEMMA ConfirmedRead ==
    ASSUME NEW asked, NEW body, Calls!Read("confirmed", asked, body) # Calls!Bad
    PROVE  /\ body # Calls!Garbage
           /\ Calls!Range(asked) \subseteq
                {body[i].id : i \in {j \in DOMAIN body : body[j].good}}
           /\ \A i \in DOMAIN body : body[i].good
<1>1. body # Calls!Garbage /\ Calls!Confirmed(body, asked) # Calls!Bad
  BY DEF Calls!Read
<1>2. Calls!Good(body) /\ Calls!Range(asked) \subseteq Calls!Named(body)
  BY <1>1 DEF Calls!Confirmed
<1>3. \A i \in DOMAIN body : body[i].good
  BY <1>2 DEF Calls!Good
<1>4. ASSUME NEW x \in Calls!Named(body) PROVE \E i \in DOMAIN body : x = body[i].id
  BY DEF Calls!Named, Calls!Range, Calls!IdsOf
<1> QED BY <1>1, <1>2, <1>3, <1>4

LEMMA CallsFinish == ASSUME CallsInv, Calls!Finish PROVE CallsInv'
<1>1. PICK c : /\ c \in CallRecords(c) /\ c.e = r_call.e /\ c.policy = r_call.policy
               /\ c.retry = r_call.retry /\ c.sends = r_call.sends
               /\ c.second = r_call.second /\ c.code = "none" /\ Ended(c)
  BY FinishEnds
<1>2. r_call.step = "answered" /\ r_policy' = r_policy /\ r_now' = 0
  BY DEF Calls!Finish
<1>3. r_policy' \in RetryPolicies /\ r_now' \in Nat
  BY <1>2 DEF CallsInv, CallsTypeOK
<1>4. RowOK(c.e)
  BY <1>1, EndpointRows DEF CallRecords
<1>5. c.e \in Calls!Mutations => c.sends <= IF c.second THEN 2 ELSE 1
  <2>1. r_call.e \in Calls!Mutations => r_call.sends + 0 <= IF r_call.second THEN 2 ELSE 1
    BY <1>2 DEF CallsInv, SendsCounted
  <2>2. r_call.sends + 0 = r_call.sends
    BY DEF CallsInv, CallsTypeOK, CallRecords
  <2> QED BY <1>1, <2>1, <2>2
<1>6. CASE c.e.shape = "either" /\ ~c.second /\ r_call' = [c EXCEPT !.step = "send",
                                                           !.second = TRUE]
  <2>1. r_call' \in CallRecords(r_call')
    BY <1>1, <1>6 DEF CallRecords
  <2>2. /\ r_call'.step = "send" /\ r_call'.e = c.e /\ r_call'.policy = c.policy
        /\ r_call'.retry = c.retry /\ r_call'.sends = c.sends /\ r_call'.code = c.code
    BY <1>1, <1>6 DEF CallRecords
  <2>3. r_call'.second
    BY <1>1, <1>6 DEF CallRecords
  <2>4. ~c.e.retried /\ c.policy = Calls!NoPolicy
    BY <1>1, <1>4, <1>6 DEF RowOK, CallsInv, SendsCounted
  <2>5. c.retry = 0
    <3>1. c.retry <= c.policy.retries /\ c.retry \in Nat
      BY <1>1 DEF CallsInv, Calls!RetriesWithinPolicy, CallRecords
    <3> QED BY <2>4, <3>1, NoPolicyType
  <2>6. CallsTypeOK'
    BY <1>3, <2>1 DEF CallsTypeOK
  <2>7. SendsCounted'
    <3>1. c.e \in Calls!Mutations => c.sends + 1 <= 2
      BY <1>1, <1>5, <1>6 DEF CallRecords
    <3> QED BY <2>2, <2>3, <2>4, <3>1 DEF SendsCounted
  <2>8. SleepsLongEnough' /\ NotFailedYet'
    BY <1>1, <2>2, <2>5 DEF SleepsLongEnough, NotFailedYet
  <2>9. Calls!RetriesWithinPolicy' /\ Calls!FreshSignature' /\ Calls!CancelsConfirmed'
    BY <2>2, <2>4, <2>5, NoPolicyType
       DEF Calls!RetriesWithinPolicy, Calls!FreshSignature, Calls!CancelsConfirmed
  <2> QED BY <2>6, <2>7, <2>8, <2>9 DEF CallsInv
<1>7. CASE c.e.shape = "profile" /\ r_call' = Calls!Return(c)
  <2>1. /\ r_call' \in CallRecords(r_call')
        /\ r_call'.step = "idle" /\ r_call'.retry = 0 /\ r_call'.policy = Calls!NoPolicy
        /\ r_call'.e = c.e /\ r_call'.sends = c.sends /\ r_call'.second = c.second
    BY <1>1, <1>7, ReturnedCall
  <2>2. CallsTypeOK'
    BY <1>3, <2>1 DEF CallsTypeOK
  <2> QED BY <1>5, <1>7, <2>1, <2>2, CallsReturned
<1>8. CASE \E error : r_call' = Calls!Failure(c, error)
  <2>1. PICK error : r_call' = Calls!Failure(c, error)
    BY <1>8
  <2>2. /\ r_call' \in CallRecords(r_call')
        /\ r_call'.step = "idle" /\ r_call'.retry = 0 /\ r_call'.policy = Calls!NoPolicy
        /\ r_call'.e = c.e /\ r_call'.sends = c.sends /\ r_call'.second = c.second
        /\ c.e.fails # "each" => r_call'.result = <<>>
    BY <1>1, <2>1, FailedCall
  <2>3. CallsTypeOK'
    BY <1>3, <2>2 DEF CallsTypeOK
  <2>4. r_call'.e.shape = "confirmed" => r_call'.result = <<>>
    BY <1>4, <2>2 DEF RowOK
  <2> QED BY <1>5, <2>2, <2>3, <2>4, CallsReturned
<1>9. CASE /\ c.status = "ok" /\ Calls!Read(c.e.shape, c.asked, c.body) # Calls!Bad
           /\ r_call' = [Calls!Return(c) EXCEPT !.result = Calls!Read(c.e.shape, c.asked, c.body)]
  <2> DEFINE r == Calls!Return(c)
             items == Calls!Read(c.e.shape, c.asked, c.body)
  <2>1. /\ r \in CallRecords(r)
        /\ r.step = "idle" /\ r.retry = 0 /\ r.policy = Calls!NoPolicy
        /\ r.e = c.e /\ r.asked = c.asked /\ r.sends = c.sends /\ r.second = c.second
        /\ r.status = c.status /\ r.body = c.body
    BY <1>1, ReturnedCall
  <2>2. r_call' = [r EXCEPT !.result = items]
    BY <1>9
  <2> HIDE DEF r, items
  <2>3. r_call' \in CallRecords(r_call')
    BY <2>1, <2>2 DEF CallRecords
  <2>4. /\ r_call'.step = "idle" /\ r_call'.retry = 0 /\ r_call'.policy = Calls!NoPolicy
        /\ r_call'.e = c.e /\ r_call'.asked = c.asked /\ r_call'.sends = c.sends
        /\ r_call'.second = c.second /\ r_call'.status = c.status /\ r_call'.body = c.body
    BY <2>1, <2>2 DEF CallRecords
  <2>5. CallsTypeOK'
    BY <1>3, <2>3 DEF CallsTypeOK
  <2>6. c.e.shape = "confirmed" =>
          /\ c.body # Calls!Garbage
          /\ Calls!Range(c.asked) \subseteq
               {c.body[i].id : i \in {j \in DOMAIN c.body : c.body[j].good}}
          /\ \A i \in DOMAIN c.body : c.body[i].good
    BY <1>9, ConfirmedRead
  <2> QED BY <1>5, <1>9, <2>4, <2>5, <2>6, CallsReturned
<1> QED BY <1>1, <1>6, <1>7, <1>8, <1>9 DEF Ended

LEMMA CallsNext == ASSUME CallsInv, [Calls!Next]_(Calls!vars) PROVE CallsInv'
<1>1. CASE UNCHANGED Calls!vars
  BY <1>1, CallsConfigured DEF Calls!vars, CallsInv, CallsTypeOK
<1>2. ASSUME NEW p \in Policies \cup {Calls!NoPolicy}, Calls!set_rate_limit_retry(p)
      PROVE  CallsInv'
  BY <1>2, CallsConfigured, CallsAssumption, NoPolicyType
     DEF Calls!set_rate_limit_retry, RetryPolicies
<1>3. CASE Calls!set_rate_limit_listener
  BY <1>3, CallsConfigured DEF Calls!set_rate_limit_listener, CallsInv, CallsTypeOK
<1>4. ASSUME NEW e \in Calls!Endpoints, NEW asked \in Calls!Asked(e),
             NEW d \in IF e.shape = "find" THEN {1, Calls!NoDeadline} ELSE {Calls!NoDeadline},
             Calls!Ask(e, asked, d)
      PROVE  CallsInv'
  <2>1. d \in Nat
    BY DEF Calls!NoDeadline
  <2> QED BY <1>4, <2>1, CallsAsk
<1>5. ASSUME NEW status, NEW body, NEW wait \in Waits \cup {Calls!Unsaid},
             Calls!Respond(status, body, wait)
      PROVE  CallsInv'
  BY <1>5, CallsRespond
<1> QED BY <1>1, <1>2, <1>3, <1>4, <1>5, CallsSend, CallsSleep, CallsWake, CallsTick, CallsFinish
    DEF Calls!Next

-----------------------------------------------------------------------------
CallsAlways == which = "calls" => CallsInv

LEMMA CallsAlwaysInit == Init => CallsAlways
  BY CallsInit DEF CallsAlways, Init, Select, InitComponents, Calls!Init

LEMMA CallsAlwaysNext == CallsAlways /\ [Next]_allVars => CallsAlways'
  BY StepOfClob, CallsNext DEF CallsAlways

(* No write is sent a second time after a 429, whatever the policy, the answers and the
   calls before it; only create_or_derive_api_credentials makes a second request. *)
THEOREM WritesNotRetried == Spec => []MutationsSentOnce
<1>1. CallsInv => Calls!MutationsSentOnce
  BY DEF CallsInv, CallsTypeOK, CallRecords, SendsCounted, Calls!MutationsSentOnce
<1>2. CallsAlways => MutationsSentOnce
  BY <1>1 DEF CallsAlways, MutationsSentOnce
<1> QED BY <1>2, CallsAlwaysInit, CallsAlwaysNext, PTL DEF Spec

(* A read retries no more often, and sleeps no longer, than the policy it began with allows
   and its deadline leaves, though set_rate_limit_retry replaces the policy meanwhile; every
   attempt is signed when it is sent; and a cancellation is reported only when the server
   has confirmed it. *)
THEOREM RetriesStayWithinPolicy == Spec => []RetriesWithinPolicy
<1>1. CallsAlways => RetriesWithinPolicy
  BY DEF CallsAlways, CallsInv, RetriesWithinPolicy
<1> QED BY <1>1, CallsAlwaysInit, CallsAlwaysNext, PTL DEF Spec

LEMMA DelayKept ==
    ASSUME CallsInv, r_call.step = "send", r_call.retry > 0, r_call.wait <= LongMax
    PROVE  r_now >= r_call.sent + (IF r_call.wait = Calls!Unsaid THEN 1 ELSE r_call.wait)
  BY DEF CallsInv, SleepsLongEnough, Due

(* The books a caller gets are the ones it asked for. *)
LEMMA BooksRead ==
    ASSUME NEW shape \in {"book", "books"}, NEW asked, NEW body,
           Calls!Read(shape, asked, body) # Calls!Bad
    PROVE  Calls!Range(Calls!Read(shape, asked, body)) \subseteq Calls!Range(asked)
<1>1. body # Calls!Garbage
  BY DEF Calls!Read
<1>2. CASE shape = "book"
  BY <1>1, <1>2 DEF Calls!Read
<1>3. CASE shape = "books"
  <2>1. Calls!Read(shape, asked, body) =
          IF /\ Calls!Good(body) /\ Calls!Len(body) = Calls!Len(asked)
             /\ Calls!Named(body) = Calls!Range(asked)
          THEN Calls!IdsOf(body) ELSE Calls!Bad
    BY <1>1, <1>3 DEF Calls!Read
  <2> QED BY <2>1 DEF Calls!Named
<1> QED BY <1>2, <1>3

LEMMA CacheAccepted ==
    ASSUME CallsInv, [Calls!Next]_(Calls!vars), r_cache' # r_cache
    PROVE  /\ r_call'.step = "idle" /\ r_call'.code = "none"
           /\ r_cache' \ r_cache \subseteq
                Calls!Range(r_call'.result) \cap Calls!Range(r_call'.asked)
<1>1. Calls!Finish
  BY DEF Calls!Next, Calls!vars, Calls!set_rate_limit_retry, Calls!set_rate_limit_listener,
         Calls!Ask, Calls!Send, Calls!Respond, Calls!Sleep, Calls!Wake, Calls!Tick
<1>2. PICK c : /\ c \in CallRecords(c) /\ c.e = r_call.e /\ c.code = "none" /\ Ended(c)
  BY <1>1, FinishEnds
<1>3. r_cache' = Calls!Remember(r_call')
  BY <1>1 DEF Calls!Finish
<1>4. /\ r_call'.e.shape \in {"book", "books"} /\ r_call'.result # <<>>
      /\ r_cache' = r_cache \cup Calls!Range(r_call'.result)
  BY <1>3 DEF Calls!Remember
<1>5. RowOK(c.e)
  BY <1>2, EndpointRows DEF CallRecords
<1>6. CASE c.e.shape = "either" /\ ~c.second /\ r_call' = [c EXCEPT !.step = "send",
                                                           !.second = TRUE]
  <2>1. r_call'.e = c.e
    BY <1>2, <1>6 DEF CallRecords
  <2> QED BY <1>4, <1>6, <2>1
<1>7. CASE c.e.shape = "profile" /\ r_call' = Calls!Return(c)
  BY <1>2, <1>4, <1>7, ReturnedCall
<1>8. CASE \E error : r_call' = Calls!Failure(c, error)
  <2>1. r_call'.e = c.e /\ (c.e.fails # "each" => r_call'.result = <<>>)
    BY <1>2, <1>8, FailedCall
  <2> QED BY <1>4, <1>5, <2>1 DEF RowOK
<1>9. CASE /\ c.status = "ok" /\ Calls!Read(c.e.shape, c.asked, c.body) # Calls!Bad
           /\ r_call' = [Calls!Return(c) EXCEPT !.result = Calls!Read(c.e.shape, c.asked, c.body)]
  <2> DEFINE r == Calls!Return(c)
             items == Calls!Read(c.e.shape, c.asked, c.body)
  <2>1. r \in CallRecords(r) /\ r.step = "idle" /\ r.e = c.e /\ r.asked = c.asked /\ r.code = c.code
    BY <1>2, ReturnedCall
  <2>2. r_call' = [r EXCEPT !.result = items] /\ items # Calls!Bad
    BY <1>9
  <2> HIDE DEF r, items
  <2>3. /\ r_call'.step = "idle" /\ r_call'.e = c.e /\ r_call'.asked = c.asked
        /\ r_call'.code = "none" /\ r_call'.result = items
    BY <1>2, <2>1, <2>2 DEF CallRecords
  <2>4. Calls!Range(items) \subseteq Calls!Range(c.asked)
    BY <1>4, <2>2, <2>3, BooksRead DEF items
  <2> QED BY <1>4, <2>3, <2>4
<1> QED BY <1>2, <1>6, <1>7, <1>8, <1>9, SMTT(30) DEF Ended

LEMMA OthersLeaveCalls == ASSUME [Next]_allVars, which # "calls" PROVE UNCHANGED r_vars
  BY DEF Next, allVars, OnlyGlobal, OnlyConn, OnlyOrders, OnlyPages, OnlyCalls, OnlyFile,
         OnlyTxs, OnlyOracle, OnlyFetch, OnlyArb, OnlyTunnel

(* A retry is sent no sooner than the server asked, and the metadata cache takes only books
   that were asked for, from an answer the caller received as a whole. *)
THEOREM RestStepsSafe == Spec => RestActions
<1> DEFINE Kept == /\ r_call.step = "send" /\ r_call.retry > 0 /\ r_call.wait <= LongMax
                   /\ r_call'.step = "flight"
                   => r_now >= r_call.sent + (IF r_call.wait = Calls!Unsaid THEN 1 ELSE r_call.wait)
           Accepted == r_cache' # r_cache =>
              /\ r_call'.step = "idle" /\ r_call'.code = "none"
              /\ r_cache' \ r_cache \subseteq
                   Calls!Range(r_call'.result) \cap Calls!Range(r_call'.asked)
<1>1. CallsAlways /\ [Next]_allVars => [Kept]_(Calls!vars) /\ [Accepted]_(Calls!vars)
  <2> SUFFICES ASSUME CallsAlways, [Next]_allVars PROVE Kept /\ Accepted
    OBVIOUS
  <2>1. CASE which = "calls"
    BY <2>1, StepOfClob, DelayKept, CacheAccepted DEF CallsAlways
  <2>2. CASE which # "calls"
    BY <2>2, OthersLeaveCalls DEF r_vars
  <2> QED BY <2>1, <2>2
<1>2. [][Kept]_(Calls!vars) /\ [][Accepted]_(Calls!vars) => RestActions
  BY PTL DEF RestActions, Calls!ServerDelayKept, Calls!CacheFromAcceptedBooks
<1> QED BY <1>1, <1>2, CallsAlwaysInit, CallsAlwaysNext, PTL DEF Spec

-----------------------------------------------------------------------------
(* Paginator: a pager that has read the first n items. *)

PageCursors == Nat \X Nat
Pagers ==
    [kind : {"cursor", "keyset", "offset", "numbered"}, limit : Nat \ {0},
     cursor : PageCursors \cup {Pages!End}, first : BOOLEAN, offset : Nat, page : Nat \ {0},
     started : Nat, seen : SUBSET PageCursors, error : {"none", "fetch", "cycle", "pages"},
     truncated : BOOLEAN, done : BOOLEAN]

ByCursor(p) == p.kind \in {"cursor", "keyset"}

(* What holds of a pager wherever it is: only an offset can be cut off, and no page is
   asked for past the cap, so that max_offset_ - offset_ does not wrap. *)
PagerOK(p) ==
    /\ p \in Pagers
    /\ p.first => p.kind = "keyset" /\ p.cursor = Pages!Start
    /\ p.done => p.error = "none"
    /\ p.kind = "keyset" /\ p.cursor = Pages!End => p.done
    /\ p.kind = "cursor" /\ p.done => p.cursor = Pages!End
    /\ p.error = "cycle" => ByCursor(p)
    /\ IF p.kind = "offset" THEN p.truncated => p.done /\ p.offset > MaxOffset
       ELSE ~p.truncated /\ p.started <= MaxPages
    /\ p.kind = "offset" /\ ~p.done => p.offset <= MaxOffset

(* Where it is: what it will ask for next are the items after n, and it is done when there
   are none, or when the cap cuts them off. *)
PagerAt(p, n) ==
    /\ n <= p_total
    /\ ByCursor(p) /\ p.error # "cycle" =>
         IF p.done \/ p.cursor = Pages!End THEN n = p_total ELSE p.cursor[1] = n
    /\ p.kind = "offset" => p.offset = n /\ (p.done /\ ~p.truncated => n = p_total)
    /\ p.kind = "numbered" => IF p.done THEN n = p_total ELSE (p.page - 1) * p.limit = n

UpTo(n) == [i \in 1 .. n |-> i]
ReadSoFar == Len(p_got) + Len(p_buffer)

PagesInv ==
    /\ p_total \in Nat /\ p_got \in Seq(Nat) /\ p_buffer \in Seq(Nat)
    /\ p_requests \in Nat /\ p_looped \in BOOLEAN
    /\ p_iterates \/ p_buffer = <<>>
    /\ PagerOK(p_pager)
    /\ p_pager.kind # "offset" => p_requests <= p_pager.started
    /\ p_looped => ByCursor(p_pager)
    /\ ~p_looped => /\ p_got \o p_buffer = UpTo(ReadSoFar)
                    /\ PagerAt(p_pager, ReadSoFar)

-----------------------------------------------------------------------------
(* Runs of numbers. *)

Run(n, m) == [i \in 1 .. m |-> n + i]

LEMMA RunIs ==
    ASSUME NEW n \in Nat, NEW m \in Nat
    PROVE  Run(n, m) \in Seq(Nat) /\ Len(Run(n, m)) = m
<1>1. \A i \in 1 .. m : n + i \in Nat
  OBVIOUS
<1> QED BY <1>1, IsASeq DEF Run

LEMMA RunGoesOn ==
    ASSUME NEW n \in Nat, NEW m \in Nat
    PROVE  Run(0, n) \o Run(n, m) = Run(0, n + m)
<1> DEFINE s == Run(0, n)  t == Run(n, m)  u == Run(0, n + m)
<1>1. /\ s \in Seq(Nat) /\ Len(s) = n /\ t \in Seq(Nat) /\ Len(t) = m
      /\ u \in Seq(Nat) /\ Len(u) = n + m
  BY RunIs
<1>2. /\ s \o t \in Seq(Nat) /\ Len(s \o t) = n + m
      /\ \A i \in 1 .. n + m : (s \o t)[i] = IF i <= n THEN s[i] ELSE t[i - n]
  <2> HIDE DEF s, t, u
  <2> QED BY <1>1, ConcatProperties
<1>3. ASSUME NEW i \in 1 .. n + m PROVE (s \o t)[i] = u[i]
  <2>1. u[i] = i
    BY DEF Run
  <2>2. CASE i <= n
    <3>1. s[i] = i
      BY <2>2 DEF Run
    <3> QED BY <1>2, <2>1, <2>2, <3>1
  <2>3. CASE ~(i <= n)
    <3>1. i - n \in 1 .. m
      BY <2>3
    <3>2. t[i - n] = i
      BY <3>1 DEF Run
    <3> QED BY <1>2, <2>1, <2>3, <3>2
  <2> QED BY <2>2, <2>3
<1> HIDE DEF s, t, u
<1>4. s \o t = u
  BY <1>1, <1>2, <1>3, SeqEqual
<1> QED BY <1>4 DEF s, t, u

(* What the server holds after n, and what it names next. *)
LEMMA ItemsAre ==
    ASSUME NEW n \in Nat, NEW limit \in Nat \ {0}, p_total \in Nat
    PROVE  \E m \in Nat :
             /\ Pages!ItemsAfter(n, limit) = Run(n, m) /\ m <= limit
             /\ n <= p_total => /\ n + m <= p_total
                                /\ m < limit => n + m = p_total
                                /\ IF n + limit >= p_total
                                   THEN Pages!NextAfter(n, limit) = Pages!End /\ n + m = p_total
                                   ELSE Pages!NextAfter(n, limit) = <<n + m, 0>> /\ m = limit
<1>1. CASE n >= p_total
  <2>1. Pages!ItemsAfter(n, limit) = Run(n, 0)
    BY <1>1 DEF Pages!ItemsAfter, Run
  <2> QED BY <1>1, <2>1 DEF Pages!NextAfter
<1>2. CASE ~(n >= p_total) /\ n + limit > p_total
  <2>1. Pages!ItemsAfter(n, limit) = Run(n, p_total - n) /\ p_total - n \in Nat
    BY <1>2 DEF Pages!ItemsAfter, Run
  <2> QED BY <1>2, <2>1 DEF Pages!NextAfter
<1>3. CASE ~(n >= p_total) /\ ~(n + limit > p_total)
  <2>1. Pages!ItemsAfter(n, limit) = Run(n, limit)
    BY <1>3 DEF Pages!ItemsAfter, Run
  <2> QED BY <1>3, <2>1 DEF Pages!NextAfter
<1> QED BY <1>1, <1>2, <1>3

LEMMA CursorsDiffer ==
    /\ Pages!Start \in PageCursors /\ Pages!End \notin PageCursors /\ Pages!Start[1] = 0
    /\ Pages!Start # Pages!End
    /\ \A c \in PageCursors : c[1] \in Nat /\ c[2] \in Nat
    /\ \A n, k \in Nat : <<n, k>> \in PageCursors /\ <<n, k>>[1] = n
  BY DEF Pages!Start, Pages!End, PageCursors

-----------------------------------------------------------------------------
(* What the operations of the pager make of it. *)

LEMMA PagerFields ==
    ASSUME NEW p \in Pagers
    PROVE  /\ p.kind \in {"cursor", "keyset", "offset", "numbered"} /\ p.limit \in Nat \ {0}
           /\ p.cursor \in PageCursors \cup {Pages!End} /\ p.first \in BOOLEAN /\ p.offset \in Nat
           /\ p.page \in Nat \ {0} /\ p.started \in Nat /\ p.seen \subseteq PageCursors
           /\ p.error \in {"none", "fetch", "cycle", "pages"}
           /\ p.truncated \in BOOLEAN /\ p.done \in BOOLEAN
  BY DEF Pagers

LEMMA FailsIs ==
    ASSUME NEW p \in Pagers, NEW why \in {"none", "fetch", "cycle", "pages"}
    PROVE  LET q == Pages!Fails(p, why) IN
           /\ q \in Pagers /\ q.error = why /\ q.kind = p.kind /\ q.limit = p.limit
           /\ q.cursor = p.cursor /\ q.first = p.first /\ q.offset = p.offset /\ q.page = p.page
           /\ q.started = p.started /\ q.seen = p.seen /\ q.truncated = p.truncated
           /\ q.done = p.done
  BY DEF Pages!Fails, Pagers

LEMMA DoneIs ==
    ASSUME NEW p \in Pagers
    PROVE  LET q == [p EXCEPT !.done = TRUE] IN
           /\ q \in Pagers /\ q.done /\ q.error = p.error /\ q.kind = p.kind
           /\ q.limit = p.limit /\ q.cursor = p.cursor /\ q.first = p.first
           /\ q.offset = p.offset /\ q.page = p.page /\ q.started = p.started /\ q.seen = p.seen
           /\ q.truncated = p.truncated
  BY DEF Pagers

LEMMA MovedIs ==
    ASSUME NEW p \in Pagers, NEW c \in PageCursors \cup {Pages!End}
    PROVE  LET q == [p EXCEPT !.cursor = c] IN
           /\ q \in Pagers /\ q.done = p.done /\ q.error = p.error /\ q.kind = p.kind
           /\ q.limit = p.limit /\ q.cursor = c /\ q.first = p.first
           /\ q.offset = p.offset /\ q.page = p.page /\ q.started = p.started /\ q.seen = p.seen
           /\ q.truncated = p.truncated
  BY DEF Pagers

LEMMA EndedIs ==
    ASSUME NEW p \in Pagers
    PROVE  LET q == [p EXCEPT !.cursor = Pages!End, !.done = TRUE] IN
           /\ q \in Pagers /\ q.done /\ q.error = p.error /\ q.kind = p.kind
           /\ q.limit = p.limit /\ q.cursor = Pages!End /\ q.first = p.first
           /\ q.offset = p.offset /\ q.page = p.page /\ q.started = p.started /\ q.seen = p.seen
           /\ q.truncated = p.truncated
  BY DEF Pagers

LEMMA BeginPageIs ==
    ASSUME NEW p, PagerOK(p), ByCursor(p), ~Pages!Over(p)
    PROVE  LET q == Pages!BeginPage(p) IN
           /\ PagerOK(q) /\ q.kind = p.kind /\ q.limit = p.limit /\ q.cursor = p.cursor
           /\ Pages!Over(q) => /\ q.started = p.started
                               /\ \A n \in Nat : PagerAt(p, n) => PagerAt(q, n)
           /\ ~Pages!Over(q) => /\ q.started = p.started + 1 /\ ~q.first
                                /\ q.cursor \in PageCursors
<1> DEFINE q == Pages!BeginPage(p)
<1>0. /\ ~p.done /\ p.error = "none" /\ p \in Pagers /\ p.started \in Nat /\ p.started + 1 \in Nat
      /\ p.kind # "offset" /\ p.kind # "numbered" /\ MaxPages \in Nat /\ p.started <= MaxPages
      /\ ~p.truncated
  BY PagerFields, PagesAssumption DEF PagerOK, Pages!Over, ByCursor
<1>1. CASE ~p.first /\ p.cursor = Pages!End
  <2>1. q = [p EXCEPT !.done = TRUE]
    BY <1>1 DEF Pages!BeginPage
  <2>2. /\ q \in Pagers /\ q.done /\ q.error = p.error /\ q.kind = p.kind
        /\ q.limit = p.limit /\ q.cursor = p.cursor /\ q.first = p.first
        /\ q.offset = p.offset /\ q.page = p.page /\ q.started = p.started
        /\ q.truncated = p.truncated
    BY <1>0, <2>1, DoneIs
  <2> HIDE DEF q
  <2>3. PagerOK(q) /\ Pages!Over(q)
    BY <1>0, <1>1, <2>2 DEF PagerOK, Pages!Over, ByCursor
  <2>4. ASSUME NEW n \in Nat, PagerAt(p, n) PROVE PagerAt(q, n)
    BY <1>0, <1>1, <2>2, <2>4 DEF PagerAt, ByCursor
  <2>5. Pages!Over(q)
    BY <2>3
  <2> QED BY <2>2, <2>3, <2>4, <2>5 DEF q
<1>2. ASSUME NEW why \in {"pages", "cycle"}, q = Pages!Fails(p, why),
             ~(~p.first /\ p.cursor = Pages!End)
      PROVE  /\ PagerOK(q) /\ q.kind = p.kind /\ q.limit = p.limit /\ q.cursor = p.cursor
             /\ Pages!Over(q) /\ q.started = p.started
             /\ \A n \in Nat : PagerAt(p, n) => PagerAt(q, n)
  <2>2. /\ q \in Pagers /\ q.error = why /\ q.kind = p.kind /\ q.limit = p.limit
        /\ q.cursor = p.cursor /\ q.first = p.first /\ q.offset = p.offset /\ q.page = p.page
        /\ q.started = p.started /\ q.truncated = p.truncated /\ q.done = p.done
    BY <1>0, <1>2, FailsIs
  <2> HIDE DEF q
  <2>3. PagerOK(q) /\ Pages!Over(q)
    BY <1>0, <1>2, <2>2 DEF PagerOK, Pages!Over, ByCursor
  <2>4. ASSUME NEW n \in Nat, PagerAt(p, n) PROVE PagerAt(q, n)
    BY <1>0, <1>2, <2>2, <2>4 DEF PagerAt, ByCursor
  <2> QED BY <2>2, <2>3, <2>4
<1>3. CASE ~(~p.first /\ p.cursor = Pages!End) /\ p.started >= MaxPages
  <2>1. q = Pages!Fails(p, "pages")
    BY <1>3 DEF Pages!BeginPage
  <2> HIDE DEF q
  <2> QED BY <1>2, <1>3, <2>1 DEF q
<1>4. CASE /\ ~(~p.first /\ p.cursor = Pages!End) /\ ~(p.started >= MaxPages)
           /\ ~p.first /\ p.cursor \in p.seen
  <2>1. q = Pages!Fails(p, "cycle")
    BY <1>4 DEF Pages!BeginPage
  <2> HIDE DEF q
  <2> QED BY <1>2, <1>4, <2>1 DEF q
<1>5. CASE /\ ~(~p.first /\ p.cursor = Pages!End) /\ ~(p.started >= MaxPages)
           /\ ~(~p.first /\ p.cursor \in p.seen)
  <2> DEFINE k == p.started + 1
             seen == IF p.first THEN p.seen ELSE p.seen \cup {p.cursor}
  <2>1. q = [p EXCEPT !.first = FALSE, !.started = k, !.seen = seen]
    BY <1>5 DEF Pages!BeginPage
  <2>2. p.cursor \in PageCursors /\ seen \in SUBSET PageCursors /\ k \in Nat
    BY <1>0, <1>5, PagerFields, CursorsDiffer DEF PagerOK
  <2> HIDE DEF seen, k, q
  <2>3. /\ q \in Pagers /\ q.done = p.done /\ q.error = p.error /\ q.kind = p.kind
        /\ q.limit = p.limit /\ q.cursor = p.cursor /\ ~q.first
        /\ q.offset = p.offset /\ q.page = p.page /\ q.started = k
        /\ q.truncated = p.truncated
    BY <1>0, <2>1, <2>2 DEF Pagers
  <2>4. PagerOK(q) /\ ~Pages!Over(q)
    BY <1>0, <1>5, <2>2, <2>3, CursorsDiffer DEF PagerOK, Pages!Over, ByCursor, k
  <2> QED BY <2>2, <2>3, <2>4 DEF q, k
<1> HIDE DEF q
<1> QED BY <1>1, <1>3, <1>4, <1>5 DEF q

LEMMA AdvanceIs ==
    ASSUME NEW p, PagerOK(p), ByCursor(p), ~Pages!Over(p), ~p.first, p.cursor \in PageCursors,
           NEW next \in PageCursors \cup {Pages!End}
    PROVE  LET q == Pages!Advance(p, next) IN
           /\ PagerOK(q) /\ q.kind = p.kind /\ q.started = p.started
           /\ \A n \in Nat :
                 /\ n <= p_total
                 /\ next = Pages!End => n = p_total
                 /\ next # Pages!End /\ next \notin p.seen => next[1] = n
                 => PagerAt(q, n)
<1> DEFINE q == Pages!Advance(p, next)
<1>0. /\ ~p.done /\ p.error = "none" /\ p \in Pagers
      /\ p.kind # "offset" /\ p.kind # "numbered" /\ p.started <= MaxPages /\ ~p.truncated
  BY DEF PagerOK, Pages!Over, ByCursor
<1>1. CASE next = Pages!End
  <2>1. q = [p EXCEPT !.cursor = Pages!End, !.done = TRUE]
    BY <1>1 DEF Pages!Advance
  <2>2. /\ q \in Pagers /\ q.done /\ q.error = p.error /\ q.kind = p.kind
        /\ q.limit = p.limit /\ q.cursor = Pages!End /\ q.first = p.first
        /\ q.offset = p.offset /\ q.page = p.page /\ q.started = p.started
        /\ q.truncated = p.truncated
    BY <1>0, <2>1, EndedIs
  <2> HIDE DEF q
  <2>3. PagerOK(q)
    BY <1>0, <2>2 DEF PagerOK, ByCursor
  <2>4. ASSUME NEW n \in Nat, n <= p_total, n = p_total PROVE PagerAt(q, n)
    BY <1>0, <2>2, <2>4 DEF PagerAt, ByCursor
  <2> QED BY <1>1, <2>2, <2>3, <2>4 DEF q
<1>2. CASE next # Pages!End /\ next \in p.seen
  <2>1. q = Pages!Fails(p, "cycle")
    BY <1>2 DEF Pages!Advance
  <2>2. /\ q \in Pagers /\ q.done = p.done /\ q.error = "cycle" /\ q.kind = p.kind
        /\ q.cursor = p.cursor /\ q.first = p.first /\ q.started = p.started
        /\ q.truncated = p.truncated
    BY <1>0, <2>1, FailsIs
  <2> HIDE DEF q
  <2>3. PagerOK(q)
    BY <1>0, <2>2 DEF PagerOK, ByCursor
  <2>4. ASSUME NEW n \in Nat, n <= p_total PROVE PagerAt(q, n)
    BY <1>0, <2>2, <2>4 DEF PagerAt, ByCursor
  <2> QED BY <1>2, <2>2, <2>3, <2>4 DEF q
<1>3. CASE next # Pages!End /\ next \notin p.seen
  <2>1. q = [p EXCEPT !.cursor = next]
    BY <1>3 DEF Pages!Advance
  <2>2. /\ q \in Pagers /\ q.done = p.done /\ q.error = p.error /\ q.kind = p.kind
        /\ q.cursor = next /\ q.first = p.first /\ q.started = p.started
        /\ q.truncated = p.truncated
    BY <1>0, <2>1, MovedIs
  <2> HIDE DEF q
  <2>3. PagerOK(q)
    BY <1>0, <1>3, <2>2 DEF PagerOK, ByCursor
  <2>4. ASSUME NEW n \in Nat, n <= p_total, next[1] = n PROVE PagerAt(q, n)
    BY <1>0, <1>3, <2>2, <2>4 DEF PagerAt, ByCursor
  <2> QED BY <1>3, <2>2, <2>3, <2>4 DEF q
<1> HIDE DEF q
<1> QED BY <1>1, <1>2, <1>3 DEF q

-----------------------------------------------------------------------------
(* The outcomes of next_page: where the pager was after n items, it is after n + m of them
   when it has returned the m that follow. *)

Follows(p, q, items, sent) ==
    /\ PagerOK(q) /\ q.kind = p.kind
    /\ p.kind # "offset" => q.started = IF sent THEN p.started + 1 ELSE p.started
    /\ items \in Seq(Nat)
    /\ \A n \in Nat :
         PagerAt(p, n) => \E m \in Nat : items = Run(n, m) /\ PagerAt(q, n + m)

LEMMA EmptyRun ==
    /\ <<>> \in Seq(Nat)
    /\ \A n \in Nat : <<>> = Run(n, 0) /\ n + 0 = n
  BY DEF Run

LEMMA StaysAt ==
    ASSUME NEW p, NEW q, NEW sent \in BOOLEAN, PagerOK(q), q.kind = p.kind,
           p.kind # "offset" => q.started = IF sent THEN p.started + 1 ELSE p.started,
           \A n \in Nat : PagerAt(p, n) => PagerAt(q, n)
    PROVE  Follows(p, q, <<>>, sent)
<1>1. ASSUME NEW n \in Nat, PagerAt(p, n)
      PROVE  \E m \in Nat : <<>> = Run(n, m) /\ PagerAt(q, n + m)
  <2>1. <<>> = Run(n, 0) /\ PagerAt(q, n + 0)
    BY <1>1, EmptyRun
  <2> QED BY <2>1
<1> QED BY <1>1, EmptyRun DEF Follows

(* A failed request leaves the pager where it was. *)
LEMMA FetchFailed ==
    ASSUME NEW p, PagerOK(p), ~p.done, p.error = "none"
    PROVE  LET q == Pages!Fails(p, "fetch") IN
           /\ PagerOK(q) /\ q.kind = p.kind /\ q.started = p.started
           /\ \A n \in Nat : PagerAt(p, n) => PagerAt(q, n)
<1> DEFINE q == Pages!Fails(p, "fetch")
<1>1. /\ q \in Pagers /\ q.error = "fetch" /\ q.kind = p.kind /\ q.limit = p.limit
      /\ q.cursor = p.cursor /\ q.first = p.first /\ q.offset = p.offset /\ q.page = p.page
      /\ q.started = p.started /\ q.truncated = p.truncated /\ q.done = p.done
  BY FailsIs DEF PagerOK
<1> HIDE DEF q
<1>2. PagerOK(q)
  BY <1>1 DEF PagerOK, ByCursor
<1>3. ASSUME NEW n \in Nat, PagerAt(p, n) PROVE PagerAt(q, n)
  BY <1>1, <1>3 DEF PagerAt, ByCursor
<1> QED BY <1>1, <1>2, <1>3 DEF q

LEMMA CursorPage ==
    ASSUME NEW p, PagerOK(p), ByCursor(p), ~Pages!Over(p), p_total \in Nat,
           NEW o \in Pages!NextCursorPage(p)
    PROVE  Follows(p, o.pager, o.items, o.sent)
<1> DEFINE q == Pages!BeginPage(p)
           n == p.cursor[1]
<1>1. /\ PagerOK(q) /\ q.kind = p.kind /\ q.limit = p.limit /\ q.cursor = p.cursor /\ ByCursor(q)
      /\ Pages!Over(q) => /\ q.started = p.started
                          /\ \A k \in Nat : PagerAt(p, k) => PagerAt(q, k)
      /\ ~Pages!Over(q) => /\ q.started = p.started + 1 /\ ~q.first
                           /\ q.cursor \in PageCursors
  BY BeginPageIs DEF ByCursor
<1>2. /\ p \in Pagers /\ p.limit \in Nat \ {0} /\ q.seen \subseteq PageCursors
      /\ p.kind # "offset" /\ ~p.done /\ p.error = "none"
  BY <1>1, PagerFields DEF PagerOK, Pages!Over, ByCursor
<1> HIDE DEF q
<1>3. CASE Pages!Over(q)
  <2>1. o = Pages!Outcome(q, <<>>, FALSE, FALSE)
    BY <1>3 DEF Pages!NextCursorPage, Pages!Over, q
  <2>2. o.pager = q /\ o.items = <<>> /\ o.sent = FALSE
    BY <2>1 DEF Pages!Outcome
  <2> QED BY <1>1, <1>3, <2>2, StaysAt
<1>4. CASE ~Pages!Over(q)
  <2>1. n \in Nat /\ p.cursor[2] + 1 \in Nat /\ <<n, p.cursor[2] + 1>> \in PageCursors
    BY <1>1, <1>4, CursorsDiffer
  <2>2. \A k \in Nat : PagerAt(p, k) => k = n /\ n <= p_total
    BY <1>1, <1>2, <1>4, CursorsDiffer DEF PagerAt
  <2> HIDE DEF n
  <2>3. PICK m \in Nat :
          /\ Pages!ItemsAfter(n, p.limit) = Run(n, m) /\ m <= p.limit
          /\ n <= p_total => /\ n + m <= p_total
                             /\ IF n + p.limit >= p_total
                                THEN Pages!NextAfter(n, p.limit) = Pages!End /\ n + m = p_total
                                ELSE Pages!NextAfter(n, p.limit) = <<n + m, 0>>
    BY <1>2, <2>1, ItemsAre
  <2>4. ASSUME NEW next \in PageCursors \cup {Pages!End},
               n <= p_total => /\ next = Pages!End => n + m = p_total
                               /\ next # Pages!End /\ next \notin q.seen => next[1] = n + m,
               o.pager = Pages!Advance(q, next), o.items = Run(n, m), o.sent = TRUE
        PROVE  Follows(p, o.pager, o.items, o.sent)
    <3>1. o.pager.started = q.started /\ PagerOK(o.pager) /\ o.pager.kind = p.kind
      BY <1>1, <1>4, <2>4, AdvanceIs
    <3>2. ASSUME NEW k \in Nat, PagerAt(p, k) PROVE o.items = Run(k, m) /\ PagerAt(o.pager, k + m)
      BY <1>1, <1>4, <2>2, <2>3, <2>4, <3>2, AdvanceIs
    <3>3. o.items \in Seq(Nat)
      BY <2>1, <2>4, RunIs
    <3> QED BY <1>1, <1>4, <2>4, <3>1, <3>2, <3>3 DEF Follows
  <2>5. CASE o = Pages!Outcome(Pages!Advance(q, Pages!NextAfter(n, p.limit)),
                               Pages!ItemsAfter(n, p.limit), TRUE, FALSE)
    <3>1. /\ o.pager = Pages!Advance(q, Pages!NextAfter(n, p.limit)) /\ o.items = Run(n, m)
          /\ o.sent = TRUE
      BY <2>3, <2>5 DEF Pages!Outcome
    <3>2. Pages!NextAfter(n, p.limit) \in PageCursors \cup {Pages!End}
      BY <1>2, <2>1, CursorsDiffer DEF Pages!NextAfter
    <3>3. n <= p_total /\ Pages!NextAfter(n, p.limit) # Pages!End =>
            Pages!NextAfter(n, p.limit)[1] = n + m
      BY <2>1, <2>3, CursorsDiffer
    <3>4. n <= p_total /\ Pages!NextAfter(n, p.limit) = Pages!End => n + m = p_total
      BY <2>1, <2>3, CursorsDiffer
    <3> QED BY <2>4, <3>1, <3>2, <3>3, <3>4
  <2>6. CASE o = Pages!Outcome(Pages!Advance(q, <<n, p.cursor[2] + 1>>), <<>>, TRUE, TRUE)
    <3> DEFINE next == <<n, p.cursor[2] + 1>>
    <3>1. o.pager = Pages!Advance(q, next) /\ o.items = <<>> /\ o.sent = TRUE
      BY <2>6 DEF Pages!Outcome
    <3>2. next \in PageCursors /\ next[1] = n /\ next # Pages!End
      BY <2>1, CursorsDiffer
    <3> HIDE DEF next
    <3>3. o.pager.started = q.started /\ PagerOK(o.pager) /\ o.pager.kind = p.kind
      BY <1>1, <1>4, <3>1, <3>2, AdvanceIs
    <3>4. ASSUME NEW k \in Nat, PagerAt(p, k) PROVE PagerAt(o.pager, k)
      BY <1>1, <1>4, <2>2, <3>1, <3>2, <3>4, AdvanceIs
    <3> QED BY <1>1, <1>4, <3>1, <3>3, <3>4, StaysAt
  <2>7. CASE o = Pages!Outcome(Pages!Fails(q, "fetch"), <<>>, TRUE, TRUE)
    <3>1. o.pager = Pages!Fails(q, "fetch") /\ o.items = <<>> /\ o.sent = TRUE
      BY <2>7 DEF Pages!Outcome
    <3>2. /\ PagerOK(o.pager) /\ o.pager.kind = p.kind /\ o.pager.started = p.started + 1
          /\ \A k \in Nat : PagerAt(q, k) => PagerAt(o.pager, k)
      BY <1>1, <1>4, <3>1, FetchFailed DEF Pages!Over
    <3>3. ASSUME NEW k \in Nat, PagerAt(p, k) PROVE PagerAt(q, k)
      BY <1>1, <1>2, <1>4, <3>3 DEF PagerAt, ByCursor, Pages!Over
    <3> QED BY <3>1, <3>2, <3>3, StaysAt
  <2>8. ASSUME NEW c \in q.seen,
               o = Pages!Outcome(Pages!Advance(q, c), Pages!ItemsAfter(n, p.limit), TRUE, TRUE)
        PROVE  Follows(p, o.pager, o.items, o.sent)
    <3>1. /\ o.pager = Pages!Advance(q, c) /\ o.items = Run(n, m) /\ o.sent = TRUE
      BY <2>3, <2>8 DEF Pages!Outcome
    <3>2. c \in PageCursors /\ c # Pages!End
      BY <1>2, <2>8, CursorsDiffer
    <3> QED BY <2>4, <2>8, <3>1, <3>2
  <2> QED BY <1>4, <2>5, <2>6, <2>7, <2>8 DEF Pages!NextCursorPage, Pages!Over, q, n
<1> QED BY <1>3, <1>4

LEMMA OffsetPageFollows ==
    ASSUME NEW p, PagerOK(p), p.kind = "offset", ~Pages!Over(p), p_total \in Nat,
           NEW o \in Pages!NextOffsetPage(p)
    PROVE  Follows(p, o.pager, o.items, o.sent)
<1> DEFINE n == p.offset
<1>1. /\ p \in Pagers /\ n \in Nat /\ p.limit \in Nat \ {0} /\ ~p.done /\ p.error = "none"
      /\ MaxOffset \in Nat /\ n <= MaxOffset /\ ~p.first
  BY PagerFields, PagesAssumption DEF PagerOK, Pages!Over
<1> HIDE DEF n
<1>2. PICK m \in Nat :
        /\ Pages!ItemsAfter(n, p.limit) = Run(n, m) /\ m <= p.limit
        /\ n <= p_total => /\ n + m <= p_total
                           /\ m < p.limit => n + m = p_total
  BY <1>1, ItemsAre
<1>3. Run(n, m) \in Seq(Nat) /\ Len(Run(n, m)) = m
  BY <1>1, RunIs
<1>4. CASE o = Pages!Outcome(Pages!OffsetPage(p, Run(n, m)), Run(n, m), TRUE, FALSE)
  <2> DEFINE q == Pages!OffsetPage(p, Run(n, m))
             capped == m = p.limit /\ MaxOffset - n < p.limit
             over == m < p.limit \/ capped
             k == n + m
  <2>1. o.pager = q /\ o.items = Run(n, m) /\ o.sent = TRUE
    BY <1>4 DEF Pages!Outcome
  <2>2. q = [p EXCEPT !.offset = k, !.done = over, !.truncated = capped]
    BY <1>3 DEF Pages!OffsetPage, n
  <2>3. k \in Nat /\ over \in BOOLEAN /\ capped \in BOOLEAN
    BY <1>1
  <2>4. (capped => over /\ k > MaxOffset) /\ (~over => k <= MaxOffset)
    BY <1>1, <1>2
  <2>5. over /\ ~capped => m < p.limit
    BY <1>1, <1>2
  <2> HIDE DEF q, capped, over, k
  <2>6. /\ q \in Pagers /\ q.error = "none" /\ q.kind = "offset" /\ q.first = p.first
        /\ q.offset = k /\ q.done = over /\ q.truncated = capped
    BY <1>1, <2>2, <2>3 DEF Pagers
  <2>7. PagerOK(q)
    BY <1>1, <2>4, <2>6 DEF PagerOK
  <2>8. ASSUME NEW j \in Nat, PagerAt(p, j) PROVE Run(n, m) = Run(j, m) /\ PagerAt(q, j + m)
    <3>1. j = n /\ n <= p_total
      BY <2>8 DEF PagerAt, n
    <3> QED BY <1>2, <2>5, <2>6, <3>1 DEF PagerAt, ByCursor, k
  <2> QED BY <1>3, <2>1, <2>6, <2>7, <2>8 DEF Follows
<1>5. CASE o = Pages!Outcome(Pages!Fails(p, "fetch"), <<>>, TRUE, TRUE)
  <2>1. o.pager = Pages!Fails(p, "fetch") /\ o.items = <<>> /\ o.sent = TRUE
    BY <1>5 DEF Pages!Outcome
  <2>2. /\ PagerOK(o.pager) /\ o.pager.kind = p.kind
        /\ \A k \in Nat : PagerAt(p, k) => PagerAt(o.pager, k)
    BY <1>1, <2>1, FetchFailed
  <2> QED BY <2>1, <2>2, StaysAt
<1> QED BY <1>2, <1>4, <1>5 DEF Pages!NextOffsetPage, n

LEMMA NumberedPageFollows ==
    ASSUME NEW p, PagerOK(p), p.kind = "numbered", ~Pages!Over(p), p_total \in Nat,
           NEW o \in Pages!NextNumberedPage(p)
    PROVE  Follows(p, o.pager, o.items, o.sent)
<1> DEFINE n == (p.page - 1) * p.limit
           k == p.started + 1
           q == [p EXCEPT !.started = p.started + 1]
<1>1. /\ p \in Pagers /\ p.limit \in Nat \ {0} /\ ~p.done /\ p.error = "none"
           /\ p.page \in Nat \ {0}
      /\ MaxPages \in Nat /\ ~p.first /\ p.started \in Nat /\ k \in Nat /\ ~p.truncated
      /\ p.started <= MaxPages
  BY PagerFields, PagesAssumption DEF PagerOK, Pages!Over
<1>2. n \in Nat /\ ((p.page + 1) - 1) * p.limit = n + p.limit /\ p.page + 1 \in Nat \ {0}
  <2>1. PICK j \in Nat : p.page = j + 1
    BY <1>1
  <2>2. p.page - 1 = j /\ (p.page + 1) - 1 = j + 1
    BY <2>1
  <2>3. j * p.limit \in Nat /\ (j + 1) * p.limit = j * p.limit + p.limit
    BY <1>1
  <2> QED BY <1>1, <2>2, <2>3
<1>3. ASSUME NEW j \in Nat, PagerAt(p, j) PROVE j = n /\ n <= p_total
  BY <1>1, <1>3 DEF PagerAt
<1>4. CASE p.started >= MaxPages
  <2>1. o = Pages!Outcome(Pages!Fails(p, "pages"), <<>>, FALSE, FALSE)
    BY <1>4 DEF Pages!NextNumberedPage
  <2>2. o.pager = Pages!Fails(p, "pages") /\ o.items = <<>> /\ o.sent = FALSE
    BY <2>1 DEF Pages!Outcome
  <2> DEFINE r == o.pager
  <2>3. /\ r \in Pagers /\ r.error = "pages" /\ r.kind = p.kind /\ r.limit = p.limit
        /\ r.first = p.first /\ r.page = p.page
        /\ r.started = p.started /\ r.truncated = p.truncated /\ r.done = p.done
    BY <1>1, <2>2, FailsIs
  <2> HIDE DEF r
  <2>4. PagerOK(r)
    BY <1>1, <2>3 DEF PagerOK
  <2>5. ASSUME NEW j \in Nat, PagerAt(p, j) PROVE PagerAt(r, j)
    BY <1>1, <2>3, <2>5 DEF PagerAt, ByCursor
  <2> QED BY <1>1, <2>2, <2>3, <2>4, <2>5, StaysAt DEF r
<1>5. CASE ~(p.started >= MaxPages)
  <2>1. k <= MaxPages
    BY <1>1, <1>5
  <2>2. PICK m \in Nat :
          /\ Pages!ItemsAfter(n, p.limit) = Run(n, m) /\ m <= p.limit
          /\ n <= p_total => /\ n + m <= p_total
                             /\ IF n + p.limit >= p_total
                                THEN Pages!NextAfter(n, p.limit) = Pages!End /\ n + m = p_total
                                ELSE Pages!NextAfter(n, p.limit) = <<n + m, 0>> /\ m = p.limit
    <3>1. n \in Nat /\ p.limit \in Nat \ {0}
      BY <1>1, <1>2
    <3> HIDE DEF n
    <3> QED BY <3>1, ItemsAre
  <2> DEFINE over == Pages!NextAfter(n, p.limit) = Pages!End
  <2>3. CASE o = Pages!Outcome([q EXCEPT !.page = @ + 1, !.done = over],
                               Pages!ItemsAfter(n, p.limit), TRUE, FALSE)
    <3> DEFINE r == [q EXCEPT !.page = q.page + 1, !.done = over]
               g == p.page + 1
    <3>1. o.pager = r /\ o.items = Run(n, m) /\ o.sent = TRUE
      BY <2>2, <2>3 DEF Pages!Outcome
    <3>2. q.page = p.page
      BY <1>1 DEF Pagers
    <3>3. r = [p EXCEPT !.started = k, !.page = g, !.done = over]
      BY <1>1, <3>2 DEF Pagers
    <3>4. over \in BOOLEAN /\ g \in Nat \ {0} /\ (g - 1) * p.limit = n + p.limit
      BY <1>2
    <3>5. n <= p_total => IF over THEN n + m = p_total ELSE m = p.limit
      BY <1>2, <2>2, CursorsDiffer
    <3> HIDE DEF r, g, k, n, over
    <3>6. /\ r \in Pagers /\ r.error = "none" /\ r.kind = "numbered" /\ r.first = p.first
          /\ r.page = g /\ r.done = over /\ r.truncated = p.truncated /\ r.started = k
          /\ r.limit = p.limit
      BY <1>1, <3>3, <3>4 DEF Pagers
    <3>7. PagerOK(r)
      BY <1>1, <2>1, <3>6 DEF PagerOK
    <3>8. ASSUME NEW j \in Nat, PagerAt(p, j) PROVE Run(n, m) = Run(j, m) /\ PagerAt(r, j + m)
      <4>1. j = n /\ n <= p_total
        BY <1>3, <3>8
      <4>2. n + m <= p_total /\ IF r.done THEN n + m = p_total ELSE (r.page - 1) * r.limit = n + m
        BY <2>2, <3>4, <3>5, <3>6, <4>1
      <4> QED BY <3>6, <4>1, <4>2 DEF PagerAt, ByCursor
    <3>9. Run(n, m) \in Seq(Nat)
      BY <1>2, RunIs
    <3>10. Follows(p, r, Run(n, m), TRUE)
      BY <3>6, <3>7, <3>8, <3>9 DEF Follows, k
    <3> QED BY <3>1, <3>10
  <2>4. CASE o = Pages!Outcome(Pages!Fails(q, "fetch"), <<>>, TRUE, TRUE)
    <3>1. o.pager = Pages!Fails(q, "fetch") /\ o.items = <<>> /\ o.sent = TRUE
      BY <2>4 DEF Pages!Outcome
    <3>2. q = [p EXCEPT !.started = k]
      OBVIOUS
    <3> HIDE DEF q, k
    <3>3. /\ q \in Pagers /\ q.error = "none" /\ q.kind = "numbered" /\ q.first = p.first
          /\ q.page = p.page /\ q.done = p.done /\ q.truncated = p.truncated /\ q.started = k
          /\ q.limit = p.limit
      BY <1>1, <3>2 DEF Pagers
    <3>4. PagerOK(q) /\ ~q.done /\ \A j \in Nat : PagerAt(p, j) => PagerAt(q, j)
      BY <1>1, <2>1, <3>3 DEF PagerOK, PagerAt, ByCursor
    <3>5. /\ PagerOK(o.pager) /\ o.pager.kind = p.kind /\ o.pager.started = k
          /\ \A j \in Nat : PagerAt(q, j) => PagerAt(o.pager, j)
      BY <3>1, <3>3, <3>4, FetchFailed
    <3> QED BY <3>1, <3>4, <3>5, StaysAt DEF k
  <2> QED BY <1>5, <2>3, <2>4 DEF Pages!NextNumberedPage
<1> QED BY <1>4, <1>5

LEMMA PageFollows ==
    ASSUME NEW p, PagerOK(p), ~Pages!Over(p), p_total \in Nat, NEW o \in Pages!NextPage(p)
    PROVE  Follows(p, o.pager, o.items, o.sent)
<1>1. CASE p.kind = "offset"
  BY <1>1, OffsetPageFollows DEF Pages!NextPage
<1>2. CASE p.kind = "numbered"
  BY <1>2, NumberedPageFollows DEF Pages!NextPage
<1>3. CASE p.kind \notin {"offset", "numbered"}
  <2>1. o \in Pages!NextCursorPage(p)
    BY <1>3 DEF Pages!NextPage
  <2>2. ByCursor(p)
    BY <1>3, PagerFields DEF PagerOK, ByCursor
  <2> QED BY <2>1, <2>2, CursorPage
<1> QED BY <1>1, <1>2, <1>3

-----------------------------------------------------------------------------
(* The steps of the caller. *)

(* The items of a page go behind those that were read before it. *)
LEMMA PulledPage ==
    ASSUME PagesInv, ~Pages!Over(p_pager), NEW o \in Pages!NextPage(p_pager),
           p_pager' = o.pager, UNCHANGED <<p_total, p_looped>>,
           p_requests' = IF o.sent /\ p_requests <= MaxPages THEN p_requests + 1 ELSE p_requests,
           p_got' \o p_buffer' = (p_got \o p_buffer) \o o.items,
           p_got' \in Seq(Nat), p_buffer' \in Seq(Nat), p_iterates' \/ p_buffer' = <<>>
    PROVE  PagesInv'
<1> DEFINE n == ReadSoFar
<1>1. Follows(p_pager, o.pager, o.items, o.sent)
  BY PageFollows DEF PagesInv
<1>2. PagerOK(p_pager') /\ p_pager'.kind = p_pager.kind /\ o.items \in Seq(Nat)
  BY <1>1 DEF Follows
<1>3. /\ p_pager \in Pagers /\ p_pager.started \in Nat /\ p_requests \in Nat /\ MaxPages \in Nat
      /\ p_pager.kind # "offset" => p_requests <= p_pager.started
  BY PagerFields, PagesAssumption DEF PagesInv, PagerOK
<1>4. p_requests' \in Nat
  BY <1>3
<1>5. p_pager'.kind # "offset" => p_requests' <= p_pager'.started
  BY <1>1, <1>2, <1>3 DEF Follows
<1>6. p_looped' => ByCursor(p_pager')
  BY <1>2 DEF PagesInv, ByCursor
<1>7. ASSUME ~p_looped PROVE (p_got \o p_buffer = UpTo(ReadSoFar) /\ PagerAt(p_pager, ReadSoFar))'
  <2>1. n \in Nat /\ p_got \o p_buffer = Run(0, n) /\ PagerAt(p_pager, n)
    BY <1>7, LenProperties DEF PagesInv, ReadSoFar, UpTo, Run
  <2> HIDE DEF n
  <2>2. PICK m \in Nat : o.items = Run(n, m) /\ PagerAt(o.pager, n + m)
    BY <1>1, <2>1 DEF Follows
  <2>3. p_got' \o p_buffer' = Run(0, n + m)
    BY <2>1, <2>2, RunGoesOn
  <2>4. Len(p_got' \o p_buffer') = n + m
    <3>1. 0 \in Nat /\ n + m \in Nat
      BY <2>1, <2>2
    <3>2. Len(Run(0, n + m)) = n + m
      BY <3>1, RunIs
    <3> QED BY <2>3, <3>2
  <2>5. Len(p_got' \o p_buffer') = ReadSoFar'
    BY ConcatProperties DEF ReadSoFar
  <2>6. PagerAt(p_pager, ReadSoFar)'
    BY <2>2, <2>4, <2>5 DEF PagerAt
  <2>7. Run(0, n + m) = UpTo(n + m)
    BY <2>1, <2>2 DEF Run, UpTo
  <2>8. UpTo(ReadSoFar)' = UpTo(n + m)
    BY <2>4, <2>5 DEF UpTo
  <2> QED BY <2>3, <2>6, <2>7, <2>8
<1> QED BY <1>2, <1>4, <1>5, <1>6, <1>7 DEF PagesInv

LEMMA PagesPage == ASSUME PagesInv, Pages!Page PROVE PagesInv'
<1>1. PICK o \in Pages!NextPage(p_pager) :
        /\ ~Pages!Over(p_pager) /\ p_pager' = o.pager /\ p_got' = p_got \o o.items
        /\ p_requests' = IF o.sent /\ p_requests <= MaxPages THEN p_requests + 1 ELSE p_requests
        /\ UNCHANGED <<p_total, p_buffer, p_looped>> /\ ~p_iterates
  BY DEF Pages!Page, Pages!Pull
<1>2. o.items \in Seq(Nat) /\ p_got \in Seq(Nat) /\ p_buffer = <<>> /\ p_got' \in Seq(Nat)
  BY <1>1, PageFollows DEF PagesInv, Follows
<1>3. p_got \o p_buffer = p_got /\ p_got' \o p_buffer' = p_got'
  BY <1>1, <1>2, ConcatEmptySeq
<1>4. <<>> \in Seq(Nat)
  OBVIOUS
<1> QED BY <1>1, <1>2, <1>3, <1>4, PulledPage

LEMMA PagesFill == ASSUME PagesInv, Pages!FillBuffer PROVE PagesInv'
<1>1. PICK o \in Pages!NextPage(p_pager) :
        /\ ~Pages!Over(p_pager) /\ p_pager' = o.pager /\ p_buffer' = o.items
        /\ p_requests' = IF o.sent /\ p_requests <= MaxPages THEN p_requests + 1 ELSE p_requests
        /\ UNCHANGED <<p_total, p_got, p_looped, p_iterates>> /\ p_iterates /\ p_buffer = <<>>
  BY DEF Pages!FillBuffer, Pages!Pull
<1>2. o.items \in Seq(Nat) /\ p_got \in Seq(Nat)
  BY <1>1, PageFollows DEF PagesInv, Follows
<1>3. p_got \o p_buffer = p_got
  BY <1>1, <1>2, ConcatEmptySeq
<1> QED BY <1>1, <1>2, <1>3, PulledPage

(* An item that is consumed moves from the buffer to what the caller has had. *)
LEMMA HeadMoves ==
    ASSUME NEW s \in Seq(Nat), NEW t \in Seq(Nat), t # <<>>
    PROVE  /\ Append(s, Head(t)) \in Seq(Nat) /\ Tail(t) \in Seq(Nat)
           /\ Append(s, Head(t)) \o Tail(t) = s \o t
           /\ Len(Append(s, Head(t))) + Len(Tail(t)) = Len(s) + Len(t)
<1>1. Head(t) \in Nat /\ Tail(t) \in Seq(Nat) /\ <<Head(t)>> \in Seq(Nat)
  BY HeadTailProperties
<1>2. Append(s, Head(t)) = s \o <<Head(t)>>
  BY <1>1, AppendIsConcat
<1>3. (s \o <<Head(t)>>) \o Tail(t) = s \o (<<Head(t)>> \o Tail(t))
  BY <1>1, ConcatAssociative, SMTT(30)
<1>4. <<Head(t)>> \o Tail(t) = t
  BY ConcatSimplifications
<1>5. Append(s, Head(t)) \in Seq(Nat)
  BY <1>1
<1>6. Len(Append(s, Head(t))) + Len(Tail(t)) = Len(s) + Len(t)
  BY <1>1, HeadTailProperties, AppendProperties
<1> QED BY <1>1, <1>2, <1>3, <1>4, <1>5, <1>6

LEMMA PagesConsume == ASSUME PagesInv, Pages!Consume PROVE PagesInv'
<1>1. /\ p_buffer # <<>> /\ p_got' = Append(p_got, Head(p_buffer)) /\ p_buffer' = Tail(p_buffer)
      /\ UNCHANGED <<p_total, p_pager, p_requests, p_looped, p_iterates>> /\ p_iterates
  BY DEF Pages!Consume
<1>2. /\ p_got' \in Seq(Nat) /\ p_buffer' \in Seq(Nat) /\ p_got' \o p_buffer' = p_got \o p_buffer
      /\ ReadSoFar' = ReadSoFar
  BY <1>1, HeadMoves DEF PagesInv, ReadSoFar
<1> QED BY <1>1, <1>2 DEF PagesInv, PagerAt, UpTo

LEMMA PagesSafe ==
    ASSUME PagesInv PROVE Pages!ItemsInOrder /\ Pages!CompleteOrTold /\ Pages!RequestsBounded
<1>1. Pages!ItemsInOrder
  BY DEF PagesInv, Pages!ItemsInOrder, UpTo, ReadSoFar
<1>2. Pages!RequestsBounded
  <2>1. p_pager.started \in Nat /\ MaxPages \in Nat /\ p_requests \in Nat
    BY PagerFields, PagesAssumption DEF PagesInv, PagerOK
  <2> QED BY <2>1 DEF PagesInv, PagerOK, Pages!RequestsBounded
<1>3. Pages!CompleteOrTold
  <2> SUFFICES ASSUME p_pager.done, ~p_looped, p_buffer = <<>>
               PROVE  IF p_pager.truncated
                      THEN Len(p_got) > MaxOffset - p_pager.limit /\ Len(p_got) > 0
                      ELSE Len(p_got) = p_total
    BY DEF Pages!CompleteOrTold
  <2>1. Len(p_got) \in Nat /\ ReadSoFar = Len(p_got)
    BY DEF PagesInv, ReadSoFar
  <2>2. PagerOK(p_pager) /\ PagerAt(p_pager, Len(p_got))
    BY <2>1 DEF PagesInv
  <2>3. /\ p_pager.limit \in Nat \ {0} /\ MaxOffset \in Nat /\ p_pager.offset \in Nat
        /\ p_pager.kind \in {"cursor", "keyset", "offset", "numbered"}
    BY <2>2, PagerFields, PagesAssumption DEF PagerOK
  <2> QED BY <2>1, <2>2, <2>3 DEF PagerOK, PagerAt, ByCursor
<1> QED BY <1>1, <1>2, <1>3

(* A paginator made from a token. *)
LEMMA ResumedIs ==
    ASSUME NEW kind \in {"cursor", "keyset", "offset", "numbered"}, NEW t,
           t.limit \in Nat \ {0}, t.cursor \in PageCursors \cup {Pages!End}, t.offset \in Nat,
           t.page \in Nat, t.absent \in BOOLEAN, t.exhausted \in BOOLEAN,
           t.cursor = Pages!End => t.absent, NEW q, q = Pages!Resumed(kind, t)
    PROVE  /\ PagerOK(q) /\ q.kind = kind /\ q.limit = t.limit /\ q.offset = t.offset
           /\ q.error = "none" /\ q.started = 0
           /\ q.cursor = (IF kind = "keyset" /\ t.absent THEN Pages!Start ELSE t.cursor)
           /\ q.page = (IF t.page = 0 THEN 1 ELSE t.page)
           /\ q.truncated <=> kind = "offset" /\ t.offset > MaxOffset
           /\ q.done <=> \/ kind \in {"keyset", "numbered"} /\ t.exhausted
                         \/ kind = "offset" /\ t.offset > MaxOffset
<1> DEFINE cursor == IF kind = "keyset" /\ t.absent THEN Pages!Start ELSE t.cursor
           page == IF t.page = 0 THEN 1 ELSE t.page
           first == kind = "keyset" /\ t.absent
           cut == kind = "offset" /\ t.offset > MaxOffset
           over == (kind \in {"keyset", "numbered"} /\ t.exhausted) \/ cut
<1>1. q = [kind |-> kind, limit |-> t.limit, cursor |-> cursor, first |-> first,
           offset |-> t.offset, page |-> page, started |-> 0, seen |-> {}, error |-> "none",
           truncated |-> cut, done |-> over]
  BY DEF Pages!Resumed
<1>2. /\ cursor \in PageCursors \cup {Pages!End} /\ page \in Nat \ {0} /\ first \in BOOLEAN
      /\ cut \in BOOLEAN /\ over \in BOOLEAN
  BY CursorsDiffer
<1>3. /\ first => kind = "keyset" /\ cursor = Pages!Start
      /\ kind = "keyset" => cursor # Pages!End
      /\ kind = "offset" => (over <=> cut) /\ (cut <=> t.offset > MaxOffset)
      /\ kind # "offset" => ~cut
      /\ kind = "cursor" => ~over
  BY CursorsDiffer
<1> HIDE DEF cursor, page, first, cut, over
<1>4. /\ q.kind = kind /\ q.limit = t.limit /\ q.cursor = cursor /\ q.first = first
      /\ q.offset = t.offset /\ q.page = page /\ q.started = 0 /\ q.error = "none"
      /\ q.truncated <=> cut
      /\ q.done <=> over
  BY <1>1, <1>2
<1>5. q \in Pagers
  <2>1. 0 \in Nat /\ {} \in SUBSET PageCursors
    OBVIOUS
  <2> QED BY <1>1, <1>2, <2>1 DEF Pagers
<1>6. MaxOffset \in Nat /\ MaxPages \in Nat /\ 0 <= MaxPages
  BY PagesAssumption
<1>7. PagerOK(q)
  BY <1>3, <1>4, <1>5, <1>6 DEF PagerOK
<1> QED BY <1>4, <1>7 DEF cursor, page, first, cut, over

LEMMA PagesResume == ASSUME PagesInv, Pages!Resume PROVE PagesInv'
<1> DEFINE p == p_pager
           t == Pages!Token(p)
           q == Pages!Resumed(p.kind, t)
<1>1. /\ p_pager' = q /\ p_buffer = <<>> /\ p_requests' = 0
      /\ p_looped' = (p_looped \/ p.error = "cycle")
      /\ UNCHANGED <<p_total, p_buffer, p_got, p_iterates>>
  BY DEF Pages!Resume
<1>2. /\ PagerOK(p) /\ p \in Pagers /\ p.limit \in Nat \ {0} /\ p.offset \in Nat
           /\ p.page \in Nat \ {0}
      /\ p.kind \in {"cursor", "keyset", "offset", "numbered"}
      /\ p.cursor \in PageCursors \cup {Pages!End} /\ p.done \in BOOLEAN
  BY PagerFields DEF PagesInv, PagerOK
<1>3. /\ t.limit = p.limit /\ t.cursor = p.cursor /\ t.offset = p.offset /\ t.page = p.page
      /\ t.absent = (p.first \/ p.cursor = Pages!End) /\ t.exhausted = (p.done /\ p.error = "none")
  BY DEF Pages!Token
<1>4. /\ t.absent \in BOOLEAN /\ t.exhausted \in BOOLEAN
      /\ t.absent <=> p.first \/ p.cursor = Pages!End
      /\ t.exhausted <=> p.done
  BY <1>2, <1>3 DEF PagerOK
<1> HIDE DEF t, q, p
<1>5. /\ PagerOK(q) /\ q.kind = p.kind /\ q.limit = p.limit /\ q.offset = p.offset
      /\ q.error = "none" /\ q.started = 0
      /\ q.cursor = (IF p.kind = "keyset" /\ t.absent THEN Pages!Start ELSE p.cursor)
      /\ q.page = p.page
      /\ q.truncated <=> p.kind = "offset" /\ p.offset > MaxOffset
      /\ q.done <=> \/ p.kind \in {"keyset", "numbered"} /\ p.done
                    \/ p.kind = "offset" /\ p.offset > MaxOffset
  <2>1. p.page \in Nat /\ p.page # 0
    BY <1>2
  <2>2. q = Pages!Resumed(p.kind, t)
    BY DEF q
  <2>3. /\ PagerOK(q) /\ q.kind = p.kind /\ q.limit = t.limit /\ q.offset = t.offset
        /\ q.error = "none" /\ q.started = 0
        /\ q.cursor = (IF p.kind = "keyset" /\ t.absent THEN Pages!Start ELSE t.cursor)
        /\ q.page = (IF t.page = 0 THEN 1 ELSE t.page)
        /\ q.truncated <=> p.kind = "offset" /\ t.offset > MaxOffset
        /\ q.done <=> \/ p.kind \in {"keyset", "numbered"} /\ t.exhausted
                      \/ p.kind = "offset" /\ t.offset > MaxOffset
    <3>1. /\ t.limit \in Nat \ {0} /\ t.cursor \in PageCursors \cup {Pages!End} /\ t.offset \in Nat
          /\ t.page \in Nat
      BY <1>2, <1>3, <2>1
    <3>2. t.cursor = Pages!End => t.absent
      BY <1>3, <1>4
    <3> HIDE DEF p
    <3> DEFINE kind == p.kind
    <3>3. kind \in {"cursor", "keyset", "offset", "numbered"} /\ q = Pages!Resumed(kind, t)
      BY <1>2, <2>2
    <3> HIDE DEF kind
    <3>4. /\ PagerOK(q) /\ q.kind = kind /\ q.limit = t.limit /\ q.offset = t.offset
          /\ q.error = "none" /\ q.started = 0
          /\ q.cursor = (IF kind = "keyset" /\ t.absent THEN Pages!Start ELSE t.cursor)
          /\ q.page = (IF t.page = 0 THEN 1 ELSE t.page)
          /\ q.truncated <=> kind = "offset" /\ t.offset > MaxOffset
          /\ q.done <=> \/ kind \in {"keyset", "numbered"} /\ t.exhausted
                        \/ kind = "offset" /\ t.offset > MaxOffset
      BY <1>4, <3>1, <3>2, <3>3, ResumedIs
    <3> QED BY <3>4 DEF kind
  <2> QED BY <1>3, <1>4, <2>1, <2>3
<1>6. p_looped' => ByCursor(q)
  BY <1>1, <1>5 DEF PagesInv, PagerOK, ByCursor, p
<1>7. ASSUME ~p_looped' PROVE (p_got \o p_buffer = UpTo(ReadSoFar) /\ PagerAt(p_pager, ReadSoFar))'
  <2> DEFINE n == ReadSoFar
  <2>1. ~p_looped /\ p.error # "cycle"
    BY <1>1, <1>7
  <2>2. p_got \o p_buffer = UpTo(n) /\ PagerAt(p, n)
    BY <2>1 DEF PagesInv, p
  <2>3. ReadSoFar' = n /\ p_got' \o p_buffer' = p_got \o p_buffer /\ UpTo(ReadSoFar)' = UpTo(n)
    BY <1>1 DEF ReadSoFar, UpTo
  <2> HIDE DEF n
  <2>4. PagerAt(q, n)
    <3>1. CASE p.kind = "keyset"
      BY <1>2, <1>4, <1>5, <2>1, <2>2, <3>1, CursorsDiffer DEF PagerAt, PagerOK, ByCursor
    <3>2. CASE p.kind = "cursor"
      BY <1>2, <1>4, <1>5, <2>1, <2>2, <3>2 DEF PagerAt, PagerOK, ByCursor
    <3>3. CASE p.kind = "offset"
      BY <1>2, <1>5, <2>2, <3>3 DEF PagerAt, PagerOK, ByCursor
    <3>4. CASE p.kind = "numbered"
      BY <1>2, <1>5, <2>2, <3>4 DEF PagerAt, PagerOK, ByCursor
    <3> QED BY <1>2, <3>1, <3>2, <3>3, <3>4
  <2>5. PagerAt(p_pager, ReadSoFar)'
    BY <1>1, <2>3, <2>4 DEF PagerAt
  <2> QED BY <2>2, <2>3, <2>5
<1>8. p_looped' \in BOOLEAN
  BY <1>1
<1>9. p_requests' \in Nat /\ p_requests' <= q.started
  BY <1>1, <1>5
<1> QED BY <1>1, <1>5, <1>6, <1>7, <1>8, <1>9 DEF PagesInv

LEMMA PagesInit == Pages!InitState => PagesInv
<1> SUFFICES ASSUME Pages!InitState PROVE PagesInv
  OBVIOUS
<1>1. PICK kind \in {"cursor", "keyset", "offset", "numbered"}, limit \in Limits :
        p_pager = Pages!Resumed(kind, Pages!FirstToken(limit))
  BY DEF Pages!InitState
<1> DEFINE t == Pages!FirstToken(limit)
<1>2. /\ t.limit = limit /\ t.cursor = Pages!Start /\ t.absent = TRUE /\ t.offset = 0 /\ t.page = 0
      /\ t.exhausted = FALSE
  BY DEF Pages!FirstToken
<1>3. /\ limit \in Nat \ {0} /\ MaxOffset \in Nat /\ p_total \in Nat
      /\ t.absent \in BOOLEAN /\ t.exhausted \in BOOLEAN
  BY <1>2, PagesAssumption DEF Pages!InitState
<1> HIDE DEF t
<1>4. /\ PagerOK(p_pager) /\ p_pager.kind = kind /\ p_pager.offset = 0
      /\ p_pager.error = "none" /\ p_pager.started = 0 /\ p_pager.page = 1
      /\ p_pager.limit = limit /\ p_pager.cursor = Pages!Start /\ ~p_pager.done
  BY <1>1, <1>2, <1>3, ResumedIs, CursorsDiffer DEF t
<1>5. /\ p_got = <<>> /\ p_buffer = <<>> /\ p_requests = 0 /\ ~p_looped
  BY DEF Pages!InitState
<1>6. p_looped \in BOOLEAN
  BY Zenon DEF Pages!InitState
<1>7. PagerAt(p_pager, 0)
  <2>1. (1 - 1) * limit = 0
    BY <1>3
  <2> QED BY <1>3, <1>4, <2>1, CursorsDiffer DEF PagerAt
<1>8. <<>> \in Seq(Nat) /\ Len(<<>>) + Len(<<>>) = 0 /\ <<>> \o <<>> = UpTo(0)
  <2>1. <<>> \in Seq(Nat) /\ <<>> = UpTo(0)
    BY DEF UpTo
  <2>2. <<>> \o <<>> = <<>>
    BY <2>1, ConcatEmptySeq
  <2> QED BY <2>1, <2>2
<1>9. ReadSoFar = 0
  BY <1>5, <1>8 DEF ReadSoFar
<1> QED BY <1>3, <1>4, <1>5, <1>6, <1>7, <1>8, <1>9 DEF PagesInv

LEMMA PagesNext == ASSUME PagesInv, [Pages!Next]_(Pages!vars) PROVE PagesInv'
<1>1. CASE UNCHANGED Pages!vars
  BY <1>1 DEF Pages!vars, PagesInv, ReadSoFar, PagerAt, UpTo
<1>2. CASE Pages!Next
  BY <1>2, PagesPage, PagesFill, PagesConsume, PagesResume DEF Pages!Next
<1> QED BY <1>1, <1>2

(* Paginator, for every size of the listing, page size, offset cap and page limit: every
   item once and in order over any number of failures and resumptions, the end announced
   only when everything was read or the cap cut it off, and at most max_pages requests. *)
THEOREM PagesStayComplete == Spec => []PagesComplete
<1> DEFINE I == which = "pages" => PagesInv
<1>1. Init => I
  BY PagesInit DEF Init, Select, InitComponents, Pages!Init
<1>2. I /\ [Next]_allVars => I'
  BY StepOfClob, PagesNext
<1>3. I => PagesComplete
  BY PagesSafe DEF PagesComplete
<1> QED BY <1>1, <1>2, <1>3, PTL DEF Spec

-----------------------------------------------------------------------------
(* ClobOrders: the steps that are left of a call. *)

StepNames == {"tick", "neg", "book", "clear", "quote", "grid", "validate", "post", "cached",
          "price", "again"}

AtPost == <<"post">>
AtNeg == <<"neg", "post">>
AtValidate == <<"validate", "neg", "post">>
AtSecondTick == <<"tick", "validate", "neg", "post">>
AtGrid == <<"grid", "tick", "validate", "neg", "post">>
AtFirstTick == <<"tick", "grid", "tick", "validate", "neg", "post">>
AtCached == <<"cached", "validate", "neg", "post">>
AtAgain == <<"again", "tick", "validate", "neg", "post">>
AtRefresh == <<"tick", "again", "tick", "validate", "neg", "post">>
AtPrice == <<"price", "tick", "validate", "neg", "post">>
AtPriceTick == <<"tick", "price", "tick", "validate", "neg", "post">>
AtBook == <<"book", "tick", "price", "tick", "validate", "neg", "post">>
AtQuote == <<"quote">>
AtQuoteTick == <<"tick", "quote">>
AtQuoteBook == <<"book", "tick", "quote">>

Tasks == {"tick", "neg", "book", "clear", "estimate", "limit", "requested", "market"}

Left(task, todo) ==
    \/ todo = <<>>
    \/ task \in {"tick", "neg", "book", "clear"} /\ todo = <<task>>
    \/ task = "estimate" /\ todo \in {AtQuoteBook, AtQuoteTick, AtQuote}
    \/ task = "limit" /\ todo \in {AtFirstTick, AtGrid, AtSecondTick, AtValidate, AtNeg, AtPost}
    \/ task = "requested" /\ todo \in {AtCached, AtValidate, AtNeg, AtPost}
    \/ task = "market" /\ todo \in {AtBook, AtPriceTick, AtPrice, AtRefresh, AtAgain,
                                    AtSecondTick, AtValidate, AtNeg, AtPost}

LEMMA HeadsAre ==
    /\ Head(AtPost) = "post" /\ AtPost # <<>> /\ AtPost \in Seq(StepNames)
    /\ Head(AtNeg) = "neg" /\ AtNeg # <<>> /\ AtNeg \in Seq(StepNames)
    /\ Head(AtValidate) = "validate" /\ AtValidate # <<>> /\ AtValidate \in Seq(StepNames)
    /\ Head(AtSecondTick) = "tick" /\ AtSecondTick # <<>> /\ AtSecondTick \in Seq(StepNames)
    /\ Head(AtGrid) = "grid" /\ AtGrid # <<>> /\ AtGrid \in Seq(StepNames)
    /\ Head(AtFirstTick) = "tick" /\ AtFirstTick # <<>> /\ AtFirstTick \in Seq(StepNames)
    /\ Head(AtCached) = "cached" /\ AtCached # <<>> /\ AtCached \in Seq(StepNames)
    /\ Head(AtAgain) = "again" /\ AtAgain # <<>> /\ AtAgain \in Seq(StepNames)
    /\ Head(AtRefresh) = "tick" /\ AtRefresh # <<>> /\ AtRefresh \in Seq(StepNames)
    /\ Head(AtPrice) = "price" /\ AtPrice # <<>> /\ AtPrice \in Seq(StepNames)
    /\ Head(AtPriceTick) = "tick" /\ AtPriceTick # <<>> /\ AtPriceTick \in Seq(StepNames)
    /\ Head(AtBook) = "book" /\ AtBook # <<>> /\ AtBook \in Seq(StepNames)
    /\ Head(AtQuote) = "quote" /\ AtQuote # <<>> /\ AtQuote \in Seq(StepNames)
    /\ Head(AtQuoteTick) = "tick" /\ AtQuoteTick # <<>> /\ AtQuoteTick \in Seq(StepNames)
    /\ Head(AtQuoteBook) = "book" /\ AtQuoteBook # <<>> /\ AtQuoteBook \in Seq(StepNames)
  BY DEF StepNames, AtPost, AtNeg, AtValidate, AtSecondTick, AtGrid, AtFirstTick, AtCached, AtAgain,
     AtRefresh, AtPrice, AtPriceTick, AtBook, AtQuote, AtQuoteTick, AtQuoteBook

LEMMA TailsAre ==
    /\ Tail(AtPost) = <<>>
    /\ Tail(AtNeg) = AtPost
    /\ Tail(AtValidate) = AtNeg
    /\ Tail(AtSecondTick) = AtValidate
    /\ Tail(AtGrid) = AtSecondTick
    /\ Tail(AtFirstTick) = AtGrid
    /\ Tail(AtCached) = AtValidate
    /\ Tail(AtAgain) = AtSecondTick
    /\ Tail(AtRefresh) = AtAgain
    /\ Tail(AtPrice) = AtSecondTick
    /\ Tail(AtPriceTick) = AtPrice
    /\ Tail(AtBook) = AtPriceTick
    /\ Tail(AtQuote) = <<>>
    /\ Tail(AtQuoteTick) = AtQuote
    /\ Tail(AtQuoteBook) = AtQuoteTick
  BY DEF AtPost, AtNeg, AtValidate, AtSecondTick, AtGrid, AtFirstTick, AtCached, AtAgain, AtRefresh,
     AtPrice, AtPriceTick, AtBook, AtQuote, AtQuoteTick, AtQuoteBook

LEMMA LengthsAre ==
    /\ Len(AtPost) = 1
    /\ Len(AtNeg) # 1
    /\ Len(AtValidate) # 1
    /\ Len(AtSecondTick) # 1
    /\ Len(AtGrid) # 1
    /\ Len(AtFirstTick) # 1
    /\ Len(AtCached) # 1
    /\ Len(AtAgain) # 1
    /\ Len(AtRefresh) # 1
    /\ Len(AtPrice) # 1
    /\ Len(AtPriceTick) # 1
    /\ Len(AtBook) # 1
    /\ Len(AtQuote) = 1
    /\ Len(AtQuoteTick) # 1
    /\ Len(AtQuoteBook) # 1
  BY DEF AtPost, AtNeg, AtValidate, AtSecondTick, AtGrid, AtFirstTick, AtCached, AtAgain, AtRefresh,
     AtPrice, AtPriceTick, AtBook, AtQuote, AtQuoteTick, AtQuoteBook

(* The concatenations that make up a call. *)
LEMMA ConcatIs ==
    ASSUME NEW S, NEW s \in Seq(S), NEW t \in Seq(S), NEW u \in Seq(S),
           Len(u) = Len(s) + Len(t),
           \A i \in 1 .. Len(s) : u[i] = s[i], \A i \in 1 .. Len(t) : u[Len(s) + i] = t[i]
    PROVE  s \o t = u
<1>1. /\ s \o t \in Seq(S) /\ Len(s \o t) = Len(s) + Len(t)
      /\ \A i \in 1 .. Len(s) + Len(t) :
           (s \o t)[i] = IF i <= Len(s) THEN s[i] ELSE t[i - Len(s)]
  BY ConcatProperties
<1>2. Len(s) \in Nat /\ Len(t) \in Nat
  OBVIOUS
<1>3. ASSUME NEW i \in 1 .. Len(s) + Len(t) PROVE (s \o t)[i] = u[i]
  <2>1. CASE i <= Len(s)
    BY <1>1, <1>2, <2>1
  <2>2. CASE ~(i <= Len(s))
    <3>1. i - Len(s) \in 1 .. Len(t) /\ Len(s) + (i - Len(s)) = i
      BY <1>2, <2>2
    <3> QED BY <1>1, <1>2, <2>2, <3>1
  <2> QED BY <2>1, <2>2
<1> QED BY <1>1, <1>3, SeqEqual

LEMMA Join12 ==
    ASSUME NEW a, NEW b, NEW c
    PROVE  <<a>> \o <<b, c>> = <<a, b, c>>
<1> DEFINE s == <<a>>  t == <<b, c>>  u == <<a, b, c>>  S == {a, b, c}
<1>1. s \in Seq(S) /\ t \in Seq(S) /\ u \in Seq(S)
  OBVIOUS
<1>2. Len(s) = 1 /\ Len(t) = 2 /\ Len(u) = 3
  OBVIOUS
<1>3. (\A i \in 1 .. 1 : u[i] = s[i]) /\ (\A i \in 1 .. 2 : u[1 + i] = t[i])
  OBVIOUS
<1> HIDE DEF s, t, u, S
<1>4. /\ Len(u) = Len(s) + Len(t)
      /\ \A i \in 1 .. Len(s) : u[i] = s[i]
      /\ \A i \in 1 .. Len(t) : u[Len(s) + i] = t[i]
  BY <1>2, <1>3
<1>5. s \o t = u
  BY <1>1, <1>4, ConcatIs
<1> QED BY <1>5 DEF s, t, u

LEMMA Join31 ==
    ASSUME NEW a, NEW b, NEW c, NEW d
    PROVE  <<a, b, c>> \o <<d>> = <<a, b, c, d>>
<1> DEFINE s == <<a, b, c>>  t == <<d>>  u == <<a, b, c, d>>  S == {a, b, c, d}
<1>1. s \in Seq(S) /\ t \in Seq(S) /\ u \in Seq(S)
  OBVIOUS
<1>2. Len(s) = 3 /\ Len(t) = 1 /\ Len(u) = 4
  OBVIOUS
<1>3. (\A i \in 1 .. 3 : u[i] = s[i]) /\ (\A i \in 1 .. 1 : u[3 + i] = t[i])
  OBVIOUS
<1> HIDE DEF s, t, u, S
<1>4. /\ Len(u) = Len(s) + Len(t)
      /\ \A i \in 1 .. Len(s) : u[i] = s[i]
      /\ \A i \in 1 .. Len(t) : u[Len(s) + i] = t[i]
  BY <1>2, <1>3
<1>5. s \o t = u
  BY <1>1, <1>4, ConcatIs
<1> QED BY <1>5 DEF s, t, u

LEMMA Join23 ==
    ASSUME NEW a, NEW b, NEW c, NEW d, NEW e
    PROVE  <<a, b>> \o <<c, d, e>> = <<a, b, c, d, e>>
<1> DEFINE s == <<a, b>>  t == <<c, d, e>>  u == <<a, b, c, d, e>>  S == {a, b, c, d, e}
<1>1. s \in Seq(S) /\ t \in Seq(S) /\ u \in Seq(S)
  OBVIOUS
<1>2. Len(s) = 2 /\ Len(t) = 3 /\ Len(u) = 5
  OBVIOUS
<1>3. (\A i \in 1 .. 2 : u[i] = s[i]) /\ (\A i \in 1 .. 3 : u[2 + i] = t[i])
  OBVIOUS
<1> HIDE DEF s, t, u, S
<1>4. /\ Len(u) = Len(s) + Len(t)
      /\ \A i \in 1 .. Len(s) : u[i] = s[i]
      /\ \A i \in 1 .. Len(t) : u[Len(s) + i] = t[i]
  BY <1>2, <1>3
<1>5. s \o t = u
  BY <1>1, <1>4, ConcatIs
<1> QED BY <1>5 DEF s, t, u

LEMMA Join51 ==
    ASSUME NEW a, NEW b, NEW c, NEW d, NEW e, NEW f
    PROVE  <<a, b, c, d, e>> \o <<f>> = <<a, b, c, d, e, f>>
<1> DEFINE s == <<a, b, c, d, e>>  t == <<f>>  u == <<a, b, c, d, e, f>>  S == {a, b, c, d, e, f}
<1>1. s \in Seq(S) /\ t \in Seq(S) /\ u \in Seq(S)
  OBVIOUS
<1>2. Len(s) = 5 /\ Len(t) = 1 /\ Len(u) = 6
  OBVIOUS
<1>3. (\A i \in 1 .. 5 : u[i] = s[i]) /\ (\A i \in 1 .. 1 : u[5 + i] = t[i])
  OBVIOUS
<1> HIDE DEF s, t, u, S
<1>4. /\ Len(u) = Len(s) + Len(t)
      /\ \A i \in 1 .. Len(s) : u[i] = s[i]
      /\ \A i \in 1 .. Len(t) : u[Len(s) + i] = t[i]
  BY <1>2, <1>3
<1>5. s \o t = u
  BY <1>1, <1>4, ConcatIs
<1> QED BY <1>5 DEF s, t, u

LEMMA Join33 ==
    ASSUME NEW a, NEW b, NEW c, NEW d, NEW e, NEW f
    PROVE  <<a, b, c>> \o <<d, e, f>> = <<a, b, c, d, e, f>>
<1> DEFINE s == <<a, b, c>>  t == <<d, e, f>>  u == <<a, b, c, d, e, f>>  S == {a, b, c, d, e, f}
<1>1. s \in Seq(S) /\ t \in Seq(S) /\ u \in Seq(S)
  OBVIOUS
<1>2. Len(s) = 3 /\ Len(t) = 3 /\ Len(u) = 6
  OBVIOUS
<1>3. (\A i \in 1 .. 3 : u[i] = s[i]) /\ (\A i \in 1 .. 3 : u[3 + i] = t[i])
  OBVIOUS
<1> HIDE DEF s, t, u, S
<1>4. /\ Len(u) = Len(s) + Len(t)
      /\ \A i \in 1 .. Len(s) : u[i] = s[i]
      /\ \A i \in 1 .. Len(t) : u[Len(s) + i] = t[i]
  BY <1>2, <1>3
<1>5. s \o t = u
  BY <1>1, <1>4, ConcatIs
<1> QED BY <1>5 DEF s, t, u

LEMMA Join61 ==
    ASSUME NEW a, NEW b, NEW c, NEW d, NEW e, NEW f, NEW g
    PROVE  <<a, b, c, d, e, f>> \o <<g>> = <<a, b, c, d, e, f, g>>
<1> DEFINE s == <<a, b, c, d, e, f>>  t == <<g>>  u == <<a, b, c, d, e, f,
                                                         g>>  S == {a, b, c, d, e, f, g}
<1>1. s \in Seq(S) /\ t \in Seq(S) /\ u \in Seq(S)
  OBVIOUS
<1>2. Len(s) = 6 /\ Len(t) = 1 /\ Len(u) = 7
  OBVIOUS
<1>3. (\A i \in 1 .. 6 : u[i] = s[i]) /\ (\A i \in 1 .. 1 : u[6 + i] = t[i])
  OBVIOUS
<1> HIDE DEF s, t, u, S
<1>4. /\ Len(u) = Len(s) + Len(t)
      /\ \A i \in 1 .. Len(s) : u[i] = s[i]
      /\ \A i \in 1 .. Len(t) : u[Len(s) + i] = t[i]
  BY <1>2, <1>3
<1>5. s \o t = u
  BY <1>1, <1>4, ConcatIs
<1> QED BY <1>5 DEF s, t, u

LEMMA Join24 ==
    ASSUME NEW a, NEW b, NEW c, NEW d, NEW e, NEW f
    PROVE  <<a, b>> \o <<c, d, e, f>> = <<a, b, c, d, e, f>>
<1> DEFINE s == <<a, b>>  t == <<c, d, e, f>>  u == <<a, b, c, d, e, f>>  S == {a, b, c, d, e, f}
<1>1. s \in Seq(S) /\ t \in Seq(S) /\ u \in Seq(S)
  OBVIOUS
<1>2. Len(s) = 2 /\ Len(t) = 4 /\ Len(u) = 6
  OBVIOUS
<1>3. (\A i \in 1 .. 2 : u[i] = s[i]) /\ (\A i \in 1 .. 4 : u[2 + i] = t[i])
  OBVIOUS
<1> HIDE DEF s, t, u, S
<1>4. /\ Len(u) = Len(s) + Len(t)
      /\ \A i \in 1 .. Len(s) : u[i] = s[i]
      /\ \A i \in 1 .. Len(t) : u[Len(s) + i] = t[i]
  BY <1>2, <1>3
<1>5. s \o t = u
  BY <1>1, <1>4, ConcatIs
<1> QED BY <1>5 DEF s, t, u

LEMMA StepsAre ==
    /\ DOMAIN Orders!Steps = Tasks
    /\ \A task \in {"tick", "neg", "book", "clear"} : Orders!Steps[task] = <<task>>
    /\ Orders!Steps["estimate"] = AtQuoteBook /\ Orders!Steps["limit"] = AtFirstTick
    /\ Orders!Steps["requested"] = AtCached /\ Orders!Steps["market"] = AtBook
<1> DEFINE create == <<"tick", "validate", "neg">>
<1>1. (<<"tick", "grid">> \o create) \o <<"post">> = AtFirstTick
  <2>1. <<"tick", "grid">> \o create = <<"tick", "grid", "tick", "validate", "neg">>
    BY Join23
  <2>2. <<"tick", "grid", "tick", "validate", "neg">> \o <<"post">> = AtFirstTick
    BY Join51 DEF AtFirstTick
  <2> QED BY <2>1, <2>2, Zenon
<1>2. (<<"cached">> \o Tail(create)) \o <<"post">> = AtCached
  <2>1. Tail(create) = <<"validate", "neg">>
    OBVIOUS
  <2>2. <<"cached">> \o <<"validate", "neg">> = <<"cached", "validate", "neg">>
    BY Join12
  <2>3. <<"cached", "validate", "neg">> \o <<"post">> = AtCached
    BY Join31 DEF AtCached
  <2> QED BY <2>1, <2>2, <2>3, Zenon
<1>3. (<<"book", "tick", "price">> \o create) \o <<"post">> = AtBook
  <2>1. <<"book", "tick", "price">> \o create
          = <<"book", "tick", "price", "tick", "validate", "neg">>
    BY Join33
  <2>2. <<"book", "tick", "price", "tick", "validate", "neg">> \o <<"post">> = AtBook
    BY Join61 DEF AtBook
  <2> QED BY <2>1, <2>2, Zenon
<1>4. Orders!CreateOrder = create /\ Orders!CreateMarketOrder = create
  BY DEF Orders!CreateOrder, Orders!CreateMarketOrder
<1> HIDE DEF create
<1>5. Orders!Steps =
        [tick |-> <<"tick">>, neg |-> <<"neg">>, book |-> <<"book">>, clear |-> <<"clear">>,
         estimate |-> AtQuoteBook, limit |-> AtFirstTick, requested |-> AtCached,
         market |-> AtBook]
  BY <1>1, <1>2, <1>3, <1>4, Zenon DEF Orders!Steps, AtQuoteBook
<1> QED BY <1>5 DEF Tasks

LEMMA RefreshIs == <<"tick", "again">> \o Tail(AtPrice) = AtRefresh
<1>1. Tail(AtPrice) = AtSecondTick
  BY TailsAre
<1>2. <<"tick", "again">> \o <<"tick", "validate", "neg", "post">> = AtRefresh
  BY Join24 DEF AtRefresh
<1> QED BY <1>1, <1>2, Zenon DEF AtSecondTick

(* What the next step says about the call, and what follows it. *)
LEMMA LeftStep ==
    ASSUME NEW task, NEW todo, Left(task, todo), todo # <<>>
    PROVE  /\ todo \in Seq(StepNames) /\ task \in Tasks
           /\ Head(todo) = "grid" => task = "limit" /\ todo = AtGrid
           /\ Head(todo) = "validate" => todo = AtValidate
           /\ Head(todo) = "cached" => task = "requested" /\ todo = AtCached
           /\ Head(todo) = "price" => task = "market" /\ todo = AtPrice
           /\ Head(todo) = "again" => task = "market" /\ todo = AtAgain
           /\ Head(todo) = "quote" => task = "estimate" /\ todo = AtQuote
           /\ Head(todo) = "clear" => task = "clear" /\ todo = <<"clear">>
           /\ Head(todo) = "post" => todo = AtPost /\ task \in {"limit", "requested", "market"}
           /\ Head(todo) = "tick" /\ task = "limit" => todo \in {AtFirstTick, AtSecondTick}
           /\ Head(todo) = "neg" /\ task = "limit" => todo = AtNeg
           /\ Head(todo) = "book" => task # "limit"
<1>1. CASE task \in {"tick", "neg", "book", "clear"} /\ todo = <<task>>
  <2>1. Head(todo) = task /\ todo \in Seq(StepNames)
    BY <1>1 DEF StepNames
  <2> QED BY <1>1, <2>1 DEF Tasks
<1>2. CASE ~(task \in {"tick", "neg", "book", "clear"} /\ todo = <<task>>)
  BY <1>2, HeadsAre DEF Left, Tasks
<1> QED BY <1>1, <1>2

LEMMA LeftTail ==
    ASSUME NEW task, NEW todo, Left(task, todo), todo # <<>>
    PROVE  /\ Left(task, Tail(todo)) /\ Tail(todo) \in Seq(StepNames)
           /\ Len(todo) = 1 <=> Tail(todo) = <<>>
           /\ Len(todo) = 1 /\ task \in {"limit", "requested", "market"} => Head(todo) = "post"
<1>0. <<>> \in Seq(StepNames)
  OBVIOUS
<1>1. CASE task \in {"tick", "neg", "book", "clear"} /\ todo = <<task>>
  <2>1. Tail(todo) = <<>> /\ Len(todo) = 1
    BY <1>1
  <2> QED BY <1>0, <1>1, <2>1 DEF Left
<1>2. CASE ~(task \in {"tick", "neg", "book", "clear"} /\ todo = <<task>>)
  <2>1. CASE task = "estimate"
    <3>1. todo \in {AtQuoteBook, AtQuoteTick, AtQuote}
      BY <1>2, <2>1 DEF Left
    <3>2. Tail(todo) \in {<<>>, AtQuoteBook, AtQuoteTick, AtQuote}
      BY <3>1, TailsAre
    <3>3. Left(task, Tail(todo))
      BY <2>1, <3>2 DEF Left
    <3>4. Tail(todo) \in Seq(StepNames)
      BY <1>0, <3>2, HeadsAre
    <3>5. (Len(todo) = 1 <=> Tail(todo) = <<>>)
            /\ (Len(todo) = 1 => Head(todo) \in {"post", "quote"})
      BY <3>1, HeadsAre, TailsAre, LengthsAre, Zenon
    <3> QED BY <2>1, <3>1, <3>3, <3>4, <3>5, HeadsAre
  <2>2. CASE task = "limit"
    <3>1. todo \in {AtFirstTick, AtGrid, AtSecondTick, AtValidate, AtNeg, AtPost}
      BY <1>2, <2>2 DEF Left
    <3>2. Tail(todo) \in {<<>>, AtFirstTick, AtGrid, AtSecondTick, AtValidate, AtNeg, AtPost}
      BY <3>1, TailsAre
    <3>3. Left(task, Tail(todo))
      BY <2>2, <3>2 DEF Left
    <3>4. Tail(todo) \in Seq(StepNames)
      BY <1>0, <3>2, HeadsAre
    <3>5. (Len(todo) = 1 <=> Tail(todo) = <<>>)
            /\ (Len(todo) = 1 => Head(todo) \in {"post", "quote"})
      BY <3>1, HeadsAre, TailsAre, LengthsAre, Zenon
    <3> QED BY <2>2, <3>1, <3>3, <3>4, <3>5, HeadsAre
  <2>3. CASE task = "requested"
    <3>1. todo \in {AtCached, AtValidate, AtNeg, AtPost}
      BY <1>2, <2>3 DEF Left
    <3>2. Tail(todo) \in {<<>>, AtCached, AtValidate, AtNeg, AtPost}
      BY <3>1, TailsAre
    <3>3. Left(task, Tail(todo))
      BY <2>3, <3>2 DEF Left
    <3>4. Tail(todo) \in Seq(StepNames)
      BY <1>0, <3>2, HeadsAre
    <3>5. (Len(todo) = 1 <=> Tail(todo) = <<>>)
            /\ (Len(todo) = 1 => Head(todo) \in {"post", "quote"})
      BY <3>1, HeadsAre, TailsAre, LengthsAre, Zenon
    <3> QED BY <2>3, <3>1, <3>3, <3>4, <3>5, HeadsAre
  <2>4. CASE task = "market"
    <3>1. todo \in {AtBook, AtPriceTick, AtPrice, AtRefresh, AtAgain, AtSecondTick,
                        AtValidate, AtNeg, AtPost}
      BY <1>2, <2>4 DEF Left
    <3>2. Tail(todo) \in {<<>>, AtBook, AtPriceTick, AtPrice, AtRefresh, AtAgain, AtSecondTick,
                        AtValidate, AtNeg, AtPost}
      BY <3>1, TailsAre
    <3>3. Left(task, Tail(todo))
      BY <2>4, <3>2 DEF Left
    <3>4. Tail(todo) \in Seq(StepNames)
      BY <1>0, <3>2, HeadsAre
    <3>5. (Len(todo) = 1 <=> Tail(todo) = <<>>)
            /\ (Len(todo) = 1 => Head(todo) \in {"post", "quote"})
      BY <3>1, HeadsAre, TailsAre, LengthsAre, Zenon
    <3> QED BY <2>4, <3>1, <3>3, <3>4, <3>5, HeadsAre
  <2> QED BY <1>2, <2>1, <2>2, <2>3, <2>4 DEF Left
<1> QED BY <1>1, <1>2

(* The places of a limit order, and of a market order that has its price, are distinct. *)
LEMMA Places ==
    /\ AtFirstTick # AtSecondTick /\ AtFirstTick # AtGrid /\ AtFirstTick # AtValidate
    /\ AtGrid # AtSecondTick /\ AtGrid # AtValidate /\ AtSecondTick # AtValidate
    /\ AtNeg \notin {AtGrid, AtSecondTick, AtValidate}
    /\ AtPost \notin {AtGrid, AtSecondTick, AtValidate}
    /\ AtPriceTick # AtSecondTick /\ AtRefresh # AtSecondTick
<1>1. AtFirstTick # AtSecondTick /\ AtPriceTick # AtSecondTick /\ AtRefresh # AtSecondTick
  BY HeadsAre, TailsAre
<1> QED BY <1>1, HeadsAre

OrderTasks == {"limit", "requested", "market"}
TickValues == [tick : Nat, read : Nat, by : {"nobody", "tick", "book"}]
OrderCalls ==
    [task : Tasks \cup {"none"}, todo : Seq(StepNames), phase : {"run", "wait", "ask", "answer"},
     price : Nat, level : Nat, got : TickValues, since : Nat,
     result : {"none", "ok", "error", "rejected"}]

OrdersTypeOK ==
    /\ c_market \in [tick : Nat, now : Nat]
    /\ c_tickCache \in TickValues /\ c_negCache \in BOOLEAN
    /\ c_inFlight \subseteq Orders!Keys
    /\ c_call \in [Threads -> OrderCalls]
    /\ c_clearedAt \in Nat /\ c_clearedAt <= c_market.now
    /\ c_posted \in [Threads -> Seq(Nat)] /\ c_booked \in BOOLEAN

(* One call and the prices it has posted: an order is posted by its last step. *)
Ordered(c) == IF c.task = "market" THEN c.level ELSE c.price
CallOK(c, p) ==
    /\ Left(c.task, c.todo)
    /\ c.phase \in {"wait", "ask"} => c.todo # <<>> /\ Head(c.todo) \in Orders!Keys
    /\ c.phase = "answer" =>
         /\ c.todo # <<>> /\ Head(c.todo) \in Orders!Keys \cup {"book"}
         /\ Head(c.todo) # "neg" => c.got.by = Head(c.todo)
    /\ c.todo # <<>> => p = <<>> /\ c.result = "none"
    /\ c.task = "market" /\ c.todo \in {AtSecondTick, AtValidate, AtNeg, AtPost} =>
         c.price = c.level
    /\ Len(p) <= 1
    /\ c.result = "rejected" => p = <<>>
    /\ c.result = "ok" /\ c.task \in OrderTasks => p = <<Ordered(c)>>

(* A lookup on its way holds its key, so no clear comes between: what it brings is newer
   than the last clear and than the call. *)
Fetches(c, k) == c.todo # <<>> /\ Head(c.todo) = k /\ c.phase \in {"ask", "answer"}
Brings(c) == c.todo # <<>> /\ Head(c.todo) = "tick" /\ c.phase = "answer"
FetchOK(c, now, flying, cleared) ==
    /\ c.since <= now
    /\ \A k \in Orders!Keys : Fetches(c, k) => k \in flying
    /\ Brings(c) => c.got.read >= c.since /\ c.got.read >= cleared

(* What a limit order may still meet in the cache: after its first lookup, that tick or one
   read since the call began; after the check, one the price is on or one read since. *)
LimitOK(c, cache) ==
    c.task = "limit" =>
        /\ c.todo = AtGrid => cache = Orders!None \/ cache.read >= c.since \/ cache = c.got
        /\ c.todo = AtSecondTick =>
             \/ cache = Orders!None \/ cache.read >= c.since
             \/ Orders!OnGrid(c.price, cache.tick)
        /\ c.todo = AtValidate =>
             Orders!OnGrid(c.price, c.got.tick) \/ c.got.read >= c.since
        /\ c.result = "rejected" => c.got.read >= c.since

(* One call fetches a key; nobody does while it is cached, unless a book put it there; and
   nothing older is on its way to a limit order that is past its first lookup. *)
OneFetches ==
    \A t, u \in Threads, k \in Orders!Keys :
        Fetches(c_call[t], k) /\ Fetches(c_call[u], k) => t = u
Uncached == ~c_booked /\ "tick" \in c_inFlight => c_tickCache = Orders!None
Awaits(c) == c.task = "limit" /\ c.todo \in {AtGrid, AtSecondTick}
RecentComes ==
    ~c_booked => \A t, u \in Threads :
        Awaits(c_call[t]) /\ Brings(c_call[u]) => c_call[u].got.read >= c_call[t].since

OrdersInv ==
    /\ OrdersTypeOK
    /\ \A t \in Threads : /\ CallOK(c_call[t], c_posted[t])
                          /\ FetchOK(c_call[t], c_market.now, c_inFlight, c_clearedAt)
                          /\ ~c_booked => LimitOK(c_call[t], c_tickCache)
    /\ OneFetches /\ Uncached /\ RecentComes /\ Orders!FreshAfterClear

LEMMA NoneType ==
    /\ Orders!None \in TickValues /\ Orders!None.by = "nobody"
    /\ Orders!Keys = {"tick", "neg"}
  BY DEF Orders!None, Orders!Keys, TickValues

(* A step of one call: what it has to show, of the call and of the cache, for the calls of
   the other threads to stay as they should be. *)
LEMMA ThreadStep ==
    ASSUME OrdersInv, NEW t \in Threads, NEW c \in OrderCalls, NEW p \in Seq(Nat),
           c_call' = [c_call EXCEPT ![t] = c], c_posted' = [c_posted EXCEPT ![t] = p],
           c_market' = c_market, c_tickCache' \in TickValues, c_negCache' \in BOOLEAN,
           c_inFlight' \subseteq Orders!Keys, c_booked' \in BOOLEAN, c_booked => c_booked',
           c_clearedAt' \in Nat, c_clearedAt' <= c_market.now,
           c_clearedAt' = c_clearedAt \/ c_inFlight = {},
           CallOK(c, p), FetchOK(c, c_market.now, c_inFlight', c_clearedAt'),
           ~c_booked' => LimitOK(c, c_tickCache'),
           Uncached', Orders!FreshAfterClear',
           \A u \in Threads \ {t}, k \in Orders!Keys :
               Fetches(c_call[u], k) => k \in c_inFlight' /\ ~Fetches(c, k),
           ~c_booked' => \/ c_tickCache' = c_tickCache \/ c_tickCache' = Orders!None
                         \/ Brings(c_call[t]) /\ c_tickCache' = c_call[t].got,
           ~c_booked' => \A u \in Threads \ {t} :
               /\ Awaits(c) /\ Brings(c_call[u]) => c_call[u].got.read >= c.since
               /\ Awaits(c_call[u]) /\ Brings(c) => c.got.read >= c_call[u].since
    PROVE  OrdersInv'
<1>1. OrdersTypeOK'
  BY DEF OrdersInv, OrdersTypeOK
<1>2. /\ c_call'[t] = c /\ c_posted'[t] = p
      /\ \A u \in Threads \ {t} : c_call'[u] = c_call[u] /\ c_posted'[u] = c_posted[u]
  BY DEF OrdersInv, OrdersTypeOK
<1>3. ASSUME NEW u \in Threads
      PROVE  /\ CallOK(c_call'[u], c_posted'[u])
             /\ FetchOK(c_call'[u], c_market'.now, c_inFlight', c_clearedAt')
             /\ ~c_booked' => LimitOK(c_call'[u], c_tickCache')
  <2>1. CASE u = t
    BY <1>2, <2>1
  <2>2. CASE u # t
    <3>1. /\ CallOK(c_call[u], c_posted[u])
          /\ FetchOK(c_call[u], c_market.now, c_inFlight, c_clearedAt)
          /\ ~c_booked => LimitOK(c_call[u], c_tickCache)
      BY DEF OrdersInv
    <3>2. ASSUME NEW k \in Orders!Keys, Fetches(c_call[u], k) PROVE k \in c_inFlight'
      BY <2>2, <3>2
    <3>3. ASSUME Brings(c_call[u]) PROVE c_call[u].got.read >= c_clearedAt'
      <4>1. "tick" \in c_inFlight
        BY <3>1, <3>3, NoneType DEF FetchOK, Fetches, Brings
      <4> QED BY <3>1, <3>3, <4>1 DEF FetchOK
    <3>4. FetchOK(c_call[u], c_market.now, c_inFlight', c_clearedAt')
      BY <3>1, <3>2, <3>3 DEF FetchOK
    <3>5. ASSUME ~c_booked' PROVE LimitOK(c_call[u], c_tickCache')
      <4>1. ~c_booked
        BY <3>5
      <4>2. LimitOK(c_call[u], c_tickCache)
        BY <3>1, <4>1
      <4>3. CASE c_tickCache' = c_tickCache
        BY <4>2, <4>3
      <4>4. CASE c_tickCache' = Orders!None
        BY <4>2, <4>4 DEF LimitOK
      <4>5. CASE Brings(c_call[t]) /\ c_tickCache' = c_call[t].got
        <5>1. Awaits(c_call[u]) => c_tickCache'.read >= c_call[u].since
          BY <4>1, <4>5 DEF OrdersInv, RecentComes
        <5> QED BY <4>2, <5>1, Places DEF LimitOK, Awaits
      <4> QED BY <3>5, <4>3, <4>4, <4>5
    <3> QED BY <1>2, <2>2, <3>1, <3>4, <3>5
  <2> QED BY <2>1, <2>2
<1>4. OneFetches'
  <2> SUFFICES ASSUME NEW x \in Threads, NEW y \in Threads, NEW k \in Orders!Keys,
                      Fetches(c_call'[x], k), Fetches(c_call'[y], k)
               PROVE  x = y
    BY DEF OneFetches, Fetches, Orders!Keys
  <2>1. CASE x # t /\ y # t
    BY <1>2, <2>1 DEF OrdersInv, OneFetches
  <2>2. CASE x = t /\ y # t
    BY <1>2, <2>2
  <2>3. CASE x # t /\ y = t
    BY <1>2, <2>3
  <2> QED BY <2>1, <2>2, <2>3
<1>5. RecentComes'
  <2> SUFFICES ASSUME ~c_booked', NEW x \in Threads, NEW y \in Threads,
                      Awaits(c_call'[x]), Brings(c_call'[y])
               PROVE  c_call'[y].got.read >= c_call'[x].since
    BY DEF RecentComes, Awaits, Brings, AtGrid, AtSecondTick
  <2>1. CASE x # t /\ y # t
    BY <1>2, <2>1 DEF OrdersInv, RecentComes
  <2>2. CASE x = t /\ y # t
    BY <1>2, <2>2
  <2>3. CASE x # t /\ y = t
    BY <1>2, <2>3
  <2>4. CASE x = t /\ y = t
    BY <1>2, <2>4 DEF FetchOK
  <2> QED BY <2>1, <2>2, <2>3, <2>4
<1> QED BY <1>1, <1>3, <1>4, <1>5 DEF OrdersInv, CallOK, FetchOK, LimitOK

(* A step that fetches nothing and at most empties the cache. *)
LEMMA QuietStep ==
    ASSUME OrdersInv, NEW t \in Threads, NEW c \in OrderCalls, NEW p \in Seq(Nat),
           c_call' = [c_call EXCEPT ![t] = c], c_posted' = [c_posted EXCEPT ![t] = p],
           UNCHANGED <<c_market, c_negCache, c_inFlight, c_clearedAt, c_booked>>,
           c_tickCache' = c_tickCache \/ c_tickCache' = Orders!None,
           c.phase \in {"run", "wait"}, c.since <= c_market.now, CallOK(c, p),
           ~c_booked => LimitOK(c, c_tickCache'),
           ~c_booked /\ Awaits(c) => \/ "tick" \notin c_inFlight
                                     \/ Awaits(c_call[t]) /\ c.since = c_call[t].since
    PROVE  OrdersInv'
<1>1. OrdersTypeOK /\ c_tickCache' \in TickValues
  BY NoneType DEF OrdersInv, OrdersTypeOK
<1>2. /\ c_negCache' \in BOOLEAN /\ c_inFlight' \subseteq Orders!Keys /\ c_booked' \in BOOLEAN
      /\ c_clearedAt' \in Nat /\ c_clearedAt' <= c_market.now
  BY <1>1 DEF OrdersTypeOK
<1>3. ~Brings(c) /\ \A k \in Orders!Keys : ~Fetches(c, k)
  BY DEF Brings, Fetches
<1>4. FetchOK(c, c_market.now, c_inFlight', c_clearedAt')
  BY <1>3 DEF FetchOK
<1>5. Uncached' /\ Orders!FreshAfterClear'
  BY NoneType DEF OrdersInv, Uncached, Orders!FreshAfterClear
<1>6. \A u \in Threads \ {t}, k \in Orders!Keys : Fetches(c_call[u], k) => k \in c_inFlight'
  BY DEF OrdersInv, FetchOK
<1>7. ASSUME ~c_booked', NEW u \in Threads \ {t}, Awaits(c), Brings(c_call[u])
      PROVE  c_call[u].got.read >= c.since
  <2>1. "tick" \in c_inFlight
    BY <1>7, NoneType DEF OrdersInv, FetchOK, Fetches, Brings
  <2> QED BY <1>7, <2>1 DEF OrdersInv, RecentComes
<1> QED BY <1>1, <1>2, <1>3, <1>4, <1>5, <1>6, <1>7, ThreadStep

(* The call after a step that is not its last POST. *)
Advanced(c) == [c EXCEPT !.todo = Tail(c.todo), !.phase = "run",
                         !.result = IF Len(c.todo) = 1 THEN "ok" ELSE "none"]
LEMMA AdvancedCall ==
    ASSUME NEW c \in OrderCalls, Left(c.task, c.todo), c.todo # <<>>
    PROVE  /\ Advanced(c) \in OrderCalls
           /\ Advanced(c).todo = Tail(c.todo) /\ Advanced(c).phase = "run"
           /\ Advanced(c).result = IF Len(c.todo) = 1 THEN "ok" ELSE "none"
           /\ Advanced(c).task = c.task /\ Advanced(c).price = c.price
           /\ Advanced(c).level = c.level /\ Advanced(c).got = c.got
           /\ Advanced(c).since = c.since
<1>1. Tail(c.todo) \in Seq(StepNames)
  BY LeftTail
<1> DEFINE r == IF Len(c.todo) = 1 THEN "ok" ELSE "none"
<1>2. r \in {"none", "ok"}
  OBVIOUS
<1> HIDE DEF r
<1>3. Advanced(c) = [c EXCEPT !.todo = Tail(c.todo), !.phase = "run", !.result = r]
  BY DEF Advanced, r
<1>4. Advanced(c) \in OrderCalls
  BY <1>1, <1>2, <1>3 DEF OrderCalls
<1>5. /\ Advanced(c).todo = Tail(c.todo) /\ Advanced(c).phase = "run" /\ Advanced(c).result = r
      /\ Advanced(c).task = c.task /\ Advanced(c).price = c.price
      /\ Advanced(c).level = c.level /\ Advanced(c).got = c.got /\ Advanced(c).since = c.since
  BY <1>3 DEF OrderCalls
<1> QED BY <1>4, <1>5 DEF r

LEMMA AdvancedOK ==
    ASSUME NEW c \in OrderCalls, Left(c.task, c.todo), c.todo # <<>>, Head(c.todo) # "post",
           c.task = "market" /\ c.todo \in {AtSecondTick, AtValidate, AtNeg, AtPrice, AtAgain} =>
             c.price = c.level
    PROVE  CallOK(Advanced(c), <<>>)
<1> DEFINE d == Advanced(c)
<1>1. /\ d.todo = Tail(c.todo) /\ d.phase = "run" /\ d.task = c.task /\ d.price = c.price
      /\ d.level = c.level /\ d.result = IF Len(c.todo) = 1 THEN "ok" ELSE "none"
  BY AdvancedCall
<1> HIDE DEF d
<1>2. /\ Left(c.task, Tail(c.todo)) /\ (Len(c.todo) = 1 <=> Tail(c.todo) = <<>>)
      /\ Len(c.todo) = 1 => c.task \notin OrderTasks
  BY LeftTail DEF OrderTasks
<1>3. c.task = "market" /\ Tail(c.todo) \in {AtSecondTick, AtValidate, AtNeg, AtPost} =>
        c.todo \in {AtSecondTick, AtValidate, AtNeg, AtPrice, AtAgain}
  <2>1. c.task = "market" => c.todo \in {AtBook, AtPriceTick, AtPrice, AtRefresh, AtAgain,
                                         AtSecondTick, AtValidate, AtNeg, AtPost}
    BY DEF Left
  <2>2. /\ Tail(AtBook) = AtPriceTick /\ Tail(AtPriceTick) = AtPrice
        /\ Tail(AtRefresh) = AtAgain /\ Tail(AtPost) = <<>>
    BY TailsAre
  <2>3. /\ AtPriceTick \notin {AtSecondTick, AtValidate, AtNeg, AtPost}
        /\ AtPrice \notin {AtSecondTick, AtValidate, AtNeg, AtPost}
        /\ AtAgain \notin {AtSecondTick, AtValidate, AtNeg, AtPost}
        /\ <<>> \notin {AtSecondTick, AtValidate, AtNeg, AtPost}
    BY Places, HeadsAre
  <2> QED BY <2>1, <2>2, <2>3, Zenon
<1>4. Len(<<>>) <= 1
  OBVIOUS
<1>5. CallOK(d, <<>>)
  BY <1>1, <1>2, <1>3, <1>4 DEF CallOK
<1> QED BY <1>5 DEF d

LEMMA Underway ==
    ASSUME OrdersInv, NEW t \in Threads, c_call[t].todo # <<>>
    PROVE  /\ c_call[t] \in OrderCalls /\ Left(c_call[t].task, c_call[t].todo)
           /\ CallOK(c_call[t], <<>>) /\ c_call[t].result = "none"
           /\ FetchOK(c_call[t], c_market.now, c_inFlight, c_clearedAt)
           /\ ~c_booked => LimitOK(c_call[t], c_tickCache)
           /\ <<>> \in Seq(Nat)
           /\ UNCHANGED c_posted => c_posted' = [c_posted EXCEPT ![t] = <<>>]
<1>1. /\ c_call[t] \in OrderCalls /\ CallOK(c_call[t], c_posted[t])
      /\ FetchOK(c_call[t], c_market.now, c_inFlight, c_clearedAt)
      /\ ~c_booked => LimitOK(c_call[t], c_tickCache)
      /\ c_posted \in [Threads -> Seq(Nat)]
  BY DEF OrdersInv, OrdersTypeOK
<1>2. c_posted[t] = <<>> /\ c_call[t].result = "none" /\ Left(c_call[t].task, c_call[t].todo)
  BY <1>1 DEF CallOK
<1> QED BY <1>1, <1>2

(* The call after a failure. *)
Failed(c, why) == [c EXCEPT !.todo = <<>>, !.phase = "run", !.result = why]
LEMMA FailedOrder ==
    ASSUME NEW c \in OrderCalls, NEW why \in {"error", "rejected"}
    PROVE  /\ Failed(c, why) \in OrderCalls /\ Failed(c, why).todo = <<>>
           /\ Failed(c, why).phase = "run" /\ Failed(c, why).result = why
           /\ Failed(c, why).task = c.task /\ Failed(c, why).got = c.got
           /\ Failed(c, why).since = c.since
<1> DEFINE d == Failed(c, why)
<1>1. d = [c EXCEPT !.todo = <<>>, !.phase = "run", !.result = why] /\ <<>> \in Seq(StepNames)
  BY DEF Failed
<1> HIDE DEF d
<1>2. d \in OrderCalls
  BY <1>1 DEF OrderCalls
<1>3. /\ d.todo = <<>> /\ d.phase = "run" /\ d.result = why /\ d.task = c.task
      /\ d.got = c.got /\ d.since = c.since
  BY <1>1 DEF OrderCalls
<1> QED BY <1>2, <1>3 DEF d

LEMMA FailedOK ==
    ASSUME NEW c \in OrderCalls, NEW why \in {"error", "rejected"}, NEW p \in Seq(Nat),
           p = <<>> \/ (why = "error" /\ Len(p) = 1)
    PROVE  CallOK(Failed(c, why), p)
<1> DEFINE d == Failed(c, why)
<1>1. Len(<<>>) = 0
  OBVIOUS
<1>2. Len(p) <= 1
  <2>1. CASE p = <<>>
    BY <1>1, <2>1
  <2>2. CASE Len(p) = 1
    BY <2>2
  <2> QED BY <2>1, <2>2
<1>3. d.todo = <<>> /\ d.phase = "run" /\ d.result = why
  BY FailedOrder
<1> HIDE DEF d
<1>4. CallOK(d, p)
  <2>1. <<>> \notin {AtSecondTick, AtValidate, AtNeg, AtPost}
    BY HeadsAre
  <2>2. d.result = "rejected" => p = <<>>
    BY <1>3
  <2> QED BY <1>2, <1>3, <2>1, <2>2 DEF CallOK, Left
<1> QED BY <1>4 DEF d

LEMMA FailedAtRest ==
    ASSUME NEW c \in OrderCalls, NEW why \in {"error", "rejected"}
    PROVE  ~Awaits(Failed(c, why))
<1>1. Failed(c, why).todo = <<>>
  BY FailedOrder
<1>2. AtGrid # <<>> /\ AtSecondTick # <<>>
  BY HeadsAre
<1> QED BY <1>1, <1>2 DEF Awaits

LEMMA FailAdvance ==
    ASSUME OrdersInv, NEW t \in Threads
    PROVE  /\ \A why : Orders!Fail(t, why) =>
                c_call' = [c_call EXCEPT ![t] = Failed(c_call[t], why)]
           /\ \A c : Orders!Advance(t, c) => c_call' = [c_call EXCEPT ![t] = Advanced(c)]
           /\ \A x : Orders!Phase(t, x) =>
                c_call' = [c_call EXCEPT ![t] = [c_call[t] EXCEPT !.phase = x]]
  BY DEF Orders!Fail, Orders!Advance, Orders!Phase, Failed, Advanced, OrdersInv, OrdersTypeOK,
         OrderCalls

(* A call that fails before it has posted anything, without a fetch to give up. *)
LEMMA OrdersFails ==
    ASSUME OrdersInv, NEW t \in Threads, c_call[t].todo # <<>>,
           NEW why \in {"error", "rejected"}, Orders!Fail(t, why),
           why = "rejected" /\ c_call[t].task = "limit" /\ ~c_booked =>
             c_call[t].got.read >= c_call[t].since,
           UNCHANGED <<c_market, c_tickCache, c_negCache, c_inFlight, c_clearedAt, c_posted,
                       c_booked>>
    PROVE  OrdersInv'
<1> DEFINE c == Failed(c_call[t], why)
<1>1. /\ c_call[t] \in OrderCalls /\ <<>> \in Seq(Nat)
      /\ c_posted' = [c_posted EXCEPT ![t] = <<>>] /\ c_call[t].since <= c_market.now
  BY Underway DEF FetchOK
<1>2. /\ c \in OrderCalls /\ c.todo = <<>> /\ c.phase = "run" /\ c.result = why
      /\ c.task = c_call[t].task /\ c.got = c_call[t].got /\ c.since = c_call[t].since
  BY <1>1, FailedOrder
<1>3. c_call' = [c_call EXCEPT ![t] = c]
  BY FailAdvance
<1>4. CallOK(c, <<>>) /\ ~Awaits(c)
  BY <1>1, FailedOK, FailedAtRest
<1> HIDE DEF c
<1>5. ~c_booked => LimitOK(c, c_tickCache')
  BY <1>2, HeadsAre DEF LimitOK
<1> QED BY <1>1, <1>2, <1>3, <1>4, <1>5, QuietStep

(* A call that goes on, having fetched nothing. *)
LEMMA OrdersAdvances ==
    ASSUME OrdersInv, NEW t \in Threads, c_call[t].todo # <<>>, Head(c_call[t].todo) # "post",
           NEW c \in OrderCalls, c.todo = c_call[t].todo, c.task = c_call[t].task,
           c.since = c_call[t].since,
           c.task = "market" /\ c.todo \in {AtSecondTick, AtValidate, AtNeg, AtPrice, AtAgain} =>
             c.price = c.level,
           Orders!Advance(t, c),
           UNCHANGED <<c_market, c_negCache, c_inFlight, c_clearedAt, c_posted, c_booked>>,
           c_tickCache' = c_tickCache \/ c_tickCache' = Orders!None,
           ~c_booked => LimitOK(Advanced(c), c_tickCache'),
           ~c_booked /\ Awaits(Advanced(c)) => "tick" \notin c_inFlight \/ Awaits(c_call[t])
    PROVE  OrdersInv'
<1> DEFINE d == Advanced(c)
<1>1. /\ Left(c.task, c.todo) /\ <<>> \in Seq(Nat)
      /\ c_posted' = [c_posted EXCEPT ![t] = <<>>] /\ c.since <= c_market.now
  BY Underway DEF FetchOK
<1>2. d \in OrderCalls /\ d.phase = "run" /\ d.since = c.since
  BY <1>1, AdvancedCall
<1>3. c_call' = [c_call EXCEPT ![t] = d]
  BY FailAdvance
<1>4. CallOK(d, <<>>)
  BY <1>1, AdvancedOK
<1>5. /\ ~c_booked => LimitOK(d, c_tickCache')
      /\ ~c_booked /\ Awaits(d) => "tick" \notin c_inFlight \/ Awaits(c_call[t])
  OBVIOUS
<1> HIDE DEF d
<1> QED BY <1>1, <1>2, <1>3, <1>4, <1>5, QuietStep

(* Where a limit order is after its step. *)
LEMMA AdvancedLimit ==
    ASSUME NEW c \in OrderCalls, Left(c.task, c.todo), c.todo # <<>>, c.task = "limit", NEW cache
    PROVE  LET d == Advanced(c) IN
           /\ c.todo = AtFirstTick => Awaits(d) /\ (cache = c.got => LimitOK(d, cache))
           /\ c.todo = AtGrid =>
                /\ Awaits(d)
                /\ cache = Orders!None => LimitOK(d, cache)
                /\ cache.read >= c.since => LimitOK(d, cache)
                /\ Orders!OnGrid(c.price, cache.tick) => LimitOK(d, cache)
           /\ c.todo = AtSecondTick =>
                /\ ~Awaits(d)
                /\ Orders!OnGrid(c.price, c.got.tick) => LimitOK(d, cache)
                /\ c.got.read >= c.since => LimitOK(d, cache)
           /\ c.todo \in {AtValidate, AtNeg, AtPost} => ~Awaits(d) /\ LimitOK(d, cache)
<1> DEFINE d == Advanced(c)
<1>1. /\ d.todo = Tail(c.todo) /\ d.task = c.task /\ d.price = c.price /\ d.got = c.got
      /\ d.since = c.since /\ d.result \in {"ok", "none"}
  BY AdvancedCall
<1>2. /\ Tail(AtFirstTick) = AtGrid /\ Tail(AtGrid) = AtSecondTick
      /\ Tail(AtSecondTick) = AtValidate /\ Tail(AtValidate) = AtNeg /\ Tail(AtNeg) = AtPost
      /\ Tail(AtPost) = <<>>
  BY TailsAre
<1>3. <<>> \notin {AtGrid, AtSecondTick, AtValidate}
  BY HeadsAre
<1> HIDE DEF d
<1>4. ASSUME c.todo = AtFirstTick PROVE Awaits(d) /\ (cache = c.got => LimitOK(d, cache))
  BY <1>1, <1>2, <1>4, Places DEF LimitOK, Awaits
<1>5. ASSUME c.todo = AtGrid
      PROVE  /\ Awaits(d)
             /\ cache = Orders!None => LimitOK(d, cache)
             /\ cache.read >= c.since => LimitOK(d, cache)
             /\ Orders!OnGrid(c.price, cache.tick) => LimitOK(d, cache)
  BY <1>1, <1>2, <1>5, Places DEF LimitOK, Awaits
<1>6. ASSUME c.todo = AtSecondTick
      PROVE  /\ ~Awaits(d)
             /\ Orders!OnGrid(c.price, c.got.tick) => LimitOK(d, cache)
             /\ c.got.read >= c.since => LimitOK(d, cache)
  BY <1>1, <1>2, <1>6, Places DEF LimitOK, Awaits
<1>7. ASSUME c.todo \in {AtValidate, AtNeg, AtPost} PROVE ~Awaits(d) /\ LimitOK(d, cache)
  BY <1>1, <1>2, <1>3, <1>7, Places DEF LimitOK, Awaits
<1> QED BY <1>4, <1>5, <1>6, <1>7 DEF d

(* The actions of one thread. *)
LEMMA OrdersGrid == ASSUME OrdersInv, NEW t \in Threads, Orders!Grid(t) PROVE OrdersInv'
<1> DEFINE c == c_call[t]
<1>1. /\ c.todo # <<>> /\ Head(c.todo) = "grid" /\ Orders!Advance(t, c)
      /\ c_tickCache' = IF Orders!OnGrid(c.price, c.got.tick) THEN c_tickCache ELSE Orders!None
      /\ UNCHANGED <<c_market, c_negCache, c_inFlight, c_clearedAt, c_posted, c_booked>>
  BY DEF Orders!Grid, Orders!At, Orders!Busy
<1>2. c \in OrderCalls /\ Left(c.task, c.todo) /\ (~c_booked => LimitOK(c, c_tickCache))
  BY <1>1, Underway
<1>3. c.task = "limit" /\ c.todo = AtGrid
  BY <1>1, <1>2, LeftStep
<1> HIDE DEF c
<1>4. ~c_booked => LimitOK(Advanced(c), c_tickCache')
  <2>1. ~c_booked => \/ c_tickCache' = Orders!None \/ c_tickCache'.read >= c.since
                     \/ Orders!OnGrid(c.price, c_tickCache'.tick)
    BY <1>1, <1>2, <1>3 DEF LimitOK
  <2> QED BY <1>1, <1>2, <1>3, <2>1, AdvancedLimit
<1>5. Awaits(c)
  BY <1>3 DEF Awaits
<1> QED BY <1>1, <1>2, <1>3, <1>4, <1>5, OrdersAdvances DEF c

LEMMA OrdersValidate == ASSUME OrdersInv, NEW t \in Threads, Orders!Validate(t) PROVE OrdersInv'
<1> DEFINE c == c_call[t]
<1>1. /\ c.todo # <<>> /\ Head(c.todo) = "validate"
      /\ IF Orders!OnGrid(c.price, c.got.tick) THEN Orders!Advance(t, c)
         ELSE Orders!Fail(t, "rejected")
      /\ UNCHANGED <<c_market, c_tickCache, c_negCache, c_inFlight, c_clearedAt, c_posted,
                     c_booked>>
  BY DEF Orders!Validate, Orders!At, Orders!Busy
<1>2. /\ c \in OrderCalls /\ Left(c.task, c.todo) /\ CallOK(c, <<>>)
      /\ ~c_booked => LimitOK(c, c_tickCache)
  BY <1>1, Underway
<1>3. c.todo = AtValidate
  BY <1>1, <1>2, LeftStep
<1>4. CASE Orders!OnGrid(c.price, c.got.tick)
  <2>1. /\ c.task = "limit" => LimitOK(Advanced(c), c_tickCache') /\ ~Awaits(Advanced(c))
        /\ c.task # "limit" => LimitOK(Advanced(c), c_tickCache') /\ ~Awaits(Advanced(c))
    BY <1>1, <1>2, <1>3, AdvancedLimit, AdvancedCall DEF LimitOK, Awaits
  <2>2. c.task = "market" => c.price = c.level
    BY <1>2, <1>3 DEF CallOK
  <2> QED BY <1>1, <1>2, <1>4, <2>1, <2>2, OrdersAdvances
<1>5. CASE ~Orders!OnGrid(c.price, c.got.tick)
  <2>1. c.task = "limit" /\ ~c_booked => c.got.read >= c.since
    BY <1>2, <1>3, <1>5 DEF LimitOK
  <2> QED BY <1>1, <1>5, <2>1, OrdersFails
<1> QED BY <1>4, <1>5

LEMMA OrdersRequested ==
    ASSUME OrdersInv, NEW t \in Threads, Orders!Requested(t) PROVE OrdersInv'
<1> DEFINE c == c_call[t]
           d == [c EXCEPT !.got = [Orders!None EXCEPT !.tick = c.level]]
<1>1. /\ c.todo # <<>> /\ Head(c.todo) = "cached"
      /\ Orders!Advance(t, d) \/ Orders!Fail(t, "rejected")
      /\ UNCHANGED <<c_market, c_tickCache, c_negCache, c_inFlight, c_clearedAt, c_posted,
                     c_booked>>
  BY DEF Orders!Requested, Orders!At, Orders!Busy
<1>2. c \in OrderCalls /\ Left(c.task, c.todo)
  BY <1>1, Underway
<1>3. c.task = "requested"
  BY <1>1, <1>2, LeftStep
<1>4. CASE Orders!Advance(t, d)
  <2>1. [Orders!None EXCEPT !.tick = c.level] \in TickValues
    BY <1>2 DEF Orders!None, TickValues, OrderCalls
  <2>2. d \in OrderCalls /\ d.todo = c.todo /\ d.task = c.task /\ d.since = c.since
    BY <1>2, <2>1 DEF OrderCalls
  <2> HIDE DEF d
  <2>3. LimitOK(Advanced(d), c_tickCache') /\ ~Awaits(Advanced(d))
    BY <1>1, <1>2, <1>3, <2>2, AdvancedCall DEF LimitOK, Awaits
  <2> QED BY <1>1, <1>3, <1>4, <2>2, <2>3, OrdersAdvances
<1>5. CASE Orders!Fail(t, "rejected")
  BY <1>1, <1>3, <1>5, OrdersFails
<1> QED BY <1>1, <1>4, <1>5

LEMMA OrdersResume == ASSUME OrdersInv, NEW t \in Threads, Orders!Resume(t) PROVE OrdersInv'
<1> DEFINE c == c_call[t]
           d == [c EXCEPT !.phase = "run"]
<1>1. /\ c.todo # <<>> /\ c.phase = "wait" /\ Orders!Phase(t, "run")
      /\ UNCHANGED <<c_market, c_tickCache, c_negCache, c_inFlight, c_clearedAt, c_posted,
                     c_booked>>
  BY DEF Orders!Resume, Orders!At, Orders!Busy
<1>2. /\ c \in OrderCalls /\ CallOK(c, <<>>) /\ c.since <= c_market.now
      /\ ~c_booked => LimitOK(c, c_tickCache)
      /\ <<>> \in Seq(Nat) /\ c_posted' = [c_posted EXCEPT ![t] = <<>>]
  BY <1>1, Underway DEF FetchOK
<1>3. c_call' = [c_call EXCEPT ![t] = d]
  BY <1>1, FailAdvance
<1>4. /\ d \in OrderCalls /\ d.phase = "run" /\ d.todo = c.todo /\ d.task = c.task
      /\ d.since = c.since /\ d.got = c.got /\ d.price = c.price /\ d.level = c.level
      /\ d.result = c.result
  BY <1>2 DEF OrderCalls
<1> HIDE DEF d
<1>5. CallOK(d, <<>>) /\ (LimitOK(c, c_tickCache) => LimitOK(d, c_tickCache'))
      /\ (Awaits(d) <=> Awaits(c))
  BY <1>1, <1>2, <1>4 DEF CallOK, Ordered, LimitOK, Awaits
<1> QED BY <1>1, <1>2, <1>3, <1>4, <1>5, QuietStep

LEMMA OrdersPrice == ASSUME OrdersInv, NEW t \in Threads, Orders!Price(t) PROVE OrdersInv'
<1> DEFINE c == c_call[t]
           d == [c EXCEPT !.price = c.level]
           e == [c EXCEPT !.todo = <<"tick", "again">> \o Tail(c.todo)]
<1>1. /\ c.todo # <<>> /\ Head(c.todo) \in {"price", "again", "quote"} /\ c.phase = "run"
      /\ \/ Orders!Advance(t, d) /\ c_tickCache' = c_tickCache
         \/ /\ Head(c.todo) = "price" /\ c_tickCache' = Orders!None
            /\ c_call' = [c_call EXCEPT ![t].todo = <<"tick", "again">> \o Tail(@)]
         \/ Orders!Fail(t, "rejected") /\ c_tickCache' = c_tickCache
      /\ UNCHANGED <<c_market, c_negCache, c_inFlight, c_clearedAt, c_posted, c_booked>>
  BY DEF Orders!Price, Orders!At, Orders!Busy
<1>2. /\ c \in OrderCalls /\ Left(c.task, c.todo) /\ CallOK(c, <<>>) /\ c.since <= c_market.now
      /\ <<>> \in Seq(Nat) /\ c_posted' = [c_posted EXCEPT ![t] = <<>>] /\ c.result = "none"
  BY <1>1, Underway DEF FetchOK
<1>3. c.task # "limit" /\ (Head(c.todo) = "price" => c.task = "market" /\ c.todo = AtPrice)
  BY <1>1, <1>2, LeftStep
<1>4. CASE Orders!Advance(t, d) /\ c_tickCache' = c_tickCache
  <2>1. /\ d \in OrderCalls /\ d.todo = c.todo /\ d.task = c.task /\ d.since = c.since
        /\ d.price = d.level
    BY <1>2 DEF OrderCalls
  <2> HIDE DEF d
  <2>2. LimitOK(Advanced(d), c_tickCache') /\ ~Awaits(Advanced(d))
    BY <1>1, <1>2, <1>3, <2>1, AdvancedCall DEF LimitOK, Awaits
  <2> QED BY <1>1, <1>4, <2>1, <2>2, OrdersAdvances
<1>5. CASE /\ Head(c.todo) = "price" /\ c_tickCache' = Orders!None
           /\ c_call' = [c_call EXCEPT ![t].todo = <<"tick", "again">> \o Tail(@)]
  <2>1. c_call' = [c_call EXCEPT ![t] = e]
    BY <1>5 DEF OrdersInv, OrdersTypeOK
  <2>2. <<"tick", "again">> \o Tail(c.todo) = AtRefresh /\ AtRefresh \in Seq(StepNames)
    BY <1>3, <1>5, RefreshIs, HeadsAre
  <2>3. e = [c EXCEPT !.todo = AtRefresh]
    BY <2>2
  <2> HIDE DEF e
  <2>4. e \in OrderCalls
    BY <1>2, <2>2, <2>3 DEF OrderCalls
  <2>5. /\ e.todo = AtRefresh /\ e.task = c.task /\ e.since = c.since /\ e.phase = c.phase
        /\ e.result = c.result
    BY <1>2, <2>3 DEF OrderCalls
  <2>6. AtRefresh \notin {AtSecondTick, AtValidate, AtNeg, AtPost} /\ AtRefresh # <<>>
    BY Places, HeadsAre
  <2>7. Left(e.task, e.todo)
    BY <1>3, <1>5, <2>5 DEF Left
  <2>8. Len(<<>>) <= 1
    OBVIOUS
  <2>9. CallOK(e, <<>>)
    BY <1>1, <1>2, <2>5, <2>6, <2>7, <2>8 DEF CallOK
  <2>10. LimitOK(e, c_tickCache') /\ ~Awaits(e)
    BY <1>3, <2>5 DEF LimitOK, Awaits
  <2> QED BY <1>1, <1>2, <1>5, <2>1, <2>4, <2>5, <2>9, <2>10, QuietStep
<1>6. CASE Orders!Fail(t, "rejected") /\ c_tickCache' = c_tickCache
  BY <1>1, <1>3, <1>6, OrdersFails
<1> QED BY <1>1, <1>4, <1>5, <1>6

LEMMA OrdersPost == ASSUME OrdersInv, NEW t \in Threads, Orders!Post(t) PROVE OrdersInv'
<1> DEFINE c == c_call[t]
           p == <<c.price>>
<1>1. /\ c.todo # <<>> /\ Head(c.todo) = "post"
      /\ c_posted' = [c_posted EXCEPT ![t] = Append(c_posted[t], c.price)]
      /\ Orders!Advance(t, c) \/ Orders!Fail(t, "error")
      /\ UNCHANGED <<c_market, c_tickCache, c_negCache, c_inFlight, c_clearedAt, c_booked>>
  BY DEF Orders!Post, Orders!At, Orders!Busy
<1>2. /\ c \in OrderCalls /\ Left(c.task, c.todo) /\ CallOK(c, <<>>) /\ c.since <= c_market.now
      /\ c.result = "none" /\ c_posted[t] = <<>>
  BY <1>1, Underway DEF FetchOK, OrdersInv, CallOK
<1>3. Append(c_posted[t], c.price) = p /\ p \in Seq(Nat) /\ Len(p) = 1
  BY <1>2 DEF OrderCalls
<1>4. c.todo = AtPost /\ c.task \in OrderTasks
  BY <1>1, <1>2, LeftStep DEF OrderTasks
<1>5. c.task = "market" => c.price = c.level
  BY <1>2, <1>4 DEF CallOK
<1> HIDE DEF p
<1>6. CASE Orders!Advance(t, c)
  <2> DEFINE d == Advanced(c)
  <2>1. /\ d \in OrderCalls /\ d.todo = <<>> /\ d.phase = "run" /\ d.result = "ok"
        /\ d.task = c.task /\ d.price = c.price /\ d.level = c.level /\ d.since = c.since
    <3>1. Tail(c.todo) = <<>> /\ Len(c.todo) = 1
      BY <1>4, TailsAre, LengthsAre
    <3>2. /\ d \in OrderCalls /\ d.todo = Tail(c.todo) /\ d.phase = "run"
          /\ d.result = IF Len(c.todo) = 1 THEN "ok" ELSE "none"
          /\ d.task = c.task /\ d.price = c.price /\ d.level = c.level /\ d.since = c.since
      BY <1>1, <1>2, AdvancedCall
    <3> HIDE DEF d
    <3> QED BY <3>1, <3>2
  <2>2. c_call' = [c_call EXCEPT ![t] = d]
    BY <1>6, FailAdvance
  <2> HIDE DEF d
  <2>3. <<>> \notin {AtSecondTick, AtValidate, AtNeg, AtPost, AtGrid}
    BY HeadsAre
  <2>4. p = <<Ordered(d)>>
    BY <1>5, <2>1 DEF p, Ordered
  <2>5. CallOK(d, p)
    BY <1>3, <2>1, <2>3, <2>4 DEF CallOK, Left
  <2>6. LimitOK(d, c_tickCache') /\ ~Awaits(d)
    BY <2>1, <2>3 DEF LimitOK, Awaits
  <2> QED BY <1>1, <1>2, <1>3, <2>1, <2>2, <2>5, <2>6, QuietStep
<1>7. CASE Orders!Fail(t, "error")
  <2> DEFINE d == Failed(c, "error")
  <2>1. /\ d \in OrderCalls /\ d.todo = <<>> /\ d.phase = "run" /\ d.result = "error"
        /\ d.task = c.task /\ d.since = c.since
    BY <1>2, FailedOrder
  <2>2. c_call' = [c_call EXCEPT ![t] = d]
    BY <1>7, FailAdvance
  <2>3. CallOK(d, p) /\ ~Awaits(d)
    BY <1>2, <1>3, FailedOK, FailedAtRest
  <2> HIDE DEF d
  <2>4. LimitOK(d, c_tickCache')
    BY <2>1, HeadsAre DEF LimitOK
  <2> QED BY <1>1, <1>2, <1>3, <2>1, <2>2, <2>3, <2>4, QuietStep
<1> QED BY <1>1, <1>6, <1>7

LEMMA OrdersBegin ==
    ASSUME OrdersInv, NEW t \in Threads, NEW task \in Tasks, NEW price \in Nat, NEW tick \in Nat,
           Orders!Begin(t, task, price, tick)
    PROVE  OrdersInv'
<1> DEFINE c == [Orders!Resting EXCEPT !.task = task, !.todo = Orders!Steps[task],
                   !.price = price, !.level = tick, !.since = c_market.now]
<1>1. /\ c_call' = [c_call EXCEPT ![t] = c] /\ c_posted' = [c_posted EXCEPT ![t] = <<>>]
      /\ UNCHANGED <<c_market, c_tickCache, c_negCache, c_inFlight, c_clearedAt, c_booked>>
  BY DEF Orders!Begin
<1>2. c_market.now \in Nat /\ <<>> \in Seq(Nat)
  BY DEF OrdersInv, OrdersTypeOK
<1>3. /\ Left(task, Orders!Steps[task]) /\ Orders!Steps[task] \in Seq(StepNames)
      /\ Orders!Steps[task] # <<>>
      /\ Orders!Steps[task] \notin {AtGrid, AtSecondTick, AtValidate, AtNeg, AtPost}
  <2>1. CASE task \in {"tick", "neg", "book", "clear"}
    <3>1. Orders!Steps[task] = <<task>>
      BY <2>1, StepsAre
    <3>2. <<task>> # <<>> /\ Len(<<task>>) = 1 /\ Head(<<task>>) = task
            /\ <<task>> \in Seq(StepNames)
      BY <2>1 DEF StepNames
    <3>3. <<task>> \notin {AtGrid, AtSecondTick, AtValidate, AtNeg, AtPost}
      BY <2>1, <3>2, HeadsAre, LengthsAre
    <3> QED BY <2>1, <3>1, <3>2, <3>3 DEF Left
  <2>2. CASE task \in {"estimate", "limit", "requested", "market"}
    <3>1. Orders!Steps[task] \in {AtQuoteBook, AtFirstTick, AtCached, AtBook}
      BY <2>2, StepsAre
    <3>2. /\ AtQuoteBook \notin {AtGrid, AtSecondTick, AtValidate, AtNeg, AtPost}
          /\ AtFirstTick \notin {AtGrid, AtSecondTick, AtValidate, AtNeg, AtPost}
          /\ AtCached \notin {AtGrid, AtSecondTick, AtValidate, AtNeg, AtPost}
          /\ AtBook \notin {AtGrid, AtSecondTick, AtValidate, AtNeg, AtPost}
      BY HeadsAre, Places
    <3>3. Left(task, Orders!Steps[task])
      BY <2>2, StepsAre DEF Left
    <3> QED BY <3>1, <3>2, <3>3, HeadsAre
  <2> QED BY <2>1, <2>2 DEF Tasks
<1> DEFINE todo == Orders!Steps[task]
<1>4. Orders!Resting \in OrderCalls /\ Orders!Resting.phase = "run"
        /\ Orders!Resting.result = "none"
  <2>1. <<>> \in Seq(StepNames)
    OBVIOUS
  <2> QED BY <2>1, NoneType DEF Orders!Resting, OrderCalls
<1>5. /\ c = [Orders!Resting EXCEPT !.task = task, !.todo = todo,
                 !.price = price, !.level = tick, !.since = c_market.now]
      /\ Left(task, todo) /\ todo \in Seq(StepNames) /\ todo # <<>>
      /\ todo \notin {AtGrid, AtSecondTick, AtValidate, AtNeg, AtPost}
  BY <1>3
<1> HIDE DEF c, todo
<1>6. c \in OrderCalls
  BY <1>2, <1>4, <1>5 DEF OrderCalls
<1>7. /\ c.task = task /\ c.todo = todo /\ c.phase = "run" /\ c.result = "none"
      /\ c.since = c_market.now
  BY <1>4, <1>5 DEF OrderCalls
<1>8. Len(<<>>) <= 1
  OBVIOUS
<1>9. CallOK(c, <<>>)
  BY <1>5, <1>7, <1>8 DEF CallOK
<1>10. LimitOK(c, c_tickCache') /\ ~Awaits(c)
  BY <1>5, <1>7 DEF LimitOK, Awaits
<1>11. c.since <= c_market.now
  BY <1>2, <1>7
<1> QED BY <1>1, <1>2, <1>6, <1>7, <1>9, <1>10, <1>11, QuietStep

(* The same call in another phase. *)
LEMMA Rephased ==
    ASSUME NEW c \in OrderCalls, NEW x \in {"run", "wait", "ask", "answer"}
    PROVE  LET d == [c EXCEPT !.phase = x] IN
           /\ d \in OrderCalls /\ d.phase = x /\ d.todo = c.todo /\ d.task = c.task
           /\ d.since = c.since /\ d.got = c.got /\ d.price = c.price /\ d.level = c.level
           /\ d.result = c.result
           /\ \A cache : LimitOK(c, cache) => LimitOK(d, cache)
           /\ Awaits(d) <=> Awaits(c)
<1> DEFINE d == [c EXCEPT !.phase = x]
<1>1. /\ d \in OrderCalls /\ d.phase = x /\ d.todo = c.todo /\ d.task = c.task
      /\ d.since = c.since /\ d.got = c.got /\ d.price = c.price /\ d.level = c.level
      /\ d.result = c.result
  BY DEF OrderCalls
<1> HIDE DEF d
<1>2. /\ \A cache : LimitOK(c, cache) => LimitOK(d, cache)
      /\ Awaits(d) <=> Awaits(c)
  BY <1>1 DEF LimitOK, Awaits
<1> QED BY <1>1, <1>2 DEF d

LEMMA OrdersHit ==
    ASSUME OrdersInv, NEW t \in Threads, c_call[t].todo # <<>>,
           NEW key \in Orders!Keys, Head(c_call[t].todo) = key, Orders!Cached(key),
           Orders!Advance(t, IF key = "tick" THEN [c_call[t] EXCEPT !.got = c_tickCache]
                             ELSE c_call[t]),
           UNCHANGED <<c_market, c_tickCache, c_negCache, c_inFlight, c_clearedAt, c_posted,
                       c_booked>>
    PROVE  OrdersInv'
<1> DEFINE c == c_call[t]
           d == [c EXCEPT !.got = c_tickCache]
<1>1. /\ c \in OrderCalls /\ Left(c.task, c.todo) /\ CallOK(c, <<>>)
      /\ ~c_booked => LimitOK(c, c_tickCache)
  BY Underway
<1>2. c.task = "market" /\ c.todo \in {AtSecondTick, AtValidate, AtNeg} => c.price = c.level
  BY <1>1 DEF CallOK
<1>3. c.todo \notin {AtPrice, AtAgain}
  BY NoneType, HeadsAre
<1>4. CASE key = "tick"
  <2>1. c_tickCache \in TickValues
    BY DEF OrdersInv, OrdersTypeOK
  <2>2. /\ d \in OrderCalls /\ d.todo = c.todo /\ d.task = c.task /\ d.since = c.since
        /\ d.price = c.price /\ d.level = c.level /\ d.got = c_tickCache
    BY <1>1, <2>1 DEF OrderCalls
  <2>3. Orders!Advance(t, d)
    BY <1>4
  <2> HIDE DEF d
  <2>4. c_tickCache # Orders!None /\ (~c_booked => "tick" \notin c_inFlight)
    BY <1>4 DEF Orders!Cached, OrdersInv, Uncached
  <2>5. ~c_booked => LimitOK(Advanced(d), c_tickCache')
    <3>1. CASE c.task # "limit"
      BY <1>1, <2>2, <3>1, AdvancedCall DEF LimitOK
    <3>2. CASE c.task = "limit"
      <4>1. c.todo \in {AtFirstTick, AtSecondTick}
        BY <1>1, <1>4, <3>2, LeftStep
      <4>2. CASE c.todo = AtFirstTick
        BY <1>1, <2>2, <3>2, <4>2, AdvancedLimit
      <4>3. CASE c.todo = AtSecondTick
        <5>1. ~c_booked => Orders!OnGrid(d.price, d.got.tick) \/ d.got.read >= d.since
          BY <1>1, <2>2, <2>4, <3>2, <4>3 DEF LimitOK
        <5> QED BY <1>1, <2>2, <3>2, <4>3, <5>1, AdvancedLimit
      <4> QED BY <4>1, <4>2, <4>3
    <3> QED BY <3>1, <3>2
  <2> QED BY <1>2, <1>3, <1>4, <2>2, <2>3, <2>4, <2>5, OrdersAdvances
<1>5. CASE key = "neg"
  <2>1. Orders!Advance(t, c)
    BY <1>5
  <2>2. LimitOK(Advanced(c), c_tickCache') /\ ~Awaits(Advanced(c))
    <3>1. CASE c.task # "limit"
      BY <1>1, <3>1, AdvancedCall DEF LimitOK, Awaits
    <3>2. CASE c.task = "limit"
      <4>1. c.todo = AtNeg
        BY <1>1, <1>5, <3>2, LeftStep
      <4> QED BY <1>1, <3>2, <4>1, AdvancedLimit
    <3> QED BY <3>1, <3>2
  <2> QED BY <1>1, <1>2, <1>3, <1>5, <2>1, <2>2, OrdersAdvances
<1> QED BY <1>4, <1>5, NoneType

LEMMA OrdersLookup == ASSUME OrdersInv, NEW t \in Threads, Orders!Lookup(t) PROVE OrdersInv'
<1> DEFINE c == c_call[t]
           key == Head(c.todo)
<1>1. /\ c.todo # <<>> /\ key \in Orders!Keys
      /\ UNCHANGED <<c_market, c_tickCache, c_negCache, c_clearedAt, c_posted, c_booked>>
      /\ IF Orders!Cached(key)
         THEN /\ Orders!Advance(t, IF key = "tick" THEN [c EXCEPT !.got = c_tickCache] ELSE c)
              /\ UNCHANGED c_inFlight
         ELSE IF key \in c_inFlight
         THEN Orders!Phase(t, "wait") /\ UNCHANGED c_inFlight
         ELSE Orders!Phase(t, "ask") /\ c_inFlight' = c_inFlight \cup {key}
  BY DEF Orders!Lookup, Orders!At, Orders!Busy
<1>2. /\ c \in OrderCalls /\ Left(c.task, c.todo) /\ CallOK(c, <<>>) /\ c.since <= c_market.now
      /\ ~c_booked => LimitOK(c, c_tickCache)
      /\ <<>> \in Seq(Nat) /\ c_posted' = [c_posted EXCEPT ![t] = <<>>]
  BY <1>1, Underway DEF FetchOK
<1>3. CASE Orders!Cached(key)
  BY <1>1, <1>3, OrdersHit
<1>4. CASE Orders!Phase(t, "wait") /\ UNCHANGED c_inFlight
  <2> DEFINE d == [c EXCEPT !.phase = "wait"]
  <2>1. c_call' = [c_call EXCEPT ![t] = d]
    BY <1>4, FailAdvance
  <2>2. /\ d \in OrderCalls /\ d.phase = "wait" /\ d.todo = c.todo /\ d.task = c.task
        /\ d.since = c.since /\ d.got = c.got /\ d.price = c.price /\ d.level = c.level
        /\ d.result = c.result
        /\ LimitOK(c, c_tickCache) => LimitOK(d, c_tickCache)
        /\ Awaits(d) <=> Awaits(c)
    BY <1>2, Rephased
  <2> HIDE DEF d
  <2>3. CallOK(d, <<>>)
    BY <1>1, <1>2, <2>2 DEF CallOK, Ordered
  <2> QED BY <1>1, <1>2, <1>4, <2>1, <2>2, <2>3, QuietStep
<1>5. CASE /\ ~Orders!Cached(key) /\ key \notin c_inFlight
           /\ Orders!Phase(t, "ask") /\ c_inFlight' = c_inFlight \cup {key}
  <2> DEFINE d == [c EXCEPT !.phase = "ask"]
  <2>1. c_call' = [c_call EXCEPT ![t] = d]
    BY <1>5, FailAdvance
  <2>2. /\ d \in OrderCalls /\ d.phase = "ask" /\ d.todo = c.todo /\ d.task = c.task
        /\ d.since = c.since /\ d.got = c.got /\ d.price = c.price /\ d.level = c.level
        /\ d.result = c.result
        /\ LimitOK(c, c_tickCache) => LimitOK(d, c_tickCache)
        /\ Awaits(d) <=> Awaits(c)
    BY <1>2, Rephased
  <2> HIDE DEF d
  <2>3. CallOK(d, <<>>)
    BY <1>1, <1>2, <2>2 DEF CallOK, Ordered
  <2>4. ~Brings(d) /\ \A k \in Orders!Keys : Fetches(d, k) => k = key
    BY <2>2 DEF Brings, Fetches
  <2>5. FetchOK(d, c_market.now, c_inFlight', c_clearedAt')
    BY <1>2, <1>5, <2>2, <2>4 DEF FetchOK
  <2>6. OrdersTypeOK /\ c_inFlight' \subseteq Orders!Keys
    BY <1>1, <1>5 DEF OrdersInv, OrdersTypeOK
  <2>7. Uncached' /\ Orders!FreshAfterClear'
    BY <1>1, <1>5, NoneType DEF OrdersInv, Uncached, Orders!FreshAfterClear, Orders!Cached
  <2>8. ASSUME NEW u \in Threads \ {t}, NEW k \in Orders!Keys, Fetches(c_call[u], k)
        PROVE  k \in c_inFlight' /\ ~Fetches(d, k)
    <3>1. k \in c_inFlight
      BY <2>8 DEF OrdersInv, FetchOK
    <3> QED BY <1>5, <2>4, <3>1
  <2>9. ASSUME ~c_booked, NEW u \in Threads \ {t}, Awaits(d), Brings(c_call[u])
        PROVE  c_call[u].got.read >= d.since
    BY <2>2, <2>9 DEF OrdersInv, RecentComes
  <2> QED BY <1>1, <1>2, <2>1, <2>2, <2>3, <2>4, <2>5, <2>6, <2>7, <2>8, <2>9, ThreadStep
          DEF OrdersTypeOK
<1> QED BY <1>1, <1>3, <1>4, <1>5

LEMMA OrdersAnswered == ASSUME OrdersInv, NEW t \in Threads, Orders!Answered(t) PROVE OrdersInv'
<1> DEFINE c == c_call[t]
           step == Head(c.todo)
           tick == [tick |-> c_market.tick, read |-> c_market.now, by |-> step]
           got == IF step = "neg" THEN c.got ELSE tick
<1>1. /\ c.todo # <<>>
      /\ (step \in Orders!Keys /\ c.phase = "ask") \/ (step = "book" /\ c.phase = "run")
      /\ UNCHANGED <<c_market, c_tickCache, c_negCache, c_inFlight, c_clearedAt, c_posted,
                     c_booked>>
  BY DEF Orders!Answered, Orders!At, Orders!Busy
<1>2. PICK q \in Prices :
        c_call' = [c_call EXCEPT ![t].phase = "answer",
                     ![t].level = IF Head(c_call[t].todo) = "book" THEN q ELSE @,
                     ![t].got = IF Head(c_call[t].todo) = "neg" THEN @ ELSE
                                [tick |-> c_market.tick, read |-> c_market.now,
                                 by |-> Head(c_call[t].todo)]]
  BY DEF Orders!Answered
<1>3. /\ c \in OrderCalls /\ Left(c.task, c.todo) /\ CallOK(c, <<>>)
      /\ FetchOK(c, c_market.now, c_inFlight, c_clearedAt)
      /\ ~c_booked => LimitOK(c, c_tickCache)
      /\ <<>> \in Seq(Nat) /\ c_posted' = [c_posted EXCEPT ![t] = <<>>]
  BY <1>1, Underway
<1>4. OrdersTypeOK /\ c_market.now \in Nat /\ c_market.tick \in Nat /\ c_clearedAt <= c_market.now
  BY DEF OrdersInv, OrdersTypeOK
<1> DEFINE level == IF step = "book" THEN q ELSE c.level
           d == [c EXCEPT !.phase = "answer", !.level = level, !.got = got]
<1>5. c_call' = [c_call EXCEPT ![t] = d]
  BY <1>2, <1>4 DEF OrdersTypeOK
<1>6. step = "neg" \/ (tick \in TickValues /\ tick.read = c_market.now /\ tick.by = step)
  BY <1>1, <1>4, NoneType DEF TickValues
<1>7. /\ got \in TickValues
      /\ step # "neg" => got.read = c_market.now /\ got.by = step
  <2>1. c.got \in TickValues
    BY <1>3 DEF OrderCalls
  <2> HIDE DEF tick
  <2> QED BY <1>6, <2>1
<1>8. level \in Nat /\ (step # "book" => level = c.level)
  BY <1>3, OrdersAssumption DEF OrderCalls
<1> HIDE DEF got, level, d
<1>9. /\ d \in OrderCalls /\ d.phase = "answer" /\ d.todo = c.todo /\ d.task = c.task
      /\ d.since = c.since /\ d.got = got /\ d.price = c.price /\ d.level = level
      /\ d.result = c.result
  BY <1>3, <1>7, <1>8 DEF OrderCalls, d
<1>10. CallOK(d, <<>>)
  <2>1. step = "book" => c.todo \notin {AtSecondTick, AtValidate, AtNeg, AtPost}
    BY HeadsAre
  <2>2. step \in Orders!Keys \cup {"book"}
    BY <1>1
  <2>3. d.task = "market" /\ d.todo \in {AtSecondTick, AtValidate, AtNeg, AtPost}
          => d.price = d.level
    BY <1>3, <1>8, <1>9, <2>1 DEF CallOK
  <2> QED BY <1>1, <1>3, <1>7, <1>9, <2>2, <2>3 DEF CallOK
<1>11. \A k \in Orders!Keys : Fetches(d, k) => Fetches(c, k)
  BY <1>1, <1>9, NoneType DEF Fetches
<1>12. Brings(d) => d.got.read = c_market.now
  BY <1>7, <1>9 DEF Brings
<1>13. FetchOK(d, c_market.now, c_inFlight', c_clearedAt')
  BY <1>1, <1>3, <1>4, <1>9, <1>11, <1>12 DEF FetchOK
<1>14. LimitOK(c, c_tickCache) => LimitOK(d, c_tickCache')
  <2>1. c.todo \notin {AtGrid, AtValidate}
    BY <1>1, NoneType, HeadsAre
  <2>2. c.result = "none"
    BY <1>1, <1>3 DEF CallOK
  <2> QED BY <1>1, <1>9, <2>1, <2>2 DEF LimitOK
<1>15. Uncached' /\ Orders!FreshAfterClear'
  BY <1>1 DEF OrdersInv, Uncached, Orders!FreshAfterClear
<1>16. ASSUME NEW u \in Threads \ {t}, NEW k \in Orders!Keys, Fetches(c_call[u], k)
       PROVE  k \in c_inFlight' /\ ~Fetches(d, k)
  <2>1. k \in c_inFlight
    BY <1>16 DEF OrdersInv, FetchOK
  <2>2. ~Fetches(c, k)
    BY <1>16 DEF OrdersInv, OneFetches
  <2> QED BY <1>1, <1>11, <2>1, <2>2
<1>17. ASSUME ~c_booked, NEW u \in Threads \ {t}
       PROVE  /\ Awaits(d) /\ Brings(c_call[u]) => c_call[u].got.read >= d.since
              /\ Awaits(c_call[u]) /\ Brings(d) => d.got.read >= c_call[u].since
  <2>1. Awaits(d) => Awaits(c)
    BY <1>9 DEF Awaits
  <2>2. c_call[u].since <= c_market.now /\ c_call[u].since \in Nat
    BY <1>4 DEF OrdersInv, FetchOK, OrdersTypeOK, OrderCalls
  <2> QED BY <1>4, <1>9, <1>12, <1>17, <2>1, <2>2 DEF OrdersInv, RecentComes
<1> HIDE DEF step, tick
<1> QED BY <1>1, <1>3, <1>4, <1>5, <1>9, <1>10, <1>13, <1>14, <1>15, <1>16, <1>17, ThreadStep
        DEF OrdersTypeOK

LEMMA OrdersFetchFails == ASSUME OrdersInv, NEW t \in Threads, Orders!FetchFails(t) PROVE OrdersInv'
<1> DEFINE c == c_call[t]
           gone == IF c.phase = "ask" THEN {Head(c.todo)} ELSE {}
           d == Failed(c, "error")
<1>1. /\ c.todo # <<>>
      /\ \/ Head(c.todo) \in Orders!Keys /\ c.phase = "ask"
         \/ Head(c.todo) = "book" /\ c.phase = "run"
      /\ UNCHANGED <<c_market, c_tickCache, c_negCache, c_clearedAt, c_posted, c_booked>>
      /\ c_inFlight' = c_inFlight \ gone /\ Orders!Fail(t, "error")
  BY DEF Orders!FetchFails, Orders!At, Orders!Busy
<1>2. /\ c \in OrderCalls /\ <<>> \in Seq(Nat) /\ c.since <= c_market.now
      /\ c_posted' = [c_posted EXCEPT ![t] = <<>>]
  BY <1>1, Underway DEF FetchOK
<1>3. OrdersTypeOK /\ c_inFlight' \subseteq Orders!Keys
  BY <1>1 DEF OrdersInv, OrdersTypeOK
<1>4. /\ d \in OrderCalls /\ d.todo = <<>> /\ d.phase = "run" /\ d.result = "error"
      /\ d.task = c.task /\ d.since = c.since
  BY <1>2, FailedOrder
<1>5. c_call' = [c_call EXCEPT ![t] = d]
  BY <1>1, FailAdvance
<1>6. CallOK(d, <<>>) /\ ~Awaits(d)
  BY <1>2, FailedOK, FailedAtRest
<1> HIDE DEF d
<1>7. LimitOK(d, c_tickCache')
  BY <1>4, HeadsAre DEF LimitOK
<1>8. ~Brings(d) /\ \A k \in Orders!Keys : ~Fetches(d, k)
  BY <1>4 DEF Brings, Fetches
<1>9. FetchOK(d, c_market.now, c_inFlight', c_clearedAt')
  BY <1>2, <1>4, <1>8 DEF FetchOK
<1>10. Uncached' /\ Orders!FreshAfterClear'
  BY <1>1 DEF OrdersInv, Uncached, Orders!FreshAfterClear
<1>11. ASSUME NEW u \in Threads \ {t}, NEW k \in Orders!Keys, Fetches(c_call[u], k)
       PROVE  k \in c_inFlight'
  <2>1. k \in c_inFlight /\ ~Fetches(c, k)
    BY <1>11 DEF OrdersInv, FetchOK, OneFetches
  <2>2. k \notin gone
    BY <1>1, <2>1 DEF Fetches
  <2> QED BY <1>1, <2>1, <2>2
<1> HIDE DEF gone
<1> QED BY <1>1, <1>2, <1>3, <1>4, <1>5, <1>6, <1>7, <1>8, <1>9, <1>10, <1>11, ThreadStep
        DEF OrdersTypeOK

LEMMA OrdersStore == ASSUME OrdersInv, NEW t \in Threads, Orders!Store(t) PROVE OrdersInv'
<1> DEFINE c == c_call[t]
           step == Head(c.todo)
           d == Advanced(c)
<1>1. /\ c.todo # <<>> /\ step \in Orders!Keys \cup {"book"} /\ c.phase = "answer"
      /\ c_inFlight' = c_inFlight \ {step} /\ Orders!Advance(t, c)
      /\ UNCHANGED <<c_market, c_clearedAt, c_posted>>
  BY DEF Orders!Store, Orders!At, Orders!Busy
<1>2. /\ step = "neg" => c_tickCache' = c_tickCache
      /\ step = "tick" => c_tickCache' = c.got
      /\ step = "book" => c_tickCache' = c_tickCache \/ c_tickCache' = c.got
      /\ c_negCache' = c_negCache \/ c_negCache' = TRUE
      /\ c_booked' = (c_booked \/ (step = "book" /\ c_tickCache' = c.got))
  BY <1>1, NoneType DEF Orders!Store
<1>3. /\ c \in OrderCalls /\ Left(c.task, c.todo) /\ CallOK(c, <<>>)
      /\ FetchOK(c, c_market.now, c_inFlight, c_clearedAt)
      /\ <<>> \in Seq(Nat) /\ c_posted' = [c_posted EXCEPT ![t] = <<>>]
  BY <1>1, Underway
<1>4. /\ OrdersTypeOK /\ c.got \in TickValues /\ c_negCache \in BOOLEAN
      /\ c_tickCache \in TickValues /\ c_inFlight \subseteq Orders!Keys
  BY <1>3 DEF OrdersInv, OrdersTypeOK, OrderCalls
<1>5. /\ c_tickCache' \in TickValues /\ c_inFlight' \subseteq Orders!Keys
      /\ c_negCache' \in BOOLEAN /\ c_booked' \in BOOLEAN /\ (c_booked => c_booked')
  <2>1. c_tickCache' \in TickValues /\ c_inFlight' \subseteq Orders!Keys
    BY <1>1, <1>2, <1>4, NoneType
  <2>2. c_negCache' \in BOOLEAN
    BY <1>2, <1>4, Zenon
  <2>3. c_booked' \in BOOLEAN
    BY <1>2
  <2>4. c_booked => c_booked'
    BY <1>2
  <2> QED BY <2>1, <2>2, <2>3, <2>4
<1>6. ~c_booked' => ~c_booked /\ (step = "book" => c_tickCache' # c.got)
  BY <1>2
<1>7. /\ d \in OrderCalls /\ d.phase = "run" /\ d.since = c.since
      /\ d.task = c.task /\ d.got = c.got /\ d.todo = Tail(c.todo)
  BY <1>1, <1>3, AdvancedCall
<1>8. c_call' = [c_call EXCEPT ![t] = d]
  BY <1>1, FailAdvance
<1>9. CallOK(d, <<>>)
  <2>1. c.todo \notin {AtPrice, AtAgain, AtPost} /\ step # "post"
    BY <1>1, NoneType, HeadsAre
  <2>2. c.task = "market" /\ c.todo \in {AtSecondTick, AtValidate, AtNeg, AtPrice, AtAgain} =>
          c.price = c.level
    BY <1>3, <2>1 DEF CallOK
  <2> QED BY <1>1, <1>3, <2>1, <2>2, AdvancedOK
<1>10. step = "tick" => Brings(c) /\ c.got.read >= c.since /\ c.got.read >= c_clearedAt
  BY <1>1, <1>3 DEF FetchOK, Brings
<1>11. ~c_booked' => LimitOK(d, c_tickCache')
  <2>1. CASE c.task # "limit"
    BY <1>7, <2>1 DEF LimitOK
  <2>2. CASE c.task = "limit" /\ step = "tick"
    <3>1. c.todo \in {AtFirstTick, AtSecondTick}
      BY <1>1, <1>3, <2>2, LeftStep
    <3> QED BY <1>1, <1>2, <1>3, <1>10, <2>2, <3>1, AdvancedLimit
  <2>3. CASE c.task = "limit" /\ step = "neg"
    <3>1. c.todo = AtNeg
      BY <1>1, <1>3, <2>3, LeftStep
    <3> QED BY <1>1, <1>3, <2>3, <3>1, AdvancedLimit
  <2>4. CASE c.task = "limit" /\ step = "book"
    BY <1>1, <1>3, <2>4, LeftStep
  <2> QED BY <1>1, <2>1, <2>2, <2>3, <2>4, NoneType
<1>12. ~Brings(d) /\ \A k \in Orders!Keys : ~Fetches(d, k)
  BY <1>7 DEF Brings, Fetches
<1>13. c.since <= c_market.now
  BY <1>3 DEF FetchOK
<1>14. FetchOK(d, c_market.now, c_inFlight', c_clearedAt')
  BY <1>7, <1>12, <1>13 DEF FetchOK
<1>15. Uncached'
  BY <1>1, <1>2, <1>6, NoneType DEF OrdersInv, Uncached
<1>16. Orders!FreshAfterClear'
  <2>1. CASE c_tickCache' = c_tickCache
    BY <1>1, <2>1 DEF OrdersInv, Orders!FreshAfterClear
  <2>2. CASE c_tickCache' = c.got /\ step \in {"tick", "book"}
    <3>1. c.got.by = step
      BY <1>1, <1>3, <2>2 DEF CallOK
    <3> QED BY <1>1, <1>10, <2>2, <3>1 DEF Orders!FreshAfterClear
  <2> QED BY <1>1, <1>2, <2>1, <2>2, NoneType
<1>17. \A k \in Orders!Keys : step = k => Fetches(c, k)
  BY <1>1 DEF Fetches
<1>18. ASSUME NEW u \in Threads \ {t}, NEW k \in Orders!Keys, Fetches(c_call[u], k)
       PROVE  k \in c_inFlight' /\ ~Fetches(d, k)
  <2>1. k \in c_inFlight /\ ~Fetches(c, k)
    BY <1>18 DEF OrdersInv, FetchOK, OneFetches
  <2> QED BY <1>1, <1>12, <1>17, <2>1
<1>19. ~c_booked' => \/ c_tickCache' = c_tickCache \/ c_tickCache' = Orders!None
                     \/ Brings(c) /\ c_tickCache' = c.got
  BY <1>1, <1>2, <1>6, <1>10, NoneType
<1>20. ASSUME ~c_booked', NEW u \in Threads \ {t}, Awaits(d), Brings(c_call[u])
       PROVE  c_call[u].got.read >= d.since
  <2>1. Fetches(c_call[u], "tick") /\ "tick" \in Orders!Keys
    BY <1>20, NoneType DEF Brings, Fetches
  <2>2. step # "tick"
    BY <1>17, <2>1 DEF OrdersInv, OneFetches
  <2>3. step = "neg" /\ c.task = "limit"
    BY <1>1, <1>3, <1>7, <1>20, <2>2, LeftStep, NoneType DEF Awaits
  <2>4. c.todo = AtNeg
    BY <1>1, <1>3, <2>3, LeftStep
  <2> QED BY <1>1, <1>3, <1>20, <2>3, <2>4, AdvancedLimit
<1>21. c_clearedAt' \in Nat /\ c_clearedAt' <= c_market.now /\ c_clearedAt' = c_clearedAt
  BY <1>1, <1>4 DEF OrdersTypeOK
<1> HIDE DEF d, step, c
<1> QED BY <1>1, <1>3, <1>5, <1>7, <1>8, <1>9, <1>11, <1>12, <1>14, <1>15, <1>16, <1>18, <1>19,
           <1>20, <1>21, ThreadStep DEF c

LEMMA OrdersClear == ASSUME OrdersInv, NEW t \in Threads, Orders!Clear(t) PROVE OrdersInv'
<1> DEFINE c == c_call[t]
           d == Advanced(c)
<1>1. /\ c.todo # <<>> /\ Head(c.todo) = "clear" /\ c_inFlight = {} /\ Orders!Advance(t, c)
      /\ c_tickCache' = Orders!None /\ c_negCache' = FALSE /\ c_clearedAt' = c_market.now
      /\ UNCHANGED <<c_market, c_inFlight, c_posted, c_booked>>
  BY DEF Orders!Clear, Orders!At, Orders!Busy
<1>2. /\ c \in OrderCalls /\ Left(c.task, c.todo) /\ CallOK(c, <<>>)
      /\ FetchOK(c, c_market.now, c_inFlight, c_clearedAt)
      /\ <<>> \in Seq(Nat) /\ c_posted' = [c_posted EXCEPT ![t] = <<>>]
  BY <1>1, Underway
<1>3. /\ OrdersTypeOK /\ c_market.now \in Nat /\ c_negCache' \in BOOLEAN
      /\ c_tickCache' \in TickValues /\ c_inFlight' \subseteq Orders!Keys /\ c_booked' \in BOOLEAN
  BY <1>1, NoneType DEF OrdersInv, OrdersTypeOK
<1>4. c.task = "clear" /\ c.todo = <<"clear">>
  BY <1>1, <1>2, LeftStep
<1>5. /\ d \in OrderCalls /\ d.phase = "run" /\ d.since = c.since /\ d.task = c.task
  BY <1>1, <1>2, AdvancedCall
<1>6. c_call' = [c_call EXCEPT ![t] = d]
  BY <1>1, FailAdvance
<1>7. CallOK(d, <<>>)
  BY <1>1, <1>2, <1>4, AdvancedOK
<1>8. /\ LimitOK(d, c_tickCache') /\ ~Awaits(d) /\ ~Brings(d)
      /\ \A k \in Orders!Keys : ~Fetches(d, k)
  BY <1>4, <1>5 DEF LimitOK, Awaits, Brings, Fetches
<1>9. c.since <= c_market.now
  BY <1>2 DEF FetchOK
<1>10. FetchOK(d, c_market.now, c_inFlight', c_clearedAt')
  BY <1>5, <1>8, <1>9 DEF FetchOK
<1>11. Uncached' /\ Orders!FreshAfterClear'
  BY <1>1, NoneType DEF Uncached, Orders!FreshAfterClear
<1>12. \A u \in Threads \ {t}, k \in Orders!Keys : ~Fetches(c_call[u], k)
  BY <1>1 DEF OrdersInv, FetchOK
<1>13. c_clearedAt' \in Nat /\ c_clearedAt' <= c_market.now
  BY <1>1, <1>3
<1> HIDE DEF d
<1> QED BY <1>1, <1>2, <1>3, <1>5, <1>6, <1>7, <1>8, <1>10, <1>11, <1>12, <1>13, ThreadStep

(* The cached tick runs out, or the server changes it: no call is touched. *)
LEMMA OrdersAround ==
    ASSUME OrdersInv, Orders!Expire \/ Orders!TickChanges \/ UNCHANGED Orders!vars PROVE OrdersInv'
<1>1. /\ UNCHANGED <<c_negCache, c_inFlight, c_call, c_clearedAt, c_posted, c_booked>>
      /\ c_tickCache' \in {c_tickCache, Orders!None}
  BY DEF Orders!Expire, Orders!TickChanges, Orders!vars
<1>2. OrdersTypeOK /\ c_market.now \in Nat /\ c_clearedAt \in Nat /\ c_clearedAt <= c_market.now
  BY DEF OrdersInv, OrdersTypeOK
<1>3. /\ c_market' \in [tick : Nat, now : Nat] /\ c_market'.now \in Nat
      /\ c_market.now <= c_market'.now
  <2>1. CASE c_market' = c_market
    BY <1>2, <2>1 DEF OrdersTypeOK
  <2>2. CASE \E k \in Ticks : c_market' = [tick |-> k, now |-> c_market.now + 1]
    <3>1. PICK k \in Nat : c_market' = [tick |-> k, now |-> c_market.now + 1]
      BY <2>2, OrdersAssumption
    <3>2. c_market.now + 1 \in Nat /\ c_market.now <= c_market.now + 1
      BY <1>2
    <3> QED BY <3>1, <3>2
  <2> QED BY <2>1, <2>2 DEF Orders!Expire, Orders!TickChanges, Orders!vars
<1>4. OrdersTypeOK'
  <2>1. c_clearedAt <= c_market'.now
    BY <1>2, <1>3
  <2> QED BY <1>1, <1>2, <1>3, <2>1, NoneType DEF OrdersTypeOK
<1>5. ASSUME NEW t \in Threads
      PROVE  /\ FetchOK(c_call[t], c_market'.now, c_inFlight, c_clearedAt)
             /\ ~c_booked => LimitOK(c_call[t], c_tickCache')
  <2>1. /\ FetchOK(c_call[t], c_market.now, c_inFlight, c_clearedAt) /\ c_call[t].since \in Nat
        /\ ~c_booked => LimitOK(c_call[t], c_tickCache)
    BY <1>2 DEF OrdersInv, OrdersTypeOK, OrderCalls
  <2>2. FetchOK(c_call[t], c_market'.now, c_inFlight, c_clearedAt)
    BY <1>2, <1>3, <2>1 DEF FetchOK
  <2>3. ~c_booked => LimitOK(c_call[t], c_tickCache')
    BY <1>1, <2>1 DEF LimitOK
  <2> QED BY <2>2, <2>3
<1>6. Uncached' /\ Orders!FreshAfterClear'
  BY <1>1, NoneType DEF OrdersInv, Uncached, Orders!FreshAfterClear
<1>7. OneFetches' /\ RecentComes'
  BY <1>1 DEF OrdersInv, OneFetches, RecentComes
<1>8. \A t \in Threads : CallOK(c_call[t], c_posted[t])
  BY DEF OrdersInv
<1> QED BY <1>1, <1>4, <1>5, <1>6, <1>7, <1>8 DEF OrdersInv

LEMMA OrdersInit == Orders!InitState => OrdersInv
<1> SUFFICES ASSUME Orders!InitState PROVE OrdersInv
  OBVIOUS
<1> DEFINE r == Orders!Resting
<1>1. /\ c_tickCache = Orders!None /\ ~c_negCache /\ c_inFlight = {}
      /\ c_call = [t \in Threads |-> r] /\ c_clearedAt = 0
      /\ c_posted = [t \in Threads |-> <<>>] /\ ~c_booked
  BY DEF Orders!InitState
<1>2. c_negCache \in BOOLEAN /\ c_booked \in BOOLEAN
  BY Zenon DEF Orders!InitState
<1>3. c_market.now = 0 /\ c_market \in [tick : Nat, now : Nat]
  <2>1. c_market \in [tick : Ticks, now : {0}]
    BY DEF Orders!InitState
  <2>2. c_market = [tick |-> c_market.tick, now |-> c_market.now] /\ c_market.now = 0
    BY <2>1
  <2>3. c_market.tick \in Nat
    BY <2>1, OrdersAssumption
  <2>4. c_market.now \in Nat
    BY <2>2
  <2> QED BY <2>2, <2>3, <2>4
<1>4. /\ r.todo = <<>> /\ r.phase = "run" /\ r.result = "none" /\ r.task = "none" /\ r.since = 0
      /\ r \in OrderCalls
  BY NoneType DEF Orders!Resting, OrderCalls
<1> HIDE DEF r
<1>5. OrdersTypeOK
  <2>1. c_call \in [Threads -> OrderCalls] /\ c_posted \in [Threads -> Seq(Nat)]
    BY <1>1, <1>4
  <2> QED BY <1>1, <1>2, <1>3, <2>1, NoneType DEF OrdersTypeOK
<1>6. ~Brings(r) /\ \A k \in Orders!Keys : ~Fetches(r, k)
  BY <1>4 DEF Brings, Fetches
<1>7. FetchOK(r, 0, {}, 0)
  BY <1>4, <1>6 DEF FetchOK
<1>8. CallOK(r, <<>>) /\ LimitOK(r, c_tickCache)
  <2>1. Len(<<>>) <= 1
    OBVIOUS
  <2> QED BY <1>4, <2>1 DEF CallOK, LimitOK, Left
<1>9. Uncached /\ OneFetches /\ RecentComes /\ Orders!FreshAfterClear
  BY <1>1, <1>6, NoneType DEF Uncached, OneFetches, RecentComes, Orders!FreshAfterClear
<1> QED BY <1>1, <1>3, <1>5, <1>7, <1>8, <1>9 DEF OrdersInv

LEMMA OrdersNext == ASSUME OrdersInv, [Orders!Next]_(Orders!vars) PROVE OrdersInv'
<1>1. CASE Orders!Expire \/ Orders!TickChanges \/ UNCHANGED Orders!vars
  BY <1>1, OrdersAround
<1>2. ASSUME NEW t \in Threads, Orders!Step(t) PROVE OrdersInv'
  BY <1>2, OrdersLookup, OrdersResume, OrdersAnswered, OrdersStore, OrdersClear, OrdersGrid,
     OrdersRequested, OrdersValidate, OrdersPrice, OrdersPost DEF Orders!Step
<1>3. ASSUME NEW t \in Threads, Orders!FetchFails(t) PROVE OrdersInv'
  BY <1>3, OrdersFetchFails
<1>4. ASSUME NEW t \in Threads, NEW task \in DOMAIN Orders!Steps, Orders!Begin(t, task, 0, 0)
      PROVE  OrdersInv'
  BY <1>4, OrdersBegin, StepsAre
<1>5. ASSUME NEW t \in Threads, NEW p \in Prices, Orders!Begin(t, "limit", p, 0) PROVE OrdersInv'
  BY <1>5, OrdersBegin, OrdersAssumption DEF Tasks
<1>6. ASSUME NEW t \in Threads, NEW p \in Prices, NEW k \in Ticks,
             Orders!Begin(t, "requested", p, k)
      PROVE  OrdersInv'
  BY <1>6, OrdersBegin, OrdersAssumption DEF Tasks
<1> QED BY <1>1, <1>2, <1>3, <1>4, <1>5, <1>6 DEF Orders!Next

LEMMA OrdersAreSafe ==
    ASSUME OrdersInv
    PROVE  /\ Orders!OneFetchPerKey /\ Orders!FreshAfterClear
           /\ Orders!StaleTickRejectsNothing /\ Orders!PostsAtMostOnce
<1>1. Orders!OneFetchPerKey
  <2> SUFFICES ASSUME NEW k \in Orders!Keys
               PROVE  Orders!Cardinality({t \in Threads : Orders!At(t, {k}, "ask")
                                                       \/ Orders!At(t, {k}, "answer")}) <= 1
    BY DEF Orders!OneFetchPerKey
  <2> DEFINE F == {t \in Threads : Orders!At(t, {k}, "ask") \/ Orders!At(t, {k}, "answer")}
  <2>1. \A t \in F : t \in Threads /\ Fetches(c_call[t], k)
    BY DEF Fetches, Orders!At, Orders!Busy
  <2>2. \A t, u \in F : t = u
    BY <2>1 DEF OrdersInv, OneFetches
  <2>3. Cardinality(F) <= 1
    <3> HIDE DEF F
    <3>1. CASE F = {}
      BY <3>1, FS_EmptySet
    <3>2. CASE F # {}
      <4>1. PICK t : F = {t}
        BY <2>2, <3>2
      <4>2. Cardinality({t}) = 1
        BY FS_Singleton
      <4> QED BY <4>1, <4>2
    <3> QED BY <3>1, <3>2
  <2>4. Orders!Cardinality(F) = Cardinality(F)
    BY DEF Orders!Cardinality, Cardinality
  <2> QED BY <2>3, <2>4
<1>2. Orders!StaleTickRejectsNothing
  BY DEF OrdersInv, LimitOK, Orders!StaleTickRejectsNothing
<1>3. Orders!PostsAtMostOnce
  BY DEF OrdersInv, CallOK, Ordered, OrderTasks, Orders!PostsAtMostOnce
<1> QED BY <1>1, <1>2, <1>3 DEF OrdersInv

(* The market metadata and the orders of ClobClient, for any number of threads: one fetch
   per key at a time, no tick from before a clear comes back through a lookup, a stale tick
   rejects no limit order, and every call posts at most once. *)
THEOREM OrdersStaySafe == Spec => []OrdersSafe
<1> DEFINE I == which = "orders" => OrdersInv
<1>1. Init => I
  BY OrdersInit DEF Init, Select, InitComponents, Orders!Init
<1>2. I /\ [Next]_allVars => I'
  BY StepOfClob, OrdersNext
<1>3. I => OrdersSafe
  BY OrdersAreSafe DEF OrdersSafe
<1> QED BY <1>1, <1>2, <1>3, PTL DEF Spec
=============================================================================
