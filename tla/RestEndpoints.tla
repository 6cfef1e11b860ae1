---------------------------- MODULE RestEndpoints ----------------------------
(***************************************************************************)
(* The REST calls of ClobClient, GammaClient and DataClient, one row each. *)
(* A row says what tells the calls apart in the pipeline of RestCalls:     *)
(*   auth     the credentials it needs and how it fails without them:      *)
(*            none, an error in the result, an exception, or the signer;   *)
(*   checks   the argument it rejects before it sends anything: never, an  *)
(*            empty or invalid id, an empty list, a list with a repeated   *)
(*            or empty id, or a range with one end;                        *)
(*   retried  whether it goes through read() and so is sent again when the *)
(*            server answers 429;                                          *)
(*   bucket   the rate limit its response is reported under;               *)
(*   shape    how the answer is read (see Read in RestCalls);              *)
(*   fails    what its caller gets when it fails.                          *)
(* What the path, the query and the fields of an item are called is left   *)
(* out: an item is its id and whether its parser accepts it.  A pager's    *)
(* row is the fetch of one page; module Paginator puts pages together.     *)
(***************************************************************************)
EXTENDS Naturals

Public(checks, shape, fails) ==
  [auth |-> "none", checks |-> checks, retried |-> TRUE,
   bucket |-> "none", shape |-> shape, fails |-> fails]

\* A read whose get_l2_headers throws inside the attempt.
Private(checks, shape, fails) ==
  [Public(checks, shape, fails) EXCEPT !.auth = "throws"]

Checked(checks, shape, fails) ==
  [Public(checks, shape, fails) EXCEPT !.auth = "result"]

Mutation(auth, checks, bucket, shape, fails) ==
  [auth |-> auth, checks |-> checks, retried |-> FALSE,
   bucket |-> bucket, shape |-> shape, fails |-> fails]

\* fetch_result: one request, an error for everything that goes wrong.
Fetch(checks, shape) == Public(checks, shape, "error")

\* keyset_pager, offset_pager and cursor_pager: an invalid filter or page size
\* makes a pager whose fetch fails before it sends.
Pager == Public("id", "list", "error")

-------------------------------------------------------------------------------
\* Public market data.
order_book_result == Public("id", "book", "error")
get_order_books == Public("distinct", "books", "empty")
get_price == Public("never", "one", "nullopt")
get_prices == Public("some", "asked", "empty")
get_last_trade_price == Public("never", "one", "nullopt")
get_last_trades_prices == Public("some", "list", "empty")
get_midpoint == Public("never", "one", "nullopt")
get_midpoints == Public("some", "asked", "empty")
get_spread == Public("never", "one", "nullopt")
get_spreads == Public("some", "asked", "empty")
get_server_time == Public("never", "one", "nullopt")
fetch_market_page == Public("never", "valid", "empty")
market_paginator == Public("never", "valid", "error")
get_market == Public("id", "own", "nullopt")
get_market_live_activity == Public("never", "own", "nullopt")
get_prices_history == Public("range", "list", "empty")
get_fee_rate == Public("id", "one", "nullopt")
get_rewards_markets_current == Public("never", "list", "empty")
get_rewards_markets == Public("id", "list", "empty")
position_paginator == Public("id", "list", "error")
fetch_position_pages == Public("id", "list", "empty")

MarketData ==
  {order_book_result, get_order_books, get_price, get_prices, get_last_trade_price,
   get_last_trades_prices, get_midpoint, get_midpoints, get_spread, get_spreads,
   get_server_time, fetch_market_page, market_paginator, get_market,
   get_market_live_activity, get_prices_history, get_fee_rate,
   get_rewards_markets_current, get_rewards_markets, position_paginator,
   fetch_position_pages}

-------------------------------------------------------------------------------
\* Account reads.
get_api_keys == Private("never", "partial", "empty")
get_order_result == Checked("never", "one", "error")
open_orders_pager == Checked("never", "list", "error")
trades_pager == Checked("never", "list", "error")
lookup_trade == Checked("id", "find", "error")
get_balance_allowance == Private("never", "one", "nullopt")
\* Refreshes what the server knows of a balance, by a GET through read(): retried as a read.
update_balance_allowance == Private("never", "ok", "false")
is_order_scoring == Private("never", "one", "nullopt")
are_orders_scoring == Private("some", "scored", "empty")
get_notifications == Private("never", "list", "empty")
get_total_earnings_for_user_for_day_all == Private("never", "list", "empty")
get_earnings_for_user_for_day_all == Private("never", "list", "empty")

AccountReads ==
  {get_api_keys, get_order_result, open_orders_pager, trades_pager, lookup_trade,
   get_balance_allowance, update_balance_allowance, is_order_scoring,
   are_orders_scoring, get_notifications, get_total_earnings_for_user_for_day_all,
   get_earnings_for_user_for_day_all}

-------------------------------------------------------------------------------
\* Credentials and mutations.
create_api_key == Mutation("signer", "never", "none", "key", "throws")
derive_api_key == Mutation("signer", "never", "none", "key", "throws")
create_or_derive_api_key == Mutation("signer", "never", "none", "either", "throws")
delete_api_key == Mutation("throws", "never", "none", "ok", "false")
drop_notifications == Mutation("throws", "never", "none", "ok", "false")
post_signed_order == Mutation("result", "id", "order", "placed", "error")
post_orders == Mutation("throws", "some", "order", "each", "each")

\* Mutant: cancellations go through read().
CancelRetried ==
  [Mutation("result", "never", "cancel", "confirmed", "error") EXCEPT !.retried = TRUE]

cancel_order_result == Mutation("result", "never", "cancel", "confirmed", "error")
cancel_orders == Mutation("throws", "never", "cancel", "confirmed", "false")
cancel_all == Mutation("throws", "never", "cancel", "bulk", "false")
cancel_market_orders == Mutation("throws", "never", "cancel", "bulk", "false")

Mutations ==
  {create_api_key, derive_api_key, create_or_derive_api_key, delete_api_key,
   drop_notifications, post_signed_order, post_orders, cancel_order_result,
   cancel_orders, cancel_all, cancel_market_orders}

-------------------------------------------------------------------------------
\* GammaClient and DataClient.
get_market_by_id == Fetch("id", "one")
get_market_by_slug == Fetch("id", "one")
get_market_by_url == Fetch("id", "one")
get_market_tags == Fetch("id", "list")
get_event_by_id == Fetch("id", "one")
get_event_by_slug == Fetch("id", "one")
get_event_by_url == Fetch("id", "one")
get_event_tags == Fetch("id", "list")
markets_pager == Pager
events_pager == Pager
get_tag_by_id == Fetch("id", "one")
get_tag_by_slug == Fetch("id", "one")
get_related_tags_by_id == Fetch("id", "list")
get_related_tags_by_slug == Fetch("id", "list")
get_related_tag_resources_by_id == Fetch("id", "list")
get_related_tag_resources_by_slug == Fetch("id", "list")
get_series == Fetch("id", "one")
get_sports == Fetch("never", "list")
get_sports_market_types == Fetch("never", "list")
tags_pager == Pager
series_pager == Pager
teams_pager == Pager
search_pager == Pager
get_comment_thread == Fetch("id", "list")
comments_pager == Pager
user_comments_pager == Pager
get_public_profile == Fetch("id", "profile")

Gamma ==
  {get_market_by_id, get_market_by_slug, get_market_by_url, get_market_tags,
   get_event_by_id, get_event_by_slug, get_event_by_url, get_event_tags, markets_pager,
   events_pager, get_tag_by_id, get_tag_by_slug, get_related_tags_by_id,
   get_related_tags_by_slug, get_related_tag_resources_by_id,
   get_related_tag_resources_by_slug, get_series, get_sports, get_sports_market_types,
   tags_pager, series_pager, teams_pager, search_pager, get_comment_thread,
   comments_pager, user_comments_pager, get_public_profile}

data_trades_pager == Pager
activity_pager == Pager
holders_pager == Pager
get_open_interests == Fetch("id", "list")
get_event_live_volume == Fetch("id", "one")
price_history_pager == Pager
get_resolutions == Fetch("id", "list")
positions_pager == Pager
get_portfolio_value == Fetch("id", "one")
get_user_stats == Fetch("id", "one")
get_user_pnl == Fetch("id", "one")
get_user_volume == Fetch("id", "one")
download_accounting_snapshot == Fetch("id", "raw")
trader_leaderboard_pager == Pager
get_trader_standing == Fetch("id", "one")
biggest_winners_pager == Pager

Data ==
  {data_trades_pager, activity_pager, holders_pager, get_open_interests,
   get_event_live_volume, price_history_pager, get_resolutions, positions_pager,
   get_portfolio_value, get_user_stats, get_user_pnl, get_user_volume,
   download_accounting_snapshot, trader_leaderboard_pager, get_trader_standing,
   biggest_winners_pager}

Endpoints == MarketData \cup AccountReads \cup Mutations \cup Gamma \cup Data
===============================================================================
