------------------------------ MODULE MCStreams ------------------------------
(* StreamRuntimes on small instances: two markets, two tokens, two subscriptions that share
   a key, and an order with one fill that the user stream and REST list twice. *)
EXTENDS StreamRuntimes

MCMarkets == {"a", "b"}
MCTokens == {"yes", "no"}
MCKeys == [a |-> {1}, b |-> {1, 2}]

Budget(calls, updates, messages, faults) ==
    [calls |-> calls, updates |-> updates, messages |-> messages, faults |-> faults]
MCUserBudgets == {Budget(2, 0, 1, 1), Budget(1, 0, 1, 2), Budget(2, 1, 0, 1), Budget(1, 2, 0, 0)}
MCBookBudgets == {Budget(2, 1, 2, 0), Budget(1, 1, 2, 1), Budget(1, 2, 1, 0)}
MCPublicBudgets == {Budget(2, 0, 1, 1), Budget(1, 1, 0, 1), Budget(1, 2, 1, 0), Budget(1, 3, 0, 0)}
MCRpcBudgets == {Budget(3, 2, 0, 0), Budget(1, 2, 0, 2), Budget(3, 1, 0, 1)}

MCTrades == {"a"}
MCOrder == <<"a", "", "a">>
MCMaxTries == [t \in MCTrades |-> 1]
=============================================================================
