-------------------------- MODULE MCTradeSettlement --------------------------
(* A small instance of TradeSettlement: the order names its fills with a     *)
(* repetition and an empty id.                                               *)
EXTENDS TradeSettlement

MCTrades == {"a", "b"}
MCRetry  == [t \in MCTrades |-> IF t = "a" THEN 2 ELSE 0]
MCOrder  == <<"a", "", "b", "a">>

(* Nothing follows the return of the call, and the polling form, which does  *)
(* not read the tracker, is explored with a silent stream.                   *)
OneCall ==
    /\ waiter.pc # "done"
    /\ \A t \in Trades : normalized_trade_status(visible[t].status) \notin {"MATCHED", "RETRYING"}
    /\ budget.gaps + budget.resends + 1 >= MaxGaps + MaxResends
    /\ waiter.pc = "idle" => version = 0 /\ wire = {}
    /\ waiter.pc # "idle" /\ waiter.mode = "poll" => version = 0 /\ wire = {}

(* The code compares its counters for equality only.                         *)
CounterView ==
    <<exchange, trades, arrival, version = waiter.seen,
      recoveries = waiter.reconciled,
      [waiter EXCEPT !.seen = 0, !.reconciled = 0], clock, listed>>
=============================================================================
