----------------------------- MODULE OrderAmounts -----------------------------
(***************************************************************************)
(* The integer arithmetic behind an order: the amounts that are signed     *)
(* (src/src/order_amounts.cpp, decimal_math.cpp), the depth of a book that *)
(* a market order needs and the fill it can expect (market_price.cpp), and *)
(* the size of a complementary arbitrage (arb_sizing.cpp).  Each function  *)
(* is an operator that yields Throws or a value; one step applies it to an *)
(* input, and the properties compare the result with what the function is  *)
(* for, stated without its algorithm.                                      *)
(*                                                                         *)
(* A decimal is an integer number of 1/Fine; the decimal point of the code *)
(* is kept (Scale for the six digits of a token, a price scale and a tick  *)
(* per market) with fewer digits, and so is the width (UMax for 2^64 - 1). *)
(* A double that is not exactly the decimal it was read from, which        *)
(* decimal_math.cpp corrects by one ulp, is out of the model.              *)
(***************************************************************************)
EXTENDS Integers, Sequences, FiniteSets, SequencesExt

CONSTANTS Scale,     \* 10^token_decimals, also depth_scale
          SizeStep,  \* token units per unit of size_decimals
          Fine,      \* the precision of the inputs, a multiple of Scale
          UMax,      \* the greatest uint64_t
          Inputs     \* the calls to try, one record each

VARIABLES input, output

vars == <<input, output>>

Throws == [ok |-> FALSE]
Value(v) == [ok |-> TRUE, v |-> v]

RECURSIVE Gcd(_, _)
Gcd(a, b) == IF b = 0 THEN a ELSE Gcd(b, a % b)

\* checked_multiply.
CheckedMultiply(left, right) ==
  IF right # 0 /\ left > UMax \div right THEN Throws ELSE Value(left * right)

\* exact_multiply_divide: value * numerator / denominator without a wider type.
ExactMultiplyDivide(value, numerator, denominator) ==
  LET f == Gcd(value, denominator)
      g == Gcd(numerator, denominator \div f)
  IN IF (denominator \div f) \div g # 1 THEN Throws
     ELSE CheckedMultiply(value \div f, numerator \div g)

\* decimal_to_scaled_uint64 to `scale` units per one.
ScaledDown(amount, scale) == (amount * scale) \div Fine
ScaledHalfEven(amount, scale) ==
  LET whole == (amount * scale) \div Fine
      twice == 2 * ((amount * scale) % Fine)
  IN IF twice > Fine \/ (twice = Fine /\ whole % 2 = 1) THEN whole + 1 ELSE whole

\* exact_decimal_to_scaled_uint64.
ScaledExact(amount, scale) ==
  IF (amount * scale) % Fine # 0 \/ (amount * scale) \div Fine > UMax THEN Throws
  ELSE Value((amount * scale) \div Fine)

\* amount_to_micro_units.
AmountToMicroUnits(amount) ==
  LET units == ScaledDown(amount, Scale \div SizeStep)
      micro == CheckedMultiply(units, SizeStep)
  IN IF amount <= 0 \/ units > UMax \/ ~micro.ok \/ micro.v = 0 THEN Throws ELSE micro

\* quantized_price, for a price scale and the rounding of the caller.
QuantizedPrice(units, market) ==
  IF units <= 0 \/ units >= market.scale THEN Throws ELSE Value([units |-> units] @@ market)

\* validate_order_price.
ValidateOrderPrice(price, market) ==
  LET units == ScaledExact(price, market.scale)
  IN IF ~units.ok \/ units.v < market.tick \/ units.v > market.scale - market.tick
          \/ units.v % market.tick # 0
     THEN Throws ELSE Value([units |-> units.v] @@ market)

\* amounts_for_shares.
AmountsForShares(side, size, price) ==
  LET shares == AmountToMicroUnits(size)
      cost == ExactMultiplyDivide(shares.v, price.units, price.scale)
  IN IF ~shares.ok \/ ~cost.ok THEN Throws
     ELSE Value(IF side = "BUY" THEN [maker |-> cost.v, taker |-> shares.v]
                ELSE [maker |-> shares.v, taker |-> cost.v])

\* calculate_limit_order_amounts, for a price that was validated or rounded.
LimitOrderAmounts(side, size, price) ==
  IF ~price.ok THEN Throws ELSE AmountsForShares(side, size, price.v)

\* calculate_market_order_amounts: a BUY spends a budget, cut to what the
\* price divides exactly.
CutBudget(budget, price) == budget - (budget % (price.units \div Gcd(price.units, price.scale)))

BuyFor(maker, price) ==
  LET taker == ExactMultiplyDivide(maker, price.scale, price.units)
  IN IF maker = 0 \/ ~taker.ok THEN Throws ELSE Value([maker |-> maker, taker |-> taker.v])

MarketOrderAmounts(side, amount, price) ==
  LET budget == AmountToMicroUnits(amount)
  IN IF ~price.ok THEN Throws
     ELSE IF side = "SELL" THEN AmountsForShares(side, amount, price.v)
     ELSE IF ~budget.ok THEN Throws ELSE BuyFor(CutBudget(budget.v, price.v), price.v)

-------------------------------------------------------------------------------
\* Depth.

\* level_units: price and size in token units.
LevelUnits(level) ==
  LET size == ScaledExact(level.size, Scale)
      price == ScaledExact(level.price, Scale)
  IN IF level.price <= 0 \/ level.price >= Fine \/ ~size.ok \/ ~price.ok THEN Throws
     ELSE IF price.v = 0 \/ price.v >= Scale THEN Throws
     ELSE Value([price |-> price.v, size |-> size.v])

\* Mutant: the fractions of the levels are dropped instead of carried.
AddNotionalNoCarry(total, size, price) ==
  LET units == (size \div Scale) * price + ((size % Scale) * price) \div Scale
  IN IF total.saturated \/ units > UMax - total.units THEN [total EXCEPT !.saturated = TRUE]
     ELSE [total EXCEPT !.units = @ + units]

\* add_notional: whole and fractional units, saturating instead of wrapping.
AddNotional(total, size, price) ==
  LET product == (size % Scale) * price
      whole == product \div Scale
      units == (size \div Scale) * price + whole
      fraction == total.fraction + (product % Scale)
      saturated == [total EXCEPT !.saturated = TRUE]
  IN IF total.saturated \/ size \div Scale > (UMax - whole) \div price
          \/ units > UMax - total.units THEN saturated
     ELSE IF fraction < Scale THEN [total EXCEPT !.units = @ + units, !.fraction = fraction]
     ELSE IF total.units + units = UMax THEN saturated
     ELSE [total EXCEPT !.units = @ + units + 1, !.fraction = fraction - Scale]

\* add_size.
AddSize(total, size) ==
  IF total.saturated \/ size > UMax - total.units THEN [total EXCEPT !.saturated = TRUE]
  ELSE [total EXCEPT !.units = @ + size]

\* visit_best_first, whatever order the book lists its levels in.
BestFirst(side, levels) ==
  SortSeq(levels, LAMBDA a, b : IF side = "BUY" THEN a.price < b.price ELSE a.price > b.price)

\* One visit of find_depth_limit.
DepthWith(side, depth, units) ==
  IF side = "BUY" THEN AddNotional(depth, units.size, units.price) ELSE AddSize(depth, units.size)

DepthAt(limit, price, depth, needed) ==
  [limit EXCEPT !.depth = depth, !.price = price,
                !.fillable = depth.saturated \/ depth.units >= needed]

VisitDepth(side, limit, level, units, order) ==
  IF limit.fillable \/ limit.threw THEN limit
  ELSE IF ~units.ok \/ ~order.ok THEN [limit EXCEPT !.threw = TRUE]
  ELSE DepthAt(limit, level.price, DepthWith(side, limit.depth, units.v), order.v.maker)

\* find_depth_limit: no price is tried after the first that covers the order.
LimitFound(limit) ==
  IF limit.threw THEN Throws ELSE Value([price |-> limit.price, fillable |-> limit.fillable])

FindDepthLimit(side, amount, market, levels) ==
  IF amount <= 0 \/ levels = <<>> THEN Throws
  ELSE LimitFound(FoldLeft(
         LAMBDA l, level : VisitDepth(side, l, level, LevelUnits(level),
           MarketOrderAmounts(side, amount, ValidateOrderPrice(level.price, market))),
         [price |-> 0, fillable |-> FALSE, threw |-> FALSE,
          depth |-> [units |-> 0, fraction |-> 0, saturated |-> FALSE]],
         BestFirst(side, levels)))

\* calculate_market_price.
MarketPrice(side, amount, market, levels, type) ==
  LET limit == FindDepthLimit(side, amount, market, levels)
  IN IF ~limit.ok THEN Throws
     ELSE IF ~limit.v.fillable /\ type = "FOK" THEN Throws ELSE Value(limit.v.price)

\* collateral_for and shares_for, which are exact but for the last unit.
CollateralFor(shares, price, up) ==
  LET product == (shares % Scale) * price
  IN IF shares \div Scale > (UMax - Scale) \div price THEN Throws
     ELSE Value((shares \div Scale) * price + product \div Scale
                  + (IF up /\ product % Scale # 0 THEN 1 ELSE 0))

SharesFor(collateral, price) ==
  IF collateral \div price > (UMax - Scale) \div Scale THEN Throws
  ELSE Value((collateral \div price) * Scale + ((collateral % price) * Scale) \div price)

\* One visit of estimate_market_depth: what the level gives to the remainder,
\* what that costs, and the fill with it.
TakeShares(side, remaining, units, cost) ==
  IF side = "SELL" THEN Value(IF remaining < units.size THEN remaining ELSE units.size)
  ELSE IF ~cost.ok THEN Throws
  ELSE IF remaining < cost.v THEN SharesFor(remaining, units.price) ELSE Value(units.size)

TakeCost(side, remaining, units, cost, shares) ==
  IF ~shares.ok THEN Throws
  ELSE IF side = "BUY" /\ remaining >= cost.v THEN cost
  ELSE CollateralFor(shares.v, units.price, side = "BUY")

AddFill(side, fill, partial, shares, paid) ==
  LET left == fill.remaining - (IF side = "BUY" THEN paid.v ELSE shares.v)
  IN IF ~paid.ok THEN [fill EXCEPT !.threw = TRUE]
     ELSE IF shares.v > UMax - fill.shares \/ paid.v > UMax - fill.collateral
          THEN [fill EXCEPT !.threw = TRUE]
     ELSE [fill EXCEPT !.remaining = left, !.shares = @ + shares.v, !.collateral = @ + paid.v,
                       !.done = partial \/ left = 0]

FillWith(side, fill, units, cost) ==
  LET shares == TakeShares(side, fill.remaining, units, cost)
  IN AddFill(side, fill, side = "BUY" /\ cost.ok /\ fill.remaining < cost.v, shares,
             TakeCost(side, fill.remaining, units, cost, shares))

VisitFill(side, limit, fill, level, units) ==
  IF fill.done \/ fill.threw THEN fill
  ELSE IF IF side = "BUY" THEN level.price > limit ELSE level.price < limit
       THEN [fill EXCEPT !.done = TRUE]
  ELSE FillWith(side, fill, units, CollateralFor(units.size, units.price, TRUE))

\* estimate_market_depth.
Estimate(limit, maker, fill) ==
  IF fill.threw THEN Throws
  ELSE Value([price |-> limit.price, fillable |-> limit.fillable, maker |-> maker,
              shares |-> fill.shares, collateral |-> fill.collateral,
              remaining |-> fill.remaining])

EstimateFor(side, levels, limit, maker) ==
  Estimate(limit, maker, FoldLeft(
    LAMBDA f, level : VisitFill(side, limit.price, f, level, LevelUnits(level).v),
    [remaining |-> maker, shares |-> 0, collateral |-> 0, done |-> FALSE, threw |-> FALSE],
    BestFirst(side, levels)))

EstimateMarketDepth(side, amount, market, levels) ==
  LET limit == FindDepthLimit(side, amount, market, levels)
  IN IF ~limit.ok THEN Throws
     ELSE EstimateFor(side, levels, limit.v,
            MarketOrderAmounts(side, amount, ValidateOrderPrice(limit.v.price, market)).v.maker)

-------------------------------------------------------------------------------
\* Arbitrage sizing, in cents per share, hundredths of a share and hundred-
\* thousandths of a dollar.

Ceil(a, b) == -((-a) \div b)
Larger(a, b) == IF a > b THEN a ELSE b
Clamp(x, low, high) == IF x < low THEN low ELSE IF x > high THEN high ELSE x

\* fee_per_share at a price, in millionths; the exponent is 0 or 1.
FeeAt(price, i) == IF i.exponent = 0 THEN i.rate * 10000 ELSE i.rate * price * (100 - price)

\* worst_fee_price: the price between ask and limit with the highest fee.
FeePerShare(ask, limit, i) == FeeAt(IF i.exponent = 0 THEN ask ELSE Clamp(50, ask, limit), i)

\* conservative_fee, rounded up to a hundred-thousandth.
ConservativeFee(shares, fee) == Ceil(shares * fee, 1000)

LegCost(shares, price, fee) == 10 * shares * price + ConservativeFee(shares, fee)

\* size_complementary_arb on checked inputs.
SizeComplementaryArb(i) ==
  LET yes == Ceil(i.yes + i.slippage, i.tick) * i.tick
      no == Ceil(i.no + i.slippage, i.tick) * i.tick
      yesFee == FeePerShare(i.yes, yes, i)
      noFee == FeePerShare(i.no, no, i)
      unit == Larger(10 * yes * 1000 + yesFee, 10 * no * 1000 + noFee)
      most == (i.max * 1000) \div unit
      affordable == {s \in 0..most : LegCost(s, yes, yesFee) <= i.max /\ LegCost(s, no, noFee) <= i.max}
      shares == CHOOSE s \in affordable : \A t \in affordable : t <= s
      total == LegCost(shares, yes, yesFee) + LegCost(shares, no, noFee)
      edge == 1000 * shares - total
      plan == [yes |-> yes, no |-> no, shares |-> shares, edge |-> edge, executable |-> FALSE]
  IN IF yes >= 100 \/ no >= 100 THEN [plan EXCEPT !.shares = 0, !.edge = 0]
     ELSE IF shares = 0 \/ shares < i.minimum \/ i.available < shares THEN plan
     ELSE [plan EXCEPT !.executable = edge > 1000]

-------------------------------------------------------------------------------
None == [ok |-> FALSE, none |-> TRUE]

InitState == input \in Inputs /\ output = None
Init == InitState

Compute ==
  /\ output = None
  /\ output' =
       CASE input.kind = "limit" ->
              LimitOrderAmounts(input.side, input.amount, ValidateOrderPrice(input.price, input.market))
         [] input.kind = "rounded" ->
              LimitOrderAmounts(input.side, input.amount,
                QuantizedPrice(ScaledHalfEven(input.price, input.market.scale), input.market))
         [] input.kind = "market" ->
              MarketOrderAmounts(input.side, input.amount, ValidateOrderPrice(input.price, input.market))
         [] input.kind = "price" ->
              MarketPrice(input.side, input.amount, input.market, input.book, input.type)
         [] input.kind = "depth" ->
              EstimateMarketDepth(input.side, input.amount, input.market, input.book)
         [] input.kind = "arb" -> Value(SizeComplementaryArb(input))
  /\ UNCHANGED input

Next == Compute

Spec == Init /\ [][Next]_vars

-------------------------------------------------------------------------------
Done(kinds) == output # None /\ input.kind \in kinds

OnTick(price, market) ==
  /\ (price * market.scale) % Fine = 0
  /\ LET u == (price * market.scale) \div Fine
     IN u >= market.tick /\ u <= market.scale - market.tick /\ u % market.tick = 0

Rounded == ((input.amount * (Scale \div SizeStep)) \div Fine) * SizeStep

\* The amounts that are signed stand in the ratio of the price, exactly, for
\* every accepted price and size; a limit order is refused only when the price
\* is off the grid or an amount is zero or too wide.
LimitAmountsExact ==
  Done({"limit"}) =>
    LET u == (input.price * input.market.scale) \div Fine
        shares == IF input.side = "BUY" THEN output.v.taker ELSE output.v.maker
        cost == IF input.side = "BUY" THEN output.v.maker ELSE output.v.taker
    IN IF output.ok
       THEN shares = Rounded /\ cost * input.market.scale = shares * u /\ cost \in 1..UMax
       ELSE ~OnTick(input.price, input.market) \/ Rounded \notin 1..UMax

\* A market BUY signs the largest amount within its budget that buys a whole
\* number of units at the price, and never more than the budget.
MarketBuyWithinBudget ==
  Done({"market"}) /\ input.side = "BUY" =>
    LET u == (input.price * input.market.scale) \div Fine
        exact == {m \in 1..Rounded : (m * input.market.scale) % u = 0
                                       /\ (m * input.market.scale) \div u <= UMax}
    IN IF output.ok THEN /\ output.v.maker \in exact /\ \A m \in exact : m <= output.v.maker
                         /\ output.v.taker * u = output.v.maker * input.market.scale
       ELSE \/ ~OnTick(input.price, input.market)
            \/ Rounded > UMax
            \/ {m \in 1..Rounded : (m * input.market.scale) % u = 0} = {}
            \/ (Rounded * input.market.scale) \div u > UMax

\* The depth at prices as good as `price`, in exact arithmetic.
Better(price) == {k \in DOMAIN input.book :
                    IF input.side = "BUY" THEN input.book[k].price <= price
                    ELSE input.book[k].price >= price}

Depth(price) ==
  FoldLeft(LAMBDA total, k : total + (IF k \notin Better(price) THEN 0
                                      ELSE IF input.side = "BUY"
                                      THEN ((input.book[k].size * Scale) \div Fine)
                                             * ((input.book[k].price * Scale) \div Fine)
                                      ELSE Scale * ((input.book[k].size * Scale) \div Fine)),
           0, [k \in DOMAIN input.book |-> k])

Covered(price) ==
  Depth(price) >= Scale * MarketOrderAmounts(input.side, input.amount,
                            ValidateOrderPrice(price, input.market)).v.maker

\* The limit price is the best one whose exact cumulative depth covers the
\* order that would be signed at it, in whatever order the book lists its
\* levels and although the sums are kept in 64 bits; without one it is the
\* worst price of the book.  The fill it predicts spends exactly what a
\* coverable order signs, and never more.
DepthLimitExact ==
  Done({"depth"}) /\ output.ok =>
    LET prices == {input.book[k].price : k \in DOMAIN input.book}
        e == output.v
        covered == {p \in prices : OnTick(p, input.market) /\ Covered(p)}
        better(p, q) == IF input.side = "BUY" THEN p < q ELSE p > q
    IN /\ e.price \in prices
       /\ e.fillable <=> Covered(e.price)
       /\ \A p \in covered : p = e.price \/ better(e.price, p)
       /\ ~e.fillable => \A p \in prices : p = e.price \/ better(p, e.price)
       /\ e.remaining >= 0
       /\ e.fillable => e.remaining = 0
       /\ (IF input.side = "BUY" THEN e.collateral ELSE e.shares) = e.maker - e.remaining

\* An executable plan fits both legs into the limit and keeps its edge at
\* every price between the ask and the signed limit, fees included.
ArbPlanSound ==
  Done({"arb"}) =>
    LET plan == output.v
        Leg(ask, limit, s) ==
          {LegCost(s, p, FeeAt(p, input)) : p \in ask..limit}
        fits(s) == \A c \in Leg(input.yes, plan.yes, s) \cup Leg(input.no, plan.no, s) : c <= input.max
    IN plan.executable =>
         /\ plan.yes < 100 /\ plan.no < 100
         /\ plan.shares >= input.minimum /\ plan.shares <= input.available
         /\ fits(plan.shares)
         /\ \A y \in Leg(input.yes, plan.yes, plan.shares), n \in Leg(input.no, plan.no, plan.shares) :
              1000 * plan.shares - y - n > 1000

\* An order is never priced off the grid, and what is signed, predicted and
\* sized is exact: the four parts above.
OrderArithmeticExact ==
  LimitAmountsExact /\ MarketBuyWithinBudget /\ DepthLimitExact /\ ArbPlanSound
===============================================================================
