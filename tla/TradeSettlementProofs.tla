------------------------- MODULE TradeSettlementProofs -------------------------
(***************************************************************************)
(* Proofs about TradeSettlement, for every set of trades, every order, every *)
(* capacity and every number of events, gaps, retries and polls.           *)
(***************************************************************************)
EXTENDS TradeSettlement, SequenceTheorems, FiniteSetTheorems, FunctionTheorems, TLAPS

\* A fill is a trade: unique_trade_ids leaves out the empty id.
LEMMA FillsAreTrades == Fills \subseteq Trades
BY OrderAssumption, BoundAssumption DEF Fills

WaiterType ==
    [pc : Pcs, mode : {"poll", "tracker"}, todo : SUBSET Fills,
     settled : [Fills -> Trade \cup {NoTrade}], asked : SUBSET Fills,
     needs_hash_lookup : BOOLEAN, look : BOOLEAN, seen : Nat,
     reconciled : Nat, result : Results, hashes : SUBSET Nat]

\* The locals of a call that has not begun have their types.
LEMMA IdleType == Idle \in WaiterType
BY DEF Idle, WaiterType, Pcs, Results, NoFillSettled

\* Every variable has its type before the first call.
LEMMA InitType == Init => TypeOK
<1> SUFFICES ASSUME Init PROVE TypeOK
  OBVIOUS
<1>1. waiter \in WaiterType /\ waiter.pc = "idle"
  BY IdleType DEF Init, Idle
<1>2. truth \in [Trades -> [status : Names, tries : Nat]]
  BY DEF Init, Names
<1>3. visible \in [Trades -> Trade \cup {NoTrade}] /\ trades \in [Trades -> Trade \cup {NoTrade}]
  BY DEF Init
<1>4. budget \in [gaps : 0..MaxGaps, resends : 0..MaxResends]
  BY BoundAssumption DEF Init
<1> QED
  BY <1>1, <1>2, <1>3, <1>4 DEF TypeOK, Init, WaiterType

\* An event of the user stream has its type.
LEMMA EventType ==
    ASSUME NEW t \in Trades, NEW name \in Names, NEW hash \in Nat
    PROVE  Event(t, name, hash) \in [id : Trades, trade : Trade]
BY DEF Event, Trade, RawStatus

\* A hash carried by an event or a REST row is a transaction number.
LEMMA HashesType ==
    ASSUME NEW s \in [status : Names, tries : Nat]
    PROVE  Hashes(s) \subseteq Nat
BY DEF Hashes

\* The exchange's own moves keep the types of its records.
LEMMA MoveType ==
    ASSUME TypeOK, NEW t \in Trades, Move(t)
    PROVE  truth' \in [Trades -> [status : Names, tries : Nat]]
<1> DEFINE S == [status : Names, tries : Nat]
<1>1. truth \in [Trades -> S] /\ truth[t] \in S /\ truth[t].tries \in Nat
  BY DEF TypeOK
<1>2. CASE truth' = [truth EXCEPT ![t] = [status |-> "MINED", tries |-> @.tries + 1]]
  <2>1. [status |-> "MINED", tries |-> truth[t].tries + 1] \in S
    BY <1>1 DEF Names
  <2> QED
    BY <2>1, <1>1, <1>2
<1>3. ASSUME NEW name \in Names, truth' = [truth EXCEPT ![t].status = name]
      PROVE  truth' \in [Trades -> S]
  <2>1. [truth[t] EXCEPT !.status = name] \in S
    BY <1>1
  <2> QED
    BY <2>1, <1>1, <1>3
<1> QED
  BY <1>2, <1>3 DEF Move, Names

\* The exchange, the REST database and the stream keep the types.
LEMMA ExchangeType == TypeOK /\ Exchange => TypeOK'
<1> SUFFICES ASSUME TypeOK, Exchange PROVE TypeOK'
  OBVIOUS
<1> USE DEF tracker
<1>1. ASSUME NEW t \in Trades, Advance(t) PROVE TypeOK'
  <2>1. truth' \in [Trades -> [status : Names, tries : Nat]]
    BY <1>1, MoveType DEF Advance
  <2>2. truth'[t] \in [status : Names, tries : Nat]
    BY <2>1
  <2> DEFINE E == [id : Trades, trade : Trade]
  <2>3. wire \in SUBSET E
    BY DEF TypeOK
  <2>4. PICK hash \in Hashes(truth'[t]) :
           wire' = wire \/ wire' = wire \cup {Event(t, truth'[t].status, hash)}
    BY <1>1 DEF Advance
  <2>5. hash \in Nat /\ truth'[t].status \in Names
    BY <2>2, HashesType
  <2>6. Event(t, truth'[t].status, hash) \in E
    BY <2>5, EventType
  <2>7. wire' \in SUBSET E
    BY <2>3, <2>4, <2>6
  <2> QED
    BY <1>1, <2>1, <2>7 DEF Advance, TypeOK
<1>2. ASSUME NEW t \in Trades, Resend(t) PROVE TypeOK'
  <2>1. truth[t] \in [status : Names, tries : Nat]
    BY DEF TypeOK
  <2> DEFINE E == [id : Trades, trade : Trade]
  <2>4. PICK hash \in Hashes(truth[t]) : wire' = wire \cup {Event(t, truth[t].status, hash)}
    BY <1>2 DEF Resend
  <2>5. hash \in Nat /\ truth[t].status \in Names
    BY <2>1, HashesType
  <2>6. Event(t, truth[t].status, hash) \in E
    BY <2>5, EventType
  <2>7. wire \in SUBSET E
    BY DEF TypeOK
  <2>2. wire' \in SUBSET E
    BY <2>4, <2>6, <2>7
  <2>8. budget \in [gaps : 0..MaxGaps, resends : 0..MaxResends]
    BY DEF TypeOK
  <2>9. budget.resends > 0 /\ budget' = [budget EXCEPT !.resends = @ - 1]
    BY <1>2 DEF Resend
  <2>3. budget' \in [gaps : 0..MaxGaps, resends : 0..MaxResends]
    BY <2>8, <2>9, BoundAssumption
  <2> QED
    BY <1>2, <2>2, <2>3 DEF Resend, TypeOK
<1>3. ASSUME NEW t \in Trades, Publish(t) PROVE TypeOK'
  <2>1. truth[t] \in [status : Names, tries : Nat]
    BY DEF TypeOK
  <2>2. PICK hash \in Hashes(truth[t]) :
           visible' = [visible EXCEPT ![t] =
             [status |-> [prefix |-> "TRADE_STATUS_", name |-> truth[t].status], hash |-> hash]]
    BY <1>3 DEF Publish
  <2>3. [status |-> [prefix |-> "TRADE_STATUS_", name |-> truth[t].status], hash |-> hash] \in Trade
    BY <2>1, HashesType DEF Trade, RawStatus
  <2>4. visible' \in [Trades -> Trade \cup {NoTrade}]
    BY <2>2, <2>3 DEF TypeOK
  <2> QED
    BY <1>3, <2>4 DEF Publish, TypeOK
<1>4. CASE Gap
  <2>8. budget \in [gaps : 0..MaxGaps, resends : 0..MaxResends]
    BY DEF TypeOK
  <2>9. budget.gaps > 0 /\ budget' = [budget EXCEPT !.gaps = @ - 1]
    BY <1>4 DEF Gap
  <2>1. budget' \in [gaps : 0..MaxGaps, resends : 0..MaxResends]
    BY <2>8, <2>9, BoundAssumption
  <2> QED
    BY <1>4, <2>1 DEF Gap, TypeOK
<1>5. CASE Resubscribe
  BY <1>5 DEF Resubscribe, TypeOK
<1> QED
  BY <1>1, <1>2, <1>3, <1>4, <1>5 DEF Exchange

-----------------------------------------------------------------------------
(* The queue of the tracker: sequences without repetition.                 *)

NoRepeat(q) == \A i, j \in DOMAIN q : q[i] = q[j] => i = j
Elements(q) == {q[i] : i \in DOMAIN q}

\* A queue without repetition is as long as the set of its elements.
LEMMA QueueLength ==
    ASSUME NEW S, NEW q \in Seq(S), NoRepeat(q)
    PROVE  Cardinality(Elements(q)) = Len(q)
<1>1. Len(q) \in Nat /\ DOMAIN q = 1..Len(q) /\ q \in [1..Len(q) -> Elements(q)]
  BY LenProperties DEF Elements
<1>2. \A e \in Elements(q) : \E i \in 1..Len(q) : q[i] = e
  BY <1>1 DEF Elements
<1>3. \A a, b \in 1..Len(q) : q[a] = q[b] => a = b
  BY <1>1 DEF NoRepeat
<1>4. q \in Bijection(1..Len(q), Elements(q))
  BY <1>1, <1>2, <1>3, Fun_IsBij
<1>5. ExistsBijection(1..Len(q), Elements(q))
  BY <1>4, Fun_ExistsBij
<1>6. IsFiniteSet(1..Len(q)) /\ Cardinality(1..Len(q)) = Len(q)
  BY <1>1, FS_Interval
<1> QED
  BY <1>5, <1>6, FS_Bijection

\* push_back of a new id keeps the queue free of repetitions.
LEMMA QueueAppend ==
    ASSUME NEW S, NEW q \in Seq(S), NoRepeat(q), NEW x \in S, x \notin Elements(q)
    PROVE  /\ Append(q, x) \in Seq(S)
           /\ NoRepeat(Append(q, x))
           /\ Elements(Append(q, x)) = Elements(q) \cup {x}
           /\ Len(Append(q, x)) = Len(q) + 1
<1> DEFINE r == Append(q, x)
<1>1. /\ Len(q) \in Nat /\ DOMAIN q = 1..Len(q)
      /\ r \in Seq(S) /\ Len(r) = Len(q) + 1 /\ DOMAIN r = 1..(Len(q) + 1)
      /\ \A i \in 1..Len(q) : r[i] = q[i]
      /\ r[Len(q) + 1] = x
  BY AppendProperties, LenProperties
<1> HIDE DEF r
<1>2. Elements(r) = Elements(q) \cup {x}
  BY <1>1 DEF Elements
<1>3. \A i \in 1..Len(q) : q[i] # x
  BY <1>1 DEF Elements
<1>4. NoRepeat(r)
  BY <1>1, <1>3 DEF NoRepeat
<1> QED
  BY <1>1, <1>2, <1>4 DEF r

\* pop_front removes exactly the oldest id.
LEMMA QueueTail ==
    ASSUME NEW S, NEW q \in Seq(S), NoRepeat(q), q # <<>>
    PROVE  /\ Tail(q) \in Seq(S)
           /\ NoRepeat(Tail(q))
           /\ Head(q) \in Elements(q)
           /\ Elements(Tail(q)) = Elements(q) \ {Head(q)}
           /\ Len(Tail(q)) = Len(q) - 1
<1> DEFINE r == Tail(q)
<1>1. /\ Len(q) \in Nat \ {0} /\ DOMAIN q = 1..Len(q)
      /\ r \in Seq(S) /\ Len(r) = Len(q) - 1 /\ DOMAIN r = 1..(Len(q) - 1)
      /\ \A i \in 1..(Len(q) - 1) : r[i] = q[i + 1]
      /\ Head(q) = q[1]
  BY HeadTailProperties, LenProperties, EmptySeq
<1> HIDE DEF r
<1>2. ASSUME NEW i \in DOMAIN r, NEW j \in DOMAIN r, r[i] = r[j] PROVE i = j
  <2>1. i + 1 \in DOMAIN q /\ j + 1 \in DOMAIN q /\ q[i + 1] = q[j + 1]
    BY <1>1, <1>2
  <2>2. i + 1 = j + 1
    BY <2>1 DEF NoRepeat
  <2> QED
    BY <1>1, <2>2
<1>6. NoRepeat(r)
  BY <1>2 DEF NoRepeat
<1>3. Head(q) \in Elements(q)
  BY <1>1 DEF Elements
<1>4. ASSUME NEW e \in Elements(r) PROVE e \in Elements(q) \ {Head(q)}
  <2>1. PICK i \in 1..(Len(q) - 1) : e = r[i]
    BY <1>1 DEF Elements
  <2>2. i + 1 \in 1..Len(q) /\ i + 1 # 1 /\ 1 \in 1..Len(q) /\ e = q[i + 1]
    BY <1>1, <2>1
  <2> QED
    BY <1>1, <2>2 DEF Elements, NoRepeat
<1>5. ASSUME NEW e \in Elements(q) \ {Head(q)} PROVE e \in Elements(r)
  <2>1. PICK i \in 1..Len(q) : e = q[i]
    BY <1>1 DEF Elements
  <2>2. i # 1
    BY <1>1, <2>1
  <2>3. i - 1 \in 1..(Len(q) - 1) /\ r[i - 1] = e
    BY <1>1, <2>1, <2>2
  <2> QED
    BY <1>1, <2>3 DEF Elements
<1> QED
  BY <1>1, <1>3, <1>4, <1>5, <1>6 DEF r

\* No trade is the mark of an absent one.
LEMMA TradeIsPresent ==
    ASSUME NEW trade \in Trade
    PROVE  trade # NoTrade
<1>1. trade.status.name \in Names
  BY DEF Trade, RawStatus
<1>2. NoTrade.status.name = "absent"
  BY DEF NoTrade
<1> QED
  BY <1>1, <1>2 DEF Names

\* record() keeps the map and the queue in agreement: at capacity the queue is
\* not empty, its head is the id erased from the map.
LEMMA TrackerStep ==
    ASSUME TypeOK, ArrivalMatchesTrades, NEW t \in Trades, NEW trade \in Trade,
           record(t, trade)
    PROVE  /\ trades' \in [Trades -> Trade \cup {NoTrade}]
           /\ arrival' \in Seq(Trades)
           /\ version' \in Nat
           /\ ArrivalMatchesTrades'
<1>0. trade # NoTrade
  BY TradeIsPresent
<1>1. /\ trades \in [Trades -> Trade \cup {NoTrade}] /\ version \in Nat
      /\ arrival \in Seq(Trades)
  BY DEF TypeOK
<1>2. /\ Elements(arrival) = Retained /\ NoRepeat(arrival)
      /\ Len(arrival) <= Capacity /\ Len(arrival) \in Nat
  BY <1>1, LenProperties DEF ArrivalMatchesTrades, Elements, NoRepeat
<1>3. Cardinality(Retained) = Len(arrival)
  BY <1>1, <1>2, QueueLength
<1>4. CASE trades[t] = NoTrade
  <2>0. version' \in Nat
    BY <1>1, <1>4 DEF record
  <2>1. t \notin Elements(arrival)
    BY <1>2, <1>4 DEF Retained
  <2>2. CASE Cardinality(Retained) < Capacity
    <3>1. trades' = [trades EXCEPT ![t] = trade] /\ arrival' = Append(arrival, t)
      BY <1>4, <2>2 DEF record, Insert
    <3>2. /\ arrival' \in Seq(Trades) /\ NoRepeat(arrival')
          /\ Elements(arrival') = Elements(arrival) \cup {t}
          /\ Len(arrival') = Len(arrival) + 1
      BY <3>1, <1>1, <1>2, <2>1, QueueAppend
    <3>3. Retained' = Retained \cup {t}
      BY <3>1, <1>0, <1>1 DEF Retained
    <3>4. Len(arrival') <= Capacity
      BY <3>2, <1>2, <1>3, <2>2, CapacityAssumption
    <3>5. ArrivalMatchesTrades'
      BY <3>2, <3>3, <3>4, <1>2 DEF ArrivalMatchesTrades, Elements, NoRepeat
    <3> QED
      BY <3>1, <3>2, <3>5, <2>0, <1>1
  <2>3. CASE ~(Cardinality(Retained) < Capacity)
    <3>1. /\ trades' = [trades EXCEPT ![t] = trade, ![Head(arrival)] = NoTrade]
          /\ arrival' = Append(Tail(arrival), t)
      BY <1>4, <2>3 DEF record, Insert
    <3>2. Len(arrival) = Capacity /\ arrival # <<>>
      BY <1>1, <1>2, <1>3, <2>3, CapacityAssumption, LenProperties, EmptySeq
    <3>3. /\ Tail(arrival) \in Seq(Trades) /\ NoRepeat(Tail(arrival))
          /\ Head(arrival) \in Retained
          /\ Elements(Tail(arrival)) = Retained \ {Head(arrival)}
          /\ Len(Tail(arrival)) = Len(arrival) - 1
      BY <1>1, <1>2, <3>2, QueueTail
    <3>4. t \notin Elements(Tail(arrival))
      BY <2>1, <1>2, <3>3
    <3> DEFINE q == Tail(arrival)
    <3> HIDE DEF q
    <3>a. q \in Seq(Trades) /\ NoRepeat(q) /\ t \notin Elements(q)
      BY <3>3, <3>4 DEF q
    <3>b. /\ Append(q, t) \in Seq(Trades) /\ NoRepeat(Append(q, t))
          /\ Elements(Append(q, t)) = Elements(q) \cup {t}
          /\ Len(Append(q, t)) = Len(q) + 1
      BY <3>a, QueueAppend
    <3>5. /\ arrival' \in Seq(Trades) /\ NoRepeat(arrival')
          /\ Elements(arrival') = (Retained \ {Head(arrival)}) \cup {t}
          /\ Len(arrival') = Len(arrival)
      BY <3>1, <3>3, <3>b, <1>2 DEF q
    <3>6. Head(arrival) \in Trades /\ Head(arrival) # t
      BY <3>3, <1>4 DEF Retained
    <3>7. Retained' = (Retained \ {Head(arrival)}) \cup {t}
      BY <3>1, <3>6, <1>0, <1>1 DEF Retained
    <3>8. ArrivalMatchesTrades'
      BY <3>2, <3>5, <3>7, CapacityAssumption DEF ArrivalMatchesTrades, Elements, NoRepeat
    <3> QED
      BY <3>1, <3>5, <3>8, <2>0, <1>1
  <2> QED
    BY <2>2, <2>3
<1>5. CASE trades[t] # NoTrade
  <2>1. /\ trades' = trades \/ trades' = [trades EXCEPT ![t] = trade]
        /\ arrival' = arrival
        /\ version' \in Nat
    BY <1>1, <1>5 DEF record
  <2>2. Retained' = Retained
    BY <2>1, <1>0, <1>1, <1>5 DEF Retained
  <2> QED
    BY <2>1, <2>2, <1>1 DEF ArrivalMatchesTrades
<1> QED
  BY <1>4, <1>5

-----------------------------------------------------------------------------
(* The types of the waiting call.                                          *)

\* The call sleeps, reads or looks up only while a fill is pending. Types
\* alone do not give this, and the loops over pending fills rely on it.
SomethingPending ==
    /\ waiter.pc = "idle" => waiter.settled = NoFillSettled
    /\ waiter.pc \in {"baseline", "version", "compare", "wait"} =>
          pending_ids(waiter.settled) # {}

\* finish_settlement reports the hashes of the fills it keeps.
LEMMA FinishType ==
    ASSUME waiter \in WaiterType, finish_settlement, pending_ids(waiter.settled) = {}
    PROVE  /\ waiter' \in WaiterType
           /\ waiter'.pc = "done"
<1> DEFINE kept == {t \in Fills : ~is_failed_trade_status(waiter.settled[t].status)}
           hashes == {waiter.settled[t].hash : t \in kept}
           res == IF kept = {} THEN "failed" ELSE "settled"
<1>1. waiter' = [waiter EXCEPT !.pc = "done", !.result = res, !.hashes = hashes]
  BY DEF finish_settlement
<1>2. \A t \in Fills : waiter.settled[t] \in Trade
  BY DEF WaiterType, pending_ids
<1>3. \A r \in Trade : r.hash \in Nat
  BY DEF Trade
<1>4. hashes \in SUBSET Nat
  BY <1>2, <1>3
<1>5. res \in Results /\ "done" \in Pcs
  BY DEF Results, Pcs
<1> HIDE DEF kept, hashes, res
<1> QED
  BY <1>1, <1>4, <1>5 DEF WaiterType

\* A read or a lookup of a fill: the fill leaves the list, and what is kept
\* for it is a trade.
LEMMA RestType ==
    ASSUME waiter \in WaiterType, NEW t \in waiter.todo, NEW trade \in Trade \cup {NoTrade},
           NEW next \in Pcs, NEW more \in Pcs, NEW asked \in SUBSET Fills,
           NEW needs \in BOOLEAN, next \notin {"scan", "lookup"},
           waiter' = [waiter EXCEPT
                        !.todo = waiter.todo \ {t},
                        !.pc = IF waiter.todo \ {t} = {} THEN next ELSE more,
                        !.settled[t] = IF has_settlement_details(trade) THEN trade ELSE @,
                        !.asked = asked,
                        !.needs_hash_lookup = needs]
    PROVE  /\ waiter' \in WaiterType
           /\ waiter'.pc \in {"scan", "lookup"} => waiter'.todo # {}
<1> DEFINE kept == [waiter.settled EXCEPT ![t] =
                      IF has_settlement_details(trade) THEN trade ELSE @]
           rest == waiter.todo \ {t}
           pc   == IF rest = {} THEN next ELSE more
<1>1. waiter.settled \in [Fills -> Trade \cup {NoTrade}] /\ waiter.todo \in SUBSET Fills
  BY DEF WaiterType
<1>2. kept \in [Fills -> Trade \cup {NoTrade}]
  BY <1>1
<1>3. waiter' = [waiter EXCEPT !.todo = rest, !.pc = pc, !.settled = kept,
                               !.asked = asked, !.needs_hash_lookup = needs]
  BY DEF WaiterType
<1>4. rest \in SUBSET Fills /\ pc \in Pcs /\ (pc \in {"scan", "lookup"} => rest # {})
  BY <1>1
<1> HIDE DEF kept, rest, pc
<1> QED
  BY <1>2, <1>3, <1>4 DEF WaiterType

\* The steps of the waiting call keep the types of its locals.
LEMMA WaiterTypes ==
    ASSUME TypeOK, SomethingPending, Call \/ Waiter
    PROVE  /\ waiter' \in WaiterType
           /\ waiter'.pc \in {"scan", "lookup"} => waiter'.todo # {}
<1> DEFINE Good == /\ waiter' \in WaiterType
                   /\ waiter'.pc \in {"scan", "lookup"} => waiter'.todo # {}
<1>0. waiter \in WaiterType /\ (waiter.pc \in {"scan", "lookup"} => waiter.todo # {})
  BY DEF TypeOK, WaiterType
<1>a. pending_ids(waiter.settled) \in SUBSET Fills
  BY DEF pending_ids
<1>b. version \in Nat /\ recoveries \in Nat
  BY DEF TypeOK
<1>c. \A t \in Fills : trades[t] \in Trade \cup {NoTrade} /\ visible[t] \in Trade \cup {NoTrade}
  BY FillsAreTrades DEF TypeOK
<1>d. \A r : Return(r) /\ r \in Results => Good
  BY <1>0 DEF Return, WaiterType, Pcs
<1>e. waiter.pc \in {"version", "compare", "wait"} => pending_ids(waiter.settled) # {}
  BY DEF SomethingPending
<1>1. CASE Call
  BY <1>0, <1>1, <1>d DEF Call, WaiterType, Pcs, Results
<1>2. CASE ReadBaseline
  BY <1>0, <1>2, <1>b DEF ReadBaseline, WaiterType, Pcs
<1>3. CASE ReadVersion
  BY <1>0, <1>3, <1>a, <1>b, <1>e DEF ReadVersion, WaiterType, Pcs
<1>4. CASE ReadLatest
  <2>1. PICK t \in waiter.todo :
           LET trade == trades[t]
               ask   == /\ is_settled_trade_status(trade.status)
                        /\ ~has_settlement_details(trade)
                        /\ t \notin waiter.asked
           IN  waiter' = [waiter EXCEPT
                 !.todo = waiter.todo \ {t},
                 !.pc = IF waiter.todo \ {t} = {} THEN "decide" ELSE "scan",
                 !.settled[t] = IF has_settlement_details(trade) THEN trade ELSE @,
                 !.asked = IF ask THEN waiter.asked \cup {t} ELSE waiter.asked,
                 !.needs_hash_lookup = waiter.needs_hash_lookup \/ ask]
    BY <1>4, Zenon DEF ReadLatest
  <2> DEFINE ask == /\ is_settled_trade_status(trades[t].status)
                    /\ ~has_settlement_details(trades[t])
                    /\ t \notin waiter.asked
             asked == IF ask THEN waiter.asked \cup {t} ELSE waiter.asked
             needs == waiter.needs_hash_lookup \/ ask
  <2>2. t \in Fills /\ waiter.asked \in SUBSET Fills /\ waiter.needs_hash_lookup \in BOOLEAN
    BY <1>0 DEF WaiterType
  <2>3. asked \in SUBSET Fills
    BY <2>2
  <2>4. needs \in BOOLEAN
    BY <2>2
  <2>5. "decide" \in Pcs /\ "scan" \in Pcs /\ "decide" \notin {"scan", "lookup"}
    BY DEF Pcs
  <2>6. trades[t] \in Trade \cup {NoTrade}
    BY <1>c, <2>2
  <2>7. waiter' = [waiter EXCEPT
                 !.todo = waiter.todo \ {t},
                 !.pc = IF waiter.todo \ {t} = {} THEN "decide" ELSE "scan",
                 !.settled[t] = IF has_settlement_details(trades[t]) THEN trades[t] ELSE @,
                 !.asked = asked,
                 !.needs_hash_lookup = needs]
    BY <2>1
  <2> HIDE DEF asked, needs, ask
  <2> QED
    BY <1>0, <2>3, <2>4, <2>5, <2>6, <2>7, RestType
<1>5. CASE Decide
  <2>1. CASE pending_ids(waiter.settled) = {}
    BY <1>0, <1>5, <2>1, FinishType DEF Decide
  <2>2. CASE pending_ids(waiter.settled) # {}
    BY <1>0, <1>5, <2>2 DEF Decide, WaiterType, Pcs
  <2> QED
    BY <2>1, <2>2
<1>6. CASE Compare
  BY <1>0, <1>6, <1>a, <1>b, <1>e DEF Compare, WaiterType, Pcs
<1>7. CASE lookup_trade
  <2>1. CASE Return("error")
    BY <2>1, <1>d DEF Results
  <2>2. CASE ~Return("error")
    <3>1. PICK t \in waiter.todo :
             waiter' = [waiter EXCEPT
                    !.todo = waiter.todo \ {t},
                    !.pc = IF waiter.todo \ {t} = {} THEN "after" ELSE "lookup",
                    !.settled[t] = IF has_settlement_details(visible[t])
                                   THEN visible[t] ELSE @]
      BY <1>7, <2>2, Zenon DEF lookup_trade
    <3> DEFINE asked == waiter.asked
               needs == waiter.needs_hash_lookup
    <3>2. t \in Fills /\ asked \in SUBSET Fills /\ needs \in BOOLEAN
      BY <1>0 DEF WaiterType
    <3>3. "after" \in Pcs /\ "lookup" \in Pcs /\ "after" \notin {"scan", "lookup"}
      BY DEF Pcs
    <3>4. waiter' = [waiter EXCEPT
                    !.todo = waiter.todo \ {t},
                    !.pc = IF waiter.todo \ {t} = {} THEN "after" ELSE "lookup",
                    !.settled[t] = IF has_settlement_details(visible[t])
                                   THEN visible[t] ELSE @,
                    !.asked = asked,
                    !.needs_hash_lookup = needs]
      BY <3>1, <1>0 DEF WaiterType
    <3>5. visible[t] \in Trade \cup {NoTrade}
      BY <1>c, <3>2
    <3> HIDE DEF asked, needs
    <3> QED
      BY <1>0, <3>2, <3>3, <3>4, <3>5, RestType
  <2> QED
    BY <2>1, <2>2
<1>8. CASE AfterLookups
  <2>1. CASE pending_ids(waiter.settled) = {}
    BY <1>0, <1>8, <2>1, FinishType DEF AfterLookups
  <2>2. CASE pending_ids(waiter.settled) # {}
    BY <1>0, <1>8, <2>2, <1>d DEF AfterLookups, WaiterType, Pcs, Results
  <2> QED
    BY <2>1, <2>2
<1>9. CASE Wake
  BY <1>0, <1>9, <1>a, <1>e DEF Wake, WaiterType, Pcs
<1> QED
  BY <1>1, <1>2, <1>3, <1>4, <1>5, <1>6, <1>7, <1>8, <1>9 DEF Waiter

\* A round of reads or lookups is only begun with a fill left to read.
LEMMA PendingStep ==
    ASSUME TypeOK, SomethingPending, Call \/ Waiter
    PROVE  SomethingPending'
<1>0. waiter \in WaiterType
  BY DEF TypeOK, WaiterType
<1>1. CASE Call
  <2>1. pending_ids(NoFillSettled) = Fills
    BY DEF pending_ids, NoFillSettled
  <2> QED
    BY <1>0, <1>1, <2>1 DEF SomethingPending, Call, Return, WaiterType
<1>2. CASE ReadBaseline
  BY <1>0, <1>2 DEF SomethingPending, ReadBaseline, WaiterType
<1>3. CASE ReadVersion
  BY <1>0, <1>3 DEF SomethingPending, ReadVersion, WaiterType
<1>4. CASE ReadLatest
  <2>1. waiter'.pc \in {"scan", "decide"}
    BY <1>0, <1>4 DEF ReadLatest, WaiterType
  <2> QED
    BY <2>1 DEF SomethingPending
<1>5. CASE Decide
  BY <1>0, <1>5 DEF SomethingPending, Decide, finish_settlement, WaiterType
<1>6. CASE Compare
  BY <1>0, <1>6 DEF SomethingPending, Compare, WaiterType
<1>7. CASE lookup_trade
  <2>1. waiter'.pc \in {"lookup", "after", "done"}
    BY <1>0, <1>7 DEF lookup_trade, Return, WaiterType
  <2> QED
    BY <2>1 DEF SomethingPending
<1>8. CASE AfterLookups
  BY <1>0, <1>8 DEF SomethingPending, AfterLookups, finish_settlement, Return, WaiterType
<1>9. CASE Wake
  BY <1>0, <1>9 DEF SomethingPending, Wake, WaiterType
<1> QED
  BY <1>1, <1>2, <1>3, <1>4, <1>5, <1>6, <1>7, <1>8, <1>9 DEF Waiter

\* The waiting call writes its locals, the clock and the history only.
LEMMA WaiterFrame ==
    ASSUME TypeOK, SomethingPending, Call \/ Waiter
    PROVE  /\ UNCHANGED <<exchange, tracker>>
           /\ clock' \in {clock, "early"}
           /\ listed' \in SUBSET Fills
<1>1. listed \in SUBSET Fills /\ ListedFills \in SUBSET Fills
  BY DEF TypeOK, ListedFills
<1>2. CASE Call
  BY <1>1, <1>2 DEF Call, Shared
<1>3. CASE Waiter
  BY <1>1, <1>3 DEF Waiter, ReadBaseline, ReadVersion, ReadLatest, Decide, Compare,
                    lookup_trade, AfterLookups, Wake, Shared
<1> QED
  BY <1>2, <1>3

TypeInv == TypeOK /\ SomethingPending /\ ArrivalMatchesTrades

\* One step per action: the type invariant is inductive.
LEMMA TypeStep == TypeInv /\ [Next]_vars => TypeInv'
<1> SUFFICES ASSUME TypeInv, [Next]_vars PROVE TypeInv'
  OBVIOUS
<1> USE DEF TypeInv
<1>1. CASE Exchange
  <2>1. UNCHANGED <<trades, arrival, waiter>>
    BY <1>1 DEF Exchange, Advance, Resend, Publish, Gap, Resubscribe, tracker
  <2>2. SomethingPending' /\ ArrivalMatchesTrades'
    BY <2>1 DEF SomethingPending, ArrivalMatchesTrades, Retained
  <2> QED
    BY <1>1, <2>2, ExchangeType
<1>2. CASE Deliver
  <2>1. PICK e \in wire : wire' = wire \ {e} /\ record(e.id, e.trade)
    BY <1>2 DEF Deliver
  <2>2. e.id \in Trades /\ e.trade \in Trade
    BY DEF TypeOK
  <2>3. /\ trades' \in [Trades -> Trade \cup {NoTrade}]
        /\ arrival' \in Seq(Trades) /\ version' \in Nat /\ ArrivalMatchesTrades'
    BY <2>1, <2>2, TrackerStep
  <2>4. SomethingPending'
    BY <1>2 DEF Deliver, SomethingPending
  <2>5. UNCHANGED <<truth, visible, stream, budget, recoveries, waiter, clock, listed>>
    BY <1>2 DEF Deliver
  <2> QED
    BY <2>1, <2>3, <2>4, <2>5 DEF TypeOK
<1>3. CASE mark_recovered
  <2>1. ArrivalMatchesTrades' /\ SomethingPending'
    BY <1>3 DEF mark_recovered, ArrivalMatchesTrades, Retained, SomethingPending
  <2> QED
    BY <1>3, <2>1 DEF mark_recovered, TypeOK
<1>4. CASE Call \/ Waiter
  <2>1. waiter' \in WaiterType /\ (waiter'.pc \in {"scan", "lookup"} => waiter'.todo # {})
    BY <1>4, WaiterTypes
  <2>2. /\ UNCHANGED <<exchange, tracker>> /\ clock' \in {clock, "early"}
        /\ listed' \in SUBSET Fills
    BY <1>4, WaiterFrame
  <2>3. SomethingPending'
    BY <1>4, PendingStep
  <2>4. ArrivalMatchesTrades'
    BY <2>2 DEF tracker, ArrivalMatchesTrades, Retained
  <2> QED
    BY <2>1, <2>2, <2>3, <2>4 DEF exchange, tracker, TypeOK, WaiterType
<1>5. CASE Due \/ Late
  <2>1. UNCHANGED <<exchange, tracker, waiter, listed>> /\ clock' \in {"due", "late"}
    BY <1>5 DEF Due, Late, Shared
  <2>2. ArrivalMatchesTrades' /\ SomethingPending'
    BY <2>1 DEF tracker, ArrivalMatchesTrades, Retained, SomethingPending
  <2> QED
    BY <2>1, <2>2 DEF exchange, tracker, TypeOK
<1>6. CASE UNCHANGED vars
  BY <1>6 DEF vars, exchange, tracker, TypeOK, SomethingPending, ArrivalMatchesTrades, Retained
<1> QED
  BY <1>1, <1>2, <1>3, <1>4, <1>5, <1>6 DEF Next

\* The type invariant holds initially.
LEMMA TypeInit == Init => TypeInv
<1> SUFFICES ASSUME Init PROVE TypeInv
  OBVIOUS
<1>1. TypeOK
  BY InitType
<1>2. SomethingPending
  BY DEF Init, Idle, SomethingPending
<1>3. ArrivalMatchesTrades
  BY CapacityAssumption DEF Init, ArrivalMatchesTrades, Retained
<1> QED
  BY <1>1, <1>2, <1>3 DEF TypeInv

\* Every run keeps its types (TypeOK): no loop of the waiting call runs over an
\* empty list and record() never pops an empty queue.
THEOREM TypeCorrect == Spec => []TypeOK
<1>1. Spec => []TypeInv
  BY TypeInit, TypeStep, PTL DEF Spec
<1>2. TypeInv => TypeOK
  BY DEF TypeInv
<1> QED
  BY <1>1, <1>2, PTL

\* The tracker's queue and map agree in every reachable state
\* (ArrivalMatchesTrades, trade_status_tracker.cpp:41-67), for every capacity.
THEOREM QueueMatchesMap == Spec => []ArrivalMatchesTrades
<1>1. Spec => []TypeInv
  BY TypeInit, TypeStep, PTL DEF Spec
<1>2. TypeInv => ArrivalMatchesTrades
  BY DEF TypeInv
<1> QED
  BY <1>1, <1>2, PTL

-----------------------------------------------------------------------------
(* What a read of the tracker and a REST lookup do to the waiter's locals.  *)

\* The settled list after one fill was read.
Keep(settled, t, trade) ==
    [settled EXCEPT ![t] = IF has_settlement_details(trade) THEN trade ELSE @]

\* A trade the tracker does not hold settles nothing.
LEMMA DetailsArePresent == ~has_settlement_details(NoTrade)
BY DEF has_settlement_details, NoTrade, normalized_trade_status

\* Keeping one fill's settled trade takes at most that fill from the pending ones.
LEMMA KeepPending ==
    ASSUME NEW settled \in [Fills -> Trade \cup {NoTrade}], NEW t \in Fills, NEW trade
    PROVE  /\ \A u \in Fills \ {t} : Keep(settled, t, trade)[u] = settled[u]
           /\ Keep(settled, t, trade)[t] =
                 IF has_settlement_details(trade) THEN trade ELSE settled[t]
           /\ pending_ids(Keep(settled, t, trade)) \subseteq pending_ids(settled)
           /\ t \in pending_ids(Keep(settled, t, trade)) => ~has_settlement_details(trade)
<1>1. \A u \in Fills \ {t} : Keep(settled, t, trade)[u] = settled[u]
  BY DEF Keep
<1>2. Keep(settled, t, trade)[t] = IF has_settlement_details(trade) THEN trade ELSE settled[t]
  BY DEF Keep
<1>3. has_settlement_details(trade) => Keep(settled, t, trade)[t] # NoTrade
  BY <1>2, DetailsArePresent
<1> QED
  BY <1>1, <1>2, <1>3 DEF pending_ids

\* What one round of the loop over tracker.latest() does to the locals.
LEMMA ReadLatestEffect ==
    ASSUME waiter \in WaiterType, ReadLatest
    PROVE  \E t \in waiter.todo :
             /\ waiter'.todo = waiter.todo \ {t}
             /\ waiter'.pc = IF waiter.todo \ {t} = {} THEN "decide" ELSE "scan"
             /\ waiter'.settled = Keep(waiter.settled, t, trades[t])
             /\ waiter.asked \subseteq waiter'.asked
             /\ /\ is_settled_trade_status(trades[t].status)
                /\ ~has_settlement_details(trades[t])
                => t \in waiter'.asked
             /\ waiter'.mode = waiter.mode /\ waiter'.seen = waiter.seen
             /\ waiter'.reconciled = waiter.reconciled
             /\ waiter'.result = waiter.result /\ waiter'.hashes = waiter.hashes
<1>1. PICK t \in waiter.todo :
         LET trade == trades[t]
             ask   == /\ is_settled_trade_status(trade.status)
                      /\ ~has_settlement_details(trade)
                      /\ t \notin waiter.asked
         IN  waiter' = [waiter EXCEPT
               !.todo = waiter.todo \ {t},
               !.pc = IF waiter.todo \ {t} = {} THEN "decide" ELSE "scan",
               !.settled[t] = IF has_settlement_details(trade) THEN trade ELSE @,
               !.asked = IF ask THEN waiter.asked \cup {t} ELSE waiter.asked,
               !.needs_hash_lookup = waiter.needs_hash_lookup \/ ask]
  BY Zenon DEF ReadLatest
<1> DEFINE ask == /\ is_settled_trade_status(trades[t].status)
                  /\ ~has_settlement_details(trades[t])
                  /\ t \notin waiter.asked
           asked == IF ask THEN waiter.asked \cup {t} ELSE waiter.asked
           needs == waiter.needs_hash_lookup \/ ask
<1>2. waiter' = [waiter EXCEPT
               !.todo = waiter.todo \ {t},
               !.pc = IF waiter.todo \ {t} = {} THEN "decide" ELSE "scan",
               !.settled[t] = IF has_settlement_details(trades[t]) THEN trades[t] ELSE @,
               !.asked = asked,
               !.needs_hash_lookup = needs]
  BY <1>1
<1>3. /\ waiter.asked \subseteq asked
      /\ /\ is_settled_trade_status(trades[t].status)
         /\ ~has_settlement_details(trades[t])
         => t \in asked
  OBVIOUS
<1> HIDE DEF ask, asked, needs
<1>4. /\ waiter'.todo = waiter.todo \ {t}
      /\ waiter'.pc = IF waiter.todo \ {t} = {} THEN "decide" ELSE "scan"
      /\ waiter'.settled = Keep(waiter.settled, t, trades[t])
      /\ waiter'.asked = asked
      /\ waiter'.mode = waiter.mode /\ waiter'.seen = waiter.seen
      /\ waiter'.reconciled = waiter.reconciled
      /\ waiter'.result = waiter.result /\ waiter'.hashes = waiter.hashes
  BY <1>2 DEF WaiterType, Keep
<1> QED
  BY <1>3, <1>4

\* What one REST lookup does to the locals.
LEMMA LookupEffect ==
    ASSUME waiter \in WaiterType, lookup_trade, ~Return("error")
    PROVE  \E t \in waiter.todo :
             /\ waiter'.todo = waiter.todo \ {t}
             /\ waiter'.pc = IF waiter.todo \ {t} = {} THEN "after" ELSE "lookup"
             /\ waiter'.settled = Keep(waiter.settled, t, visible[t])
             /\ waiter'.asked = waiter.asked
             /\ waiter'.mode = waiter.mode /\ waiter'.seen = waiter.seen
             /\ waiter'.reconciled = waiter.reconciled
             /\ waiter'.result = waiter.result /\ waiter'.hashes = waiter.hashes
BY DEF lookup_trade, WaiterType, Keep

-----------------------------------------------------------------------------
(* No lost wakeup.                                                         *)

\* Pending fills the current round has read from the tracker.
Examined == IF waiter.pc = "scan" THEN pending_ids(waiter.settled) \ waiter.todo
            ELSE pending_ids(waiter.settled)

\* While the version read at the start of the round is still the current one,
\* everything the round has read is still what the tracker holds.
WakeInv ==
    /\ waiter.seen <= version
    /\ /\ waiter.mode = "tracker" /\ version = waiter.seen
       /\ waiter.pc \in {"scan", "decide", "compare", "lookup", "after", "wait"}
       => \A t \in Examined :
             /\ ~has_settlement_details(trades[t])
             /\ is_settled_trade_status(trades[t].status) => t \in waiter.asked
    /\ /\ waiter.mode = "tracker" /\ version = waiter.seen
       /\ waiter.pc \in {"lookup", "after", "wait"}
       => waiter.reconciled = recoveries

\* The waiter's own steps keep the account of what it has examined.
LEMMA WakeWaiterStep ==
    ASSUME TypeInv, WakeInv, Call \/ Waiter
    PROVE  WakeInv'
<1>0. waiter \in WaiterType /\ version \in Nat /\ waiter.settled \in [Fills -> Trade \cup {NoTrade}]
  BY DEF TypeInv, TypeOK, WaiterType
<1>a. UNCHANGED <<trades, version, recoveries>>
  BY WaiterFrame DEF TypeInv, tracker
<1>b. waiter' \in WaiterType
  BY WaiterTypes DEF TypeInv
<1>1. CASE Call
  BY <1>0, <1>1, <1>a DEF WakeInv, Call, Return, WaiterType
<1>2. CASE ReadBaseline
  BY <1>0, <1>2, <1>a DEF WakeInv, ReadBaseline, WaiterType
<1>3. CASE ReadVersion
  <2>1. /\ waiter'.pc = "scan" /\ waiter'.seen = version
        /\ waiter'.todo = pending_ids(waiter.settled) /\ waiter'.settled = waiter.settled
    BY <1>0, <1>3 DEF ReadVersion, WaiterType
  <2>2. Examined' = {}
    BY <2>1 DEF Examined
  <2> QED
    BY <1>0, <1>a, <2>1, <2>2 DEF WakeInv
<1>4. CASE ReadLatest
  <2>1. waiter.pc = "scan"
    BY <1>4 DEF ReadLatest
  <2>2. PICK t \in waiter.todo :
             /\ waiter'.todo = waiter.todo \ {t}
             /\ waiter'.pc = IF waiter.todo \ {t} = {} THEN "decide" ELSE "scan"
             /\ waiter'.settled = Keep(waiter.settled, t, trades[t])
             /\ waiter.asked \subseteq waiter'.asked
             /\ /\ is_settled_trade_status(trades[t].status)
                /\ ~has_settlement_details(trades[t])
                => t \in waiter'.asked
             /\ waiter'.mode = waiter.mode /\ waiter'.seen = waiter.seen
    BY <1>0, <1>4, ReadLatestEffect
  <2>3. t \in Fills
    BY <1>0 DEF WaiterType
  <2>4. /\ pending_ids(waiter'.settled) \subseteq pending_ids(waiter.settled)
        /\ t \in pending_ids(waiter'.settled) => ~has_settlement_details(trades[t])
    BY <1>0, <2>2, <2>3, KeepPending
  <2>5. Examined' \subseteq pending_ids(waiter'.settled) \ (waiter.todo \ {t})
    BY <2>2 DEF Examined
  <2>6. \A u \in Examined' : u # t => u \in Examined
    BY <2>1, <2>4, <2>5 DEF Examined
  <2>7. ASSUME waiter'.mode = "tracker", version' = waiter'.seen, NEW u \in Examined'
        PROVE  /\ ~has_settlement_details(trades'[u])
               /\ is_settled_trade_status(trades'[u].status) => u \in waiter'.asked
    <3>1. CASE u = t
      BY <3>1, <2>2, <2>4, <2>5, <1>a
    <3>2. CASE u # t
      BY <3>2, <2>7, <2>6, <2>2, <2>1, <1>a DEF WakeInv
    <3> QED
      BY <3>1, <3>2
  <2> QED
    BY <2>2, <2>7, <1>a DEF WakeInv
<1>5. CASE Decide
  BY <1>0, <1>5, <1>a DEF WakeInv, Decide, finish_settlement, WaiterType, Examined
<1>6. CASE Compare
  <2>1. /\ waiter.pc = "compare" /\ waiter'.pc \in {"lookup", "wait"}
        /\ waiter'.settled = waiter.settled /\ waiter'.reconciled = recoveries
        /\ waiter'.asked = waiter.asked /\ waiter'.mode = waiter.mode /\ waiter'.seen = waiter.seen
    BY <1>0, <1>6 DEF Compare, WaiterType
  <2>2. Examined' = Examined
    BY <2>1 DEF Examined
  <2> QED
    BY <1>a, <2>1, <2>2 DEF WakeInv
<1>7. CASE lookup_trade
  <2>1. CASE Return("error")
    BY <1>0, <1>a, <2>1 DEF WakeInv, Return, WaiterType
  <2>2. CASE ~Return("error")
    <3>0. waiter.pc = "lookup"
      BY <1>7 DEF lookup_trade
    <3>1. PICK t \in waiter.todo :
             /\ waiter'.pc = IF waiter.todo \ {t} = {} THEN "after" ELSE "lookup"
             /\ waiter'.settled = Keep(waiter.settled, t, visible[t])
             /\ waiter'.asked = waiter.asked
             /\ waiter'.mode = waiter.mode /\ waiter'.seen = waiter.seen
             /\ waiter'.reconciled = waiter.reconciled
      BY <1>0, <1>7, <2>2, LookupEffect
    <3>2. t \in Fills
      BY <1>0 DEF WaiterType
    <3>3. pending_ids(waiter'.settled) \subseteq pending_ids(waiter.settled)
      BY <1>0, <3>1, <3>2, KeepPending
    <3>4. Examined' \subseteq Examined
      BY <3>0, <3>1, <3>3 DEF Examined
    <3> QED
      BY <1>a, <3>0, <3>1, <3>4 DEF WakeInv
  <2> QED
    BY <2>1, <2>2
<1>8. CASE AfterLookups
  BY <1>0, <1>8, <1>a DEF WakeInv, AfterLookups, finish_settlement, Return, WaiterType, Examined
<1>9. CASE Wake
  <2>1. /\ waiter.pc = "wait" /\ waiter'.settled = waiter.settled /\ waiter'.mode = waiter.mode
        /\ waiter'.seen = waiter.seen
        /\ \/ waiter'.pc = "version"
           \/ waiter'.pc = "lookup" /\ waiter'.mode = "poll"
    BY <1>0, <1>9 DEF Wake, WaiterType
  <2> QED
    BY <1>a, <2>1 DEF WakeInv
<1> QED
  BY <1>1, <1>2, <1>3, <1>4, <1>5, <1>6, <1>7, <1>8, <1>9 DEF Waiter

\* The wake-up invariant is inductive: record and mark_recovered change the version with the data.
LEMMA WakeStep == TypeInv /\ WakeInv /\ [Next]_vars => WakeInv'
<1> SUFFICES ASSUME TypeInv, WakeInv, [Next]_vars PROVE WakeInv'
  OBVIOUS
<1>0. version \in Nat /\ waiter.seen \in Nat
  BY DEF TypeInv, TypeOK
<1>1. CASE UNCHANGED <<tracker, waiter>>
  BY <1>1 DEF WakeInv, Examined, tracker
<1>2. CASE Deliver
  <2>1. PICK e \in wire : record(e.id, e.trade)
    BY <1>2 DEF Deliver
  <2>2. UNCHANGED <<trades, arrival, version>> \/ version' = version + 1
    BY <2>1 DEF record
  <2>3. UNCHANGED <<recoveries, waiter>>
    BY <1>2 DEF Deliver
  <2> QED
    BY <1>0, <2>2, <2>3 DEF WakeInv, Examined
<1>3. CASE mark_recovered
  BY <1>0, <1>3 DEF mark_recovered, WakeInv
<1>4. CASE Call \/ Waiter
  BY <1>4, WakeWaiterStep
<1>5. CASE Exchange
  BY <1>5, <1>1 DEF Exchange, Advance, Resend, Publish, Gap, Resubscribe
<1>6. CASE Due \/ Late \/ UNCHANGED vars
  BY <1>6, <1>1 DEF Due, Late, Shared, vars
<1> QED
  BY <1>2, <1>3, <1>4, <1>5, <1>6 DEF Next

\* The tracker form of the wait never sleeps on news (NoLostWakeup,
\* clob_order_settlement.cpp:205 and trade_status_tracker.cpp:99-104), however
\* many events, recoveries and lookups there are.
THEOREM WakesOnNews == Spec => []NoLostWakeup
<1>1. Init => TypeInv /\ WakeInv
  <2>1. Init => WakeInv
    BY DEF Init, Idle, WakeInv
  <2> QED
    BY <2>1, TypeInit
<1>2. (TypeInv /\ WakeInv) /\ [Next]_vars => (TypeInv /\ WakeInv)'
  BY TypeStep, WakeStep
<1>3. TypeInv /\ WakeInv => NoLostWakeup
  BY DEF WakeInv, NoLostWakeup, Examined
<1> QED
  BY <1>1, <1>2, <1>3, PTL DEF Spec

-----------------------------------------------------------------------------
(* A timeout is honest.                                                    *)

\* REST keeps listing a settled trade; the fills this round has looked up and
\* left pending were not listed when it began; a result ends the call.
HonestInv ==
    /\ \A t \in listed : has_settlement_details(visible[t])
    /\ waiter.pc = "lookup" =>
          (pending_ids(waiter.settled) \ waiter.todo) \cap listed = {}
    /\ waiter.pc = "after" => pending_ids(waiter.settled) \cap listed = {}
    /\ waiter.pc # "done" => waiter.result = "none"
    /\ TimeoutIsHonest

\* The waiter's own steps keep the account of what REST listed.
LEMMA HonestWaiterStep ==
    ASSUME TypeInv, HonestInv, Call \/ Waiter
    PROVE  HonestInv'
<1>0. waiter \in WaiterType /\ waiter.settled \in [Fills -> Trade \cup {NoTrade}]
  BY DEF TypeInv, TypeOK, WaiterType
<1>a. visible' = visible
  BY WaiterFrame DEF TypeInv, exchange
<1>b. \A t \in ListedFills : has_settlement_details(visible[t])
  BY DEF ListedFills
<1>1. CASE Call
  <2>1. waiter.settled = NoFillSettled
    BY <1>1 DEF Call, TypeInv, SomethingPending
  <2> QED
    BY <1>0, <1>1, <1>a, <1>b, <2>1
       DEF HonestInv, TimeoutIsHonest, Call, Return, WaiterType, pending_ids
<1>2. CASE ReadBaseline
  BY <1>0, <1>2, <1>a DEF HonestInv, TimeoutIsHonest, ReadBaseline, WaiterType
<1>3. CASE ReadVersion
  BY <1>0, <1>3, <1>a, <1>b DEF HonestInv, TimeoutIsHonest, ReadVersion, WaiterType
<1>4. CASE ReadLatest
  <2>1. /\ waiter'.pc \in {"scan", "decide"} /\ waiter'.result = waiter.result
        /\ waiter.pc = "scan" /\ listed' = listed
    BY <1>0, <1>4, ReadLatestEffect DEF ReadLatest
  <2> QED
    BY <1>a, <2>1 DEF HonestInv, TimeoutIsHonest
<1>5. CASE Decide
  <2>1. /\ waiter.pc = "decide" /\ waiter'.pc \in {"compare", "done"} /\ listed' = listed
        /\ waiter'.result \in {waiter.result, "settled", "failed"}
        /\ waiter'.pc = "compare" => waiter'.result = waiter.result
    BY <1>0, <1>5 DEF Decide, finish_settlement, WaiterType
  <2> QED
    BY <1>a, <2>1 DEF HonestInv, TimeoutIsHonest
<1>6. CASE Compare
  <2>1. /\ waiter.pc = "compare" /\ waiter'.result = waiter.result
        /\ waiter'.settled = waiter.settled /\ listed' = listed
        /\ \/ waiter'.pc = "wait"
           \/ waiter'.pc = "lookup" /\ waiter'.todo = pending_ids(waiter.settled)
    BY <1>0, <1>6 DEF Compare, WaiterType
  <2> QED
    BY <1>a, <2>1 DEF HonestInv, TimeoutIsHonest
<1>7. CASE lookup_trade
  <2>0. waiter.pc = "lookup" /\ listed' = listed
    BY <1>7 DEF lookup_trade
  <2>1. CASE Return("error")
    BY <1>0, <1>a, <2>0, <2>1 DEF HonestInv, TimeoutIsHonest, Return, WaiterType
  <2>2. CASE ~Return("error")
    <3>1. PICK t \in waiter.todo :
             /\ waiter'.todo = waiter.todo \ {t}
             /\ waiter'.pc = IF waiter.todo \ {t} = {} THEN "after" ELSE "lookup"
             /\ waiter'.settled = Keep(waiter.settled, t, visible[t])
             /\ waiter'.result = waiter.result
      BY <1>0, <1>7, <2>2, LookupEffect
    <3>2. t \in Fills
      BY <1>0 DEF WaiterType
    <3>3. /\ pending_ids(waiter'.settled) \subseteq pending_ids(waiter.settled)
          /\ t \in pending_ids(waiter'.settled) => ~has_settlement_details(visible[t])
      BY <1>0, <3>1, <3>2, KeepPending
    <3>4. (pending_ids(waiter'.settled) \ waiter'.todo) \cap listed' = {}
      BY <2>0, <3>1, <3>3 DEF HonestInv
    <3> QED
      BY <1>a, <2>0, <3>1, <3>4 DEF HonestInv, TimeoutIsHonest
  <2> QED
    BY <2>1, <2>2
<1>8. CASE AfterLookups
  <2>0. waiter.pc = "after" /\ listed' = listed
    BY <1>8 DEF AfterLookups
  <2>1. CASE finish_settlement
    <3>1. waiter'.pc = "done" /\ waiter'.result \in {"settled", "failed"}
      BY <1>0, <2>1 DEF finish_settlement, WaiterType
    <3> QED
      BY <1>a, <2>0, <3>1 DEF HonestInv, TimeoutIsHonest
  <2>2. CASE ~finish_settlement
    <3>1. /\ waiter'.settled = waiter.settled
          /\ \/ waiter'.pc = "done"
             \/ waiter'.pc = "wait" /\ waiter'.result = waiter.result
      BY <1>0, <1>8, <2>2 DEF AfterLookups, Return, WaiterType
    <3> QED
      BY <1>a, <2>0, <3>1 DEF HonestInv, TimeoutIsHonest
  <2> QED
    BY <2>1, <2>2
<1>9. CASE Wake
  <2>1. /\ waiter.pc = "wait" /\ waiter'.result = waiter.result
        /\ waiter'.settled = waiter.settled
        /\ \/ waiter'.pc = "version" /\ listed' = listed
           \/ /\ waiter'.pc = "lookup" /\ listed' = ListedFills
              /\ waiter'.todo = pending_ids(waiter.settled)
    BY <1>0, <1>9 DEF Wake, WaiterType
  <2> QED
    BY <1>a, <1>b, <2>1 DEF HonestInv, TimeoutIsHonest
<1> QED
  BY <1>1, <1>2, <1>3, <1>4, <1>5, <1>6, <1>7, <1>8, <1>9 DEF Waiter

\* The timeout invariant is inductive: REST never withdraws a settled row.
LEMMA HonestStep == TypeInv /\ HonestInv /\ [Next]_vars => HonestInv'
<1> SUFFICES ASSUME TypeInv, HonestInv, [Next]_vars PROVE HonestInv'
  OBVIOUS
<1>1. CASE UNCHANGED <<visible, waiter, listed>>
  BY <1>1 DEF HonestInv, TimeoutIsHonest
<1>2. ASSUME NEW t \in Trades, Publish(t) PROVE HonestInv'
  <2>1. \A u \in Trades : has_settlement_details(visible[u]) => visible'[u] = visible[u]
    BY <1>2 DEF Publish, TypeInv, TypeOK
  <2>2. listed \subseteq Trades
    BY FillsAreTrades DEF TypeInv, TypeOK
  <2>3. UNCHANGED <<waiter, listed>>
    BY <1>2 DEF Publish
  <2> QED
    BY <2>1, <2>2, <2>3 DEF HonestInv, TimeoutIsHonest
<1>3. CASE Exchange
  BY <1>1, <1>2, <1>3 DEF Exchange, Advance, Resend, Gap, Resubscribe
<1>4. CASE Call \/ Waiter
  BY <1>4, HonestWaiterStep
<1>5. CASE Deliver \/ mark_recovered \/ Due \/ Late \/ UNCHANGED vars
  BY <1>1, <1>5 DEF Deliver, mark_recovered, Due, Late, Shared, vars, exchange
<1> QED
  BY <1>3, <1>4, <1>5 DEF Next

\* A timeout never names a fill that REST listed as settled when the last wait
\* ended (TimeoutIsHonest): both forms make a last round of lookups after it.
THEOREM TimeoutsAreHonest == Spec => []TimeoutIsHonest
<1>1. Init => TypeInv /\ HonestInv
  <2>1. Init => HonestInv
    BY DEF Init, Idle, HonestInv, TimeoutIsHonest
  <2> QED
    BY <2>1, TypeInit
<1>2. (TypeInv /\ HonestInv) /\ [Next]_vars => (TypeInv /\ HonestInv)'
  BY TypeStep, HonestStep
<1>3. TypeInv /\ HonestInv => TimeoutIsHonest
  BY DEF HonestInv
<1> QED
  BY <1>1, <1>2, <1>3, PTL DEF Spec

-----------------------------------------------------------------------------
(* A settlement is final.                                                  *)

\* What a trade record says of a settled trade is what the exchange decided;
\* a confirmation may only lack its hash.
Truthful(state, trade) ==
    is_settled_trade_status(trade.status) =>
       /\ normalized_trade_status(trade.status) = state.status
       /\ state.status = "CONFIRMED" => trade.hash \in {0, state.tries}

\* The fills a finished call reports hashes of.
KeptFills == {t \in Fills : ~is_failed_trade_status(waiter.settled[t].status)}

\* Every copy of a trade (in flight, in the REST database, in the tracker, in
\* the waiter's list) is truthful, the waiter keeps trades with settlement
\* details only, and a result is computed from a complete list.
FinalInv ==
    /\ \A e \in wire : Truthful(truth[e.id], e.trade)
    /\ \A t \in Trades : Truthful(truth[t], visible[t]) /\ Truthful(truth[t], trades[t])
    /\ \A t \in Fills : waiter.settled[t] # NoTrade =>
          has_settlement_details(waiter.settled[t]) /\ Truthful(truth[t], waiter.settled[t])
    /\ waiter.pc # "done" => waiter.result = "none"
    /\ waiter.result \in {"settled", "failed"} =>
          /\ pending_ids(waiter.settled) = {}
          /\ waiter.hashes = {waiter.settled[t].hash : t \in KeptFills}
          /\ waiter.result = "failed" <=> KeptFills = {}

\* The exchange does not change its mind: a move of a trade keeps every record
\* of a trade truthful.
LEMMA MoveKeepsTruth ==
    ASSUME TypeOK, NEW t \in Trades, Move(t), NEW u \in Trades, NEW trade,
           Truthful(truth[u], trade)
    PROVE  Truthful(truth'[u], trade)
<1>1. truth \in [Trades -> [status : Names, tries : Nat]]
  BY DEF TypeOK
<1>2. truth[u].status \in SettledNames => truth'[u] = truth[u]
  BY <1>1 DEF Move, SettledNames
<1>3. is_settled_trade_status(trade.status) => truth[u].status \in SettledNames
  BY DEF Truthful, is_settled_trade_status
<1> QED
  BY <1>2, <1>3 DEF Truthful

\* An event or a REST row made now agrees with the exchange.
LEMMA NewsIsTruthful ==
    ASSUME NEW state \in [status : Names, tries : Nat], NEW prefix,
           NEW hash \in Hashes(state)
    PROVE  Truthful(state, [status |-> [prefix |-> prefix, name |-> state.status], hash |-> hash])
BY DEF Truthful, Hashes, is_settled_trade_status, normalized_trade_status, SettledNames

\* An absent trade claims nothing.
LEMMA AbsentIsTruthful == \A state : Truthful(state, NoTrade)
BY DEF Truthful, NoTrade, is_settled_trade_status, normalized_trade_status, SettledNames

\* The exchange moves only trades that are not final, so every copy stays truthful.
LEMMA FinalExchangeStep ==
    ASSUME TypeInv, FinalInv, Exchange
    PROVE  FinalInv'
<1>0. /\ truth \in [Trades -> [status : Names, tries : Nat]]
      /\ wire \in SUBSET [id : Trades, trade : Trade]
      /\ visible \in [Trades -> Trade \cup {NoTrade}]
  BY DEF TypeInv, TypeOK
<1>1. UNCHANGED <<trades, waiter>>
  BY DEF Exchange, Advance, Resend, Publish, Gap, Resubscribe, tracker
<1>2. ASSUME NEW t \in Trades, Advance(t) PROVE FinalInv'
  <2>1. Move(t) /\ visible' = visible
    BY <1>2 DEF Advance
  <2>2. truth' \in [Trades -> [status : Names, tries : Nat]]
    BY <2>1, MoveType DEF TypeInv
  <2>3. \A u \in Trades : \A trade : Truthful(truth[u], trade) => Truthful(truth'[u], trade)
    BY <2>1, MoveKeepsTruth DEF TypeInv
  <2>4. PICK hash \in Hashes(truth'[t]) :
           wire' = wire \/ wire' = wire \cup {Event(t, truth'[t].status, hash)}
    BY <1>2 DEF Advance
  <2> DEFINE news == [status |-> [prefix |-> "", name |-> truth'[t].status], hash |-> hash]
  <2>5. Truthful(truth'[t], news)
    BY <2>2, NewsIsTruthful
  <2>6. Event(t, truth'[t].status, hash) = [id |-> t, trade |-> news]
    BY DEF Event
  <2> HIDE DEF news
  <2>7. \A e \in wire' : Truthful(truth'[e.id], e.trade)
    BY <1>0, <2>3, <2>4, <2>5, <2>6 DEF FinalInv
  <2>8. \A u \in Trades : Truthful(truth'[u], visible'[u]) /\ Truthful(truth'[u], trades'[u])
    BY <1>1, <2>1, <2>3 DEF FinalInv
  <2>9. \A u \in Fills : waiter'.settled[u] # NoTrade =>
          has_settlement_details(waiter'.settled[u]) /\ Truthful(truth'[u], waiter'.settled[u])
    BY <1>1, <2>3, FillsAreTrades DEF FinalInv
  <2> QED
    BY <1>1, <2>7, <2>8, <2>9 DEF FinalInv, KeptFills
<1>3. ASSUME NEW t \in Trades, Resend(t) PROVE FinalInv'
  <2>1. truth' = truth /\ visible' = visible
    BY <1>3 DEF Resend
  <2>2. PICK hash \in Hashes(truth[t]) : wire' = wire \cup {Event(t, truth[t].status, hash)}
    BY <1>3 DEF Resend
  <2> DEFINE news == [status |-> [prefix |-> "", name |-> truth[t].status], hash |-> hash]
  <2>3. Truthful(truth[t], news)
    BY <1>0, NewsIsTruthful
  <2>4. Event(t, truth[t].status, hash) = [id |-> t, trade |-> news]
    BY DEF Event
  <2> HIDE DEF news
  <2>5. \A e \in wire' : Truthful(truth'[e.id], e.trade)
    BY <2>1, <2>2, <2>3, <2>4 DEF FinalInv
  <2> QED
    BY <1>1, <2>1, <2>5 DEF FinalInv, KeptFills
<1>4. ASSUME NEW t \in Trades, Publish(t) PROVE FinalInv'
  <2>1. truth' = truth /\ wire' = wire
    BY <1>4 DEF Publish
  <2>2. PICK hash \in Hashes(truth[t]) :
           visible' = [visible EXCEPT ![t] =
             [status |-> [prefix |-> "TRADE_STATUS_", name |-> truth[t].status], hash |-> hash]]
    BY <1>4 DEF Publish
  <2> DEFINE row == [status |-> [prefix |-> "TRADE_STATUS_", name |-> truth[t].status], hash |-> hash]
  <2>3. Truthful(truth[t], row)
    BY <1>0, NewsIsTruthful
  <2>4. visible' = [visible EXCEPT ![t] = row]
    BY <2>2
  <2> HIDE DEF row
  <2>5. \A u \in Trades : Truthful(truth'[u], visible'[u])
    BY <1>0, <2>1, <2>3, <2>4 DEF FinalInv
  <2> QED
    BY <1>1, <2>1, <2>5 DEF FinalInv, KeptFills
<1>5. CASE Gap \/ Resubscribe
  <2>1. truth' = truth /\ visible' = visible /\ wire' \subseteq wire
    BY <1>5 DEF Gap, Resubscribe
  <2> QED
    BY <1>1, <2>1 DEF FinalInv, KeptFills
<1> QED
  BY <1>2, <1>3, <1>4, <1>5 DEF Exchange

\* record copies a truthful event into the tracker or drops it.
LEMMA FinalDeliverStep ==
    ASSUME TypeInv, FinalInv, Deliver
    PROVE  FinalInv'
<1>1. PICK e \in wire : wire' = wire \ {e} /\ record(e.id, e.trade)
  BY DEF Deliver
<1>2. e.id \in Trades /\ Truthful(truth[e.id], e.trade)
  BY DEF TypeInv, TypeOK, FinalInv
<1>3. trades \in [Trades -> Trade \cup {NoTrade}]
  BY DEF TypeInv, TypeOK
<1>a. \/ trades' = trades
      \/ trades' = [trades EXCEPT ![e.id] = e.trade]
      \/ trades' = [trades EXCEPT ![e.id] = e.trade, ![Head(arrival)] = NoTrade]
  BY <1>1 DEF record, Insert
<1> DEFINE head == Head(arrival)
<1> HIDE DEF head
<1>b. \/ trades' = trades
      \/ trades' = [trades EXCEPT ![e.id] = e.trade]
      \/ trades' = [[trades EXCEPT ![e.id] = e.trade] EXCEPT ![head] = NoTrade]
  BY <1>a DEF head
<1>4. \A t \in Trades : trades'[t] \in {trades[t], NoTrade} \/ (t = e.id /\ trades'[t] = e.trade)
  <2> SUFFICES ASSUME NEW t \in Trades
               PROVE  trades'[t] \in {trades[t], NoTrade} \/ (t = e.id /\ trades'[t] = e.trade)
    OBVIOUS
  <2> DEFINE new == [trades EXCEPT ![e.id] = e.trade]
  <2>1. DOMAIN new = Trades /\ new[t] = IF t = e.id THEN e.trade ELSE trades[t]
    BY <1>2, <1>3
  <2> HIDE DEF new
  <2>2. [new EXCEPT ![head] = NoTrade][t] = IF t = head THEN NoTrade ELSE new[t]
    BY <2>1
  <2> QED
    BY <1>b, <2>1, <2>2 DEF new
<1>5. \A t \in Trades : Truthful(truth[t], trades'[t])
  BY <1>2, <1>4, AbsentIsTruthful DEF FinalInv
<1>6. UNCHANGED <<truth, visible, waiter>>
  BY DEF Deliver
<1> QED
  BY <1>1, <1>5, <1>6 DEF FinalInv, KeptFills

\* finish_settlement computes its result from the complete list.
LEMMA FinalFinish ==
    ASSUME TypeInv, FinalInv, finish_settlement, pending_ids(waiter.settled) = {},
           UNCHANGED <<exchange, tracker>>
    PROVE  FinalInv'
<1>0. waiter \in WaiterType
  BY DEF TypeInv, TypeOK, WaiterType
<1> DEFINE hashes == {waiter.settled[t].hash : t \in KeptFills}
           res == IF KeptFills = {} THEN "failed" ELSE "settled"
<1>1. waiter' = [waiter EXCEPT !.pc = "done", !.result = res, !.hashes = hashes]
  BY DEF finish_settlement, KeptFills
<1>2. /\ waiter'.pc = "done" /\ waiter'.settled = waiter.settled
      /\ waiter'.hashes = hashes /\ waiter'.result = res
  BY <1>0, <1>1 DEF WaiterType
<1>3. KeptFills' = KeptFills
  BY <1>2 DEF KeptFills
<1>4. waiter'.hashes = {waiter'.settled[t].hash : t \in KeptFills'}
  BY <1>2, <1>3
<1>5. waiter'.result = "failed" <=> KeptFills' = {}
  BY <1>2, <1>3
<1>6. pending_ids(waiter'.settled) = {}
  BY <1>2
<1>7. \A t \in Fills : waiter'.settled[t] # NoTrade =>
          has_settlement_details(waiter'.settled[t]) /\ Truthful(truth[t], waiter'.settled[t])
  BY <1>2 DEF FinalInv
<1> HIDE DEF hashes, res
<1> QED
  BY <1>2, <1>4, <1>5, <1>6, <1>7 DEF FinalInv, exchange, tracker

\* The waiter keeps what it read from a truthful source.
LEMMA FinalKeep ==
    ASSUME TypeInv, FinalInv, NEW t \in Fills, NEW trade, Truthful(truth[t], trade),
           waiter'.settled = Keep(waiter.settled, t, trade),
           waiter'.result = waiter.result, waiter.pc # "done",
           UNCHANGED <<exchange, tracker>>
    PROVE  FinalInv'
<1>1. waiter.settled \in [Fills -> Trade \cup {NoTrade}]
  BY DEF TypeInv, TypeOK
<1>2. waiter'.result = "none"
  BY DEF FinalInv
<1>3. /\ \A u \in Fills \ {t} : waiter'.settled[u] = waiter.settled[u]
      /\ waiter'.settled[t] = IF has_settlement_details(trade) THEN trade ELSE waiter.settled[t]
  BY <1>1, KeepPending
<1>4. \A u \in Fills : waiter'.settled[u] # NoTrade =>
          has_settlement_details(waiter'.settled[u]) /\ Truthful(truth[u], waiter'.settled[u])
  BY <1>3 DEF FinalInv
<1> QED
  BY <1>2, <1>4 DEF FinalInv, exchange, tracker

\* Steps that leave the list of settled fills alone.
LEMMA FinalSame ==
    ASSUME TypeInv, FinalInv, waiter'.settled = waiter.settled,
           waiter.pc # "done", waiter'.result \notin {"settled", "failed"},
           waiter'.pc # "done" => waiter'.result = "none",
           UNCHANGED <<exchange, tracker>>
    PROVE  FinalInv'
BY DEF FinalInv, exchange, tracker

\* The waiter copies truthful trades, and finish_settlement reports what it copied.
LEMMA FinalWaiterStep ==
    ASSUME TypeInv, FinalInv, Call \/ Waiter
    PROVE  FinalInv'
<1>0. waiter \in WaiterType
  BY DEF TypeInv, TypeOK, WaiterType
<1>a. UNCHANGED <<exchange, tracker>>
  BY WaiterFrame DEF TypeInv
<1>b. waiter.pc # "done" => waiter.result = "none"
  BY DEF FinalInv
<1>1. CASE Call
  BY <1>0, <1>1, <1>a, <1>b, FinalSame DEF Call, Return, WaiterType
<1>2. CASE ReadBaseline
  BY <1>0, <1>2, <1>a, <1>b, FinalSame DEF ReadBaseline, WaiterType
<1>3. CASE ReadVersion
  BY <1>0, <1>3, <1>a, <1>b, FinalSame DEF ReadVersion, WaiterType
<1>4. CASE ReadLatest
  <2>1. PICK t \in waiter.todo :
           /\ waiter'.settled = Keep(waiter.settled, t, trades[t])
           /\ waiter'.result = waiter.result
    BY <1>0, <1>4, ReadLatestEffect
  <2>2. t \in Fills /\ Truthful(truth[t], trades[t])
    BY <1>0, FillsAreTrades DEF WaiterType, FinalInv
  <2>3. waiter.pc # "done"
    BY <1>4 DEF ReadLatest
  <2> QED
    BY <1>a, <2>1, <2>2, <2>3, FinalKeep
<1>5. CASE Decide
  <2>1. CASE pending_ids(waiter.settled) = {}
    BY <1>5, <1>a, <2>1, FinalFinish DEF Decide
  <2>2. CASE pending_ids(waiter.settled) # {}
    BY <1>0, <1>5, <1>a, <1>b, <2>2, FinalSame DEF Decide, WaiterType
  <2> QED
    BY <2>1, <2>2
<1>6. CASE Compare
  BY <1>0, <1>6, <1>a, <1>b, FinalSame DEF Compare, WaiterType
<1>7. CASE lookup_trade
  <2>0. waiter.pc # "done"
    BY <1>7 DEF lookup_trade
  <2>1. CASE Return("error")
    BY <1>0, <1>a, <1>b, <2>0, <2>1, FinalSame DEF Return, WaiterType
  <2>2. CASE ~Return("error")
    <3>1. PICK t \in waiter.todo :
             /\ waiter'.settled = Keep(waiter.settled, t, visible[t])
             /\ waiter'.result = waiter.result
      BY <1>0, <1>7, <2>2, LookupEffect
    <3>2. t \in Fills /\ Truthful(truth[t], visible[t])
      BY <1>0, FillsAreTrades DEF WaiterType, FinalInv
    <3> QED
      BY <1>a, <2>0, <3>1, <3>2, FinalKeep
  <2> QED
    BY <2>1, <2>2
<1>8. CASE AfterLookups
  <2>1. CASE pending_ids(waiter.settled) = {}
    BY <1>8, <1>a, <2>1, FinalFinish DEF AfterLookups
  <2>2. CASE pending_ids(waiter.settled) # {}
    BY <1>0, <1>8, <1>a, <1>b, <2>2, FinalSame DEF AfterLookups, Return, WaiterType
  <2> QED
    BY <2>1, <2>2
<1>9. CASE Wake
  BY <1>0, <1>9, <1>a, <1>b, FinalSame DEF Wake, WaiterType
<1> QED
  BY <1>1, <1>2, <1>3, <1>4, <1>5, <1>6, <1>7, <1>8, <1>9 DEF Waiter

\* The settlement invariant is inductive.
LEMMA FinalStep == TypeInv /\ FinalInv /\ [Next]_vars => FinalInv'
<1> SUFFICES ASSUME TypeInv, FinalInv, [Next]_vars PROVE FinalInv'
  OBVIOUS
<1>1. CASE UNCHANGED <<truth, visible, wire, trades, waiter>>
  BY <1>1 DEF FinalInv, KeptFills
<1>2. CASE mark_recovered \/ Due \/ Late \/ UNCHANGED vars
  BY <1>1, <1>2 DEF mark_recovered, Due, Late, Shared, vars, exchange, tracker
<1> QED
  BY <1>2, FinalExchangeStep, FinalDeliverStep, FinalWaiterStep DEF Next

\* A complete and truthful list gives a final settlement.
LEMMA FinalImplies ==
    ASSUME TypeInv, FinalInv
    PROVE  SettlementFinal
<1> SUFFICES ASSUME waiter.result \in {"settled", "failed"} PROVE SettlementFinal
  BY DEF SettlementFinal
<1>1. /\ waiter.hashes = {waiter.settled[t].hash : t \in KeptFills}
      /\ waiter.result = "failed" <=> KeptFills = {}
  BY DEF FinalInv
<1>2. \A t \in Fills : has_settlement_details(waiter.settled[t]) /\ Truthful(truth[t], waiter.settled[t])
  BY DEF FinalInv, pending_ids
<1>3. ASSUME NEW t \in Fills
      PROVE  /\ Agrees(t, waiter.settled[t]) /\ truth[t].status \in SettledNames
             /\ t \in KeptFills <=> truth[t].status = "CONFIRMED"
             /\ truth[t].status = "CONFIRMED" =>
                   waiter.settled[t].hash = truth[t].tries /\ truth[t].tries # 0
  BY <1>2 DEF has_settlement_details, Truthful, Agrees, KeptFills, SettledNames,
              is_settled_trade_status, is_failed_trade_status, normalized_trade_status
<1>4. KeptFills = {u \in Fills : truth[u].status = "CONFIRMED"}
  BY <1>3 DEF KeptFills
<1>5. waiter.hashes = {truth[t].tries : t \in {u \in Fills : truth[u].status = "CONFIRMED"}}
  BY <1>1, <1>3, <1>4
<1>6. 0 \notin waiter.hashes
  BY <1>3, <1>5
<1>7. waiter.result = "settled" => waiter.hashes # {}
  BY <1>1
<1>8. waiter.result = "failed" => \A t \in Fills : truth[t].status = "FAILED"
  BY <1>1, <1>3 DEF SettledNames
<1> QED
  BY <1>3, <1>5, <1>6, <1>7, <1>8 DEF SettlementFinal

\* A settlement the call returns is final (SettlementFinal,
\* clob_order_settlement.cpp:75-96): for every order, whichever of the stream
\* and REST supplied each fill, and in whatever order news arrived or was lost.
THEOREM SettlementsAreFinal == Spec => []SettlementFinal
<1>1. Init => TypeInv /\ FinalInv
  <2>1. ASSUME Init PROVE FinalInv
    BY <2>1, AbsentIsTruthful DEF Init, Idle, NoFillSettled, FinalInv
  <2> QED
    BY <2>1, TypeInit
<1>2. (TypeInv /\ FinalInv) /\ [Next]_vars => (TypeInv /\ FinalInv)'
  BY TypeStep, FinalStep
<1>3. TypeInv /\ FinalInv => SettlementFinal
  BY FinalImplies
<1> QED
  BY <1>1, <1>2, <1>3, PTL DEF Spec
================================================================================
