------------------------------- MODULE MCExact -------------------------------
(***************************************************************************)
(* The inputs of the pure parts: calls at their edges.                     *)
(***************************************************************************)
EXTENDS Integers, Sequences, FiniteSets, SequencesExt

Blank == [kind |-> "none"]    \* the input of a part left alone

-----------------------------------------------------------------------------
(* Orders off and on the grid, zero and too wide; books out of order and with empty, tiny
   and overflowing levels; plans on both sides of the edge. *)
Markets == {[scale |-> 10, tick |-> 1], [scale |-> 100, tick |-> 5], [scale |-> 100, tick |-> 25]}
Level(price, size) == [price |-> price, size |-> size]
MCBooks ==
    {<<>>, <<Level(500, 197), Level(300, 5)>>, <<Level(300, 7)>>,
     <<Level(300, 333), Level(700, 155)>>, <<Level(700, 155), Level(300, 333)>>,
     <<Level(500, 0), Level(300, 113), Level(900, 1117)>>,
     <<Level(900, 113), Level(700, 117), Level(300, 119)>>,
     <<Level(200, 3001), Level(900, 4000), Level(800, 4090)>>,
     <<Level(350, 600), Level(400, 100)>>}
MCAmounts ==
    [kind : {"limit", "rounded", "market"}, side : {"BUY", "SELL"}, market : Markets,
     amount : {0, 40, 99, 100, 250, 777, 1000, 4100},
     price : {0, 5, 50, 100, 150, 250, 350, 500, 650, 950, 1000}]
    \cup [kind : {"depth"}, side : {"BUY", "SELL"}, market : Markets, book : MCBooks,
          amount : {0, 100, 130, 199, 300, 700, 2400, 4000}]
    \cup [kind : {"price"}, side : {"BUY", "SELL"}, market : {[scale |-> 10, tick |-> 1]},
          book : MCBooks, amount : {100, 300, 2400}, type : {"FOK", "FAK"}]
    \cup [kind : {"arb"}, yes : {20, 48}, no : {30, 51}, slippage : {0, 3}, tick : {1, 5},
          rate : {0, 7}, exponent : {0, 1}, max : {100000, 333333}, minimum : {0, 500},
          available : {700, 2000}]

-----------------------------------------------------------------------------
(* Dates, the hours around both changes of the clock, windows and ISO times. *)
LOCAL Calendar == INSTANCE MarketTime WITH Times <- {}, asked <- Blank, told <- <<>>
MCTimes ==
    [kind : {"day"}, year : {1970, 1999, 2000, 2024, 2025, 2100}, month : 1..12, day : {1, 28}]
    \cup {[kind |-> "hours", year |-> y, count |-> 3,
           now |-> 24 * Calendar!DaysFromCivil(y, d[1], d[2]) + h] :
             y \in {2025, 2026, 2027}, h \in 4..8, d \in ({3} \X (7..15)) \cup ({11} \X (1..8))}
    \cup [kind : {"window"}, now : {0, 899, 900, 14399, 14400, 20000},
          interval : {900, 14400}, count : {3}]
    \cup [kind : {"iso"}, year : {1969, 2023, 2024}, month : {0, 2, 12, 13},
          day : {0, 1, 28, 29, 31}, hour : {0, 23, 24},
          fraction : {<<>>, <<5>>, <<0, 7>>, <<1, 2, 3, 9>>}]

-----------------------------------------------------------------------------
(* Nested ABI values, digits and words around every width, arrays with offsets and lengths
   that point anywhere, the events of the contracts, and transactions. *)
LOCAL Abi == INSTANCE EvmCodec WITH WordSize <- 2, AddressSize <- 1, HostMax <- 1023,
    Codings <- {}, coding <- Blank, coded <- <<>>
W(n) == Abi!Uint256Word(n)
Words(ns) == [i \in DOMAIN ns |-> W(ns[i])]
Word(n) == [kind |-> "word", data |-> W(n)]
Arr(s) == [kind |-> "array", children |-> s]
Tup(s) == [kind |-> "tuple", children |-> s]
Byt(s) == [kind |-> "bytes", data |-> s]
AbiValues ==
    {Word(513), Byt(<<>>), Byt(<<7>>), Byt(<<1, 2, 3>>), Arr(<<>>), Arr(<<Word(3), Word(4)>>),
     Tup(<<Word(1), Word(2)>>), Tup(<<Word(5), Byt(<<9, 9>>)>>),
     Arr(<<Tup(<<Word(6), Byt(<<8>>)>>), Tup(<<Word(7), Byt(<<>>)>>)>>),
     Tup(<<Tup(<<Word(1), Word(2)>>), Arr(<<Byt(<<4>>)>>)>>)}
Texts ==
    [kind : {"text"}, hex : BOOLEAN, size : {1, 2},
     digits : {<<>>, <<0>>, <<7>>, <<2, 5, 5>>, <<2, 5, 6>>, <<0, 0, 0, 0, 0, 0, 9>>,
               <<6, 5, 5, 3, 5>>, <<6, 5, 5, 3, 6>>, <<9, 9, 9, 9>>, <<9, 9, 9, 9, 9>>}]
Edges == {0, 1, 9, 10, 15, 16, 255, 256, 1022, 1023, 1024, 32767, 32768, 32769, 65280, 65535}
Three(a) == Arr([i \in DOMAIN a |-> Word(a[i])])
Event(question, condition, price, amount, a) ==
    Abi!Ok([question |-> question, condition |-> condition, price |-> price,
            amount |-> amount, array |-> Words(a)])
Log(kind, topics, values, says) ==
    [kind |-> "log", says |-> says,
     log |-> [kind |-> kind, topics |-> <<<<>>>> \o Words(topics), data |-> Abi!AppendSequence(values)]]
EventLogs(a) ==
    {Log("resolved", <<3, 65535>>, <<Three(a)>>, Event(W(3), <<>>, W(65535), <<>>, a)),
     Log("manual", <<3>>, <<Three(a)>>, Event(W(3), <<>>, <<>>, <<>>, a)),
     Log("condition", <<4, 5, 3>>, <<Word(2), Three(a)>>, Event(W(3), W(4), <<>>, W(2), a)),
     Log("redemption", <<5, 6, 0>>, <<Word(4), Three(a), Word(77)>>, Event(<<>>, W(4), <<>>, W(77), a)),
     Log("initialized", <<3, 9, 5>>, <<Byt(<<1, 2, 3>>), Word(6), Word(10), Word(20)>>,
         Event(W(3), <<>>, <<>>, W(20), <<>>)),
     Log("condition", <<4, 4096, 3>>, <<Word(2), Three(a)>>, Abi!NotOk),
     Log("unknown", <<3>>, <<>>, Event(<<>>, <<>>, <<>>, <<>>, <<>>)),
     Log("paused", <<3>>, <<>>, Event(W(3), <<>>, <<>>, <<>>, <<>>))}
Blob(n, byte) == [i \in 1..n |-> byte]
Transactions ==
    [kind : {"transaction"}, chain : {0, 1, 137, 493, 494}, recovery : {0, 1},
     nonce : {W(0), W(5), W(256)}, gas_price : {W(9)}, gas_limit : {W(512)}, to : {<<0>>, <<200>>},
     value : {W(0), W(128)}, r : {<<0, 17>>}, s : {<<255, 0>>},
     data : {<<>>, <<127>>, <<128>>, Blob(55, 1), Blob(56, 0), Blob(256, 200)}]
MCCodings ==
    {[kind |-> "values", values |-> v] : v \in SeqOf(AbiValues, 2)}
    \cup Texts \cup {[kind |-> "word", word |-> W(n)] : n \in Edges}
    \cup {[kind |-> "array", words |-> Words(s), index |-> x, heads |-> h] :
            s \in SeqOf({0, 1, 2, 4, 1024}, 4), x \in {0, 1}, h \in {1, 2}}
    \cup UNION {EventLogs(a) : a \in {<<>>, <<1, 0>>, <<0, 1, 1023>>}}
    \cup Transactions
=============================================================================
