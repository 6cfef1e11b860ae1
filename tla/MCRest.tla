------------------------------- MODULE MCRest -------------------------------
(***************************************************************************)
(* RestComponents for TLC, and beside it the pure parts, where one step    *)
(* computes one call: order arithmetic, market times and the EVM codec.    *)
(***************************************************************************)
EXTENDS RestComponents, MCExact

MCThreads == {"r", "s"}

(* Histories of the stateful components. *)
MCSlots == [a |-> {"a1", "a2"}, b |-> {"b1"}]
MCGlobalBudgets == {[calls |-> 6, faults |-> 1], [calls |-> 4, faults |-> 2]}
MCConnBudgets == {[calls |-> 4]}
OrderBudget(tasks, calls, updates, faults) ==
    [tasks |-> tasks, calls |-> calls, updates |-> updates, faults |-> faults]
MCOrderBudgets ==
    {OrderBudget({"limit", "tick"}, 2, 1, 1), OrderBudget({"limit", "clear"}, 2, 1, 0),
     OrderBudget({"market"}, 1, 1, 1), OrderBudget({"market", "tick"}, 2, 0, 0),
     OrderBudget({"requested", "book"}, 2, 1, 0), OrderBudget({"estimate", "neg"}, 2, 0, 1),
     OrderBudget({"tick", "clear", "book"}, 2, 1, 1)}
MCPageBudgets == {[calls |-> 2, faults |-> 1], [calls |-> 1, faults |-> 2]}
MCPolicies == {[retries |-> 1, max_delay |-> 2]}
MCCallBudgets == {[calls |-> 1, updates |-> 1, limits |-> 2, faults |-> 0],
                [calls |-> 1, updates |-> 0, limits |-> 0, faults |-> 1]}
MCFileBudgets == {[calls |-> 2, faults |-> 1, crashes |-> 1, processes |-> 1],
                [calls |-> 2, faults |-> 0, crashes |-> 0, processes |-> 2]}
TxBudget(wallet, tasks, calls, faults, closed, listed) ==
    [wallet |-> wallet, tasks |-> tasks, calls |-> calls, faults |-> faults,
     closed |-> closed, listed |-> listed]
MCTxBudgets ==
    {TxBudget("eoa", {"setup"}, 2, 1, {}, 0), TxBudget("eoa", {"setup", "revoke"}, 2, 0, {}, 0),
     TxBudget("safe", {"setup"}, 2, 0, {}, 0), TxBudget("safe", {"approve"}, 1, 2, {}, 0),
     TxBudget("eoa", {"merge"}, 2, 0, {}, 1), TxBudget("eoa", {"merges"}, 1, 1, {}, 0),
     TxBudget("safe", {"merges"}, 1, 1, {}, 0), TxBudget("eoa", {"redeem"}, 2, 0, {"a", "b"}, 0),
     TxBudget("safe", {"redeem"}, 1, 2, {"a", "b"}, 0),
     TxBudget("eoa", {"transfer", "split"}, 1, 1, {}, 0)}
MCOracleBudgets == {[events |-> 6]}
MCFetchBudgets == {[faults |-> 1]}
MCArbBudgets == {[fetches |-> 3, faults |-> 1]}
MCTunnelBudgets == {[bytes |-> 4, connections |-> 1, faults |-> 1],
                  [bytes |-> 2, connections |-> 2, faults |-> 2]}

(* One question's life and a condition, pages that fail in the middle, and what the
   fetches of the example find. *)
OracleLog(at, key, kind, price) == [at |-> at, key |-> key, kind |-> kind, price |-> price]
MCLogs ==
    {OracleLog(1, "q", "initialized", ""), OracleLog(2, "q", "resolved", "yes"),
     OracleLog(3, "q", "reset", ""), OracleLog(4, "q", "manual", "no"),
     OracleLog(5, "q", "paused", ""), OracleLog(3, "c", "condition", "")}

Answer(answer, items) == [answer |-> answer, items |-> items]
MCWalks ==
    [limit : {1, 3}, only : BOOLEAN,
     pages : {<<>>, <<Answer("ok", <<1, 2>>), Answer("ok", <<>>), Answer("ok", <<4, 6>>)>>,
              <<Answer("ok", <<2>>), Answer("error", <<>>), Answer("ok", <<4>>)>>,
              <<Answer("ok", <<1, 2, 3>>), Answer("garbled", <<4>>), Answer("ok", <<6>>)>>,
              <<Answer("cursorless", <<2, 3, 4>>), Answer("ok", <<6>>)>>}]

Market(id, symbol, ends) == [id |-> id, symbol |-> symbol, ends |-> ends]
Listing(quarter, hour, negative) ==
    [x \in {"15m", "1h", "4h", "neg-risk"} |->
        CASE x = "15m" -> quarter [] x = "1h" -> hour [] x = "4h" -> <<>> [] OTHER -> negative]
MCListings ==
    {Listing(<<>>, <<>>, <<>>),
     Listing(<<Market(1, "btc", 3), Market(2, "btc", 6)>>,
             <<Market(2, "btc", 6), Market(3, "btc", 6)>>, <<Market(5, "unknown", 4)>>),
     Listing(<<Market(3, "btc", 6)>>, <<Market(1, "btc", 3), Market(4, "btc", 9)>>,
             <<Market(5, "unknown", 4), Market(6, "unknown", 8)>>)}
MCArguments == {{}, {"15m", "1h"}, {"1h", "neg-risk"}, {"neg-risk"}, {"fetch-only"}, {"help"}}

VARIABLES
    a_input, a_output,
    m_asked, m_told,
    e_coding, e_coded

a_vars == <<a_input, a_output>>
m_vars == <<m_asked, m_told>>
e_vars == <<e_coding, e_coded>>

Amounts == INSTANCE OrderAmounts WITH Scale <- 1000, SizeStep <- 100, Fine <- 1000,
    UMax <- 4095, Inputs <- MCAmounts, input <- a_input, output <- a_output
Times == INSTANCE MarketTime WITH Times <- MCTimes, asked <- m_asked, told <- m_told
Codec == INSTANCE EvmCodec WITH WordSize <- 2, AddressSize <- 1, HostMax <- 1023,
    Codings <- MCCodings, coding <- e_coding, coded <- e_coded

Pure == which \in {"amounts", "times", "codec"} /\ budget = Blank

MCInit ==
    /\ Select \/ Pure
    /\ InitComponents
    /\ IF which = "amounts" THEN Amounts!InitState ELSE a_input = Blank /\ a_output = Amounts!None
    /\ IF which = "times" THEN Times!InitState ELSE m_asked = Blank /\ m_told = Times!Nothing
    /\ IF which = "codec" THEN Codec!InitState ELSE e_coding = Blank /\ e_coded = <<>>

MCNext ==
    \/ Next /\ UNCHANGED <<a_vars, m_vars, e_vars>>
    \/ which = "amounts" /\ Amounts!Next /\ UNCHANGED <<allVars, m_vars, e_vars>>
    \/ which = "times" /\ Times!Next /\ UNCHANGED <<allVars, a_vars, e_vars>>
    \/ which = "codec" /\ Codec!Next /\ UNCHANGED <<allVars, a_vars, m_vars>>

MCSpec == MCInit /\ [][MCNext]_<<allVars, a_vars, m_vars, e_vars>> /\ Fairness

-----------------------------------------------------------------------------
(* Orders and time: what is signed, what a fill is predicted to cost and how a plan is
   sized is exact, for every price on the grid, although the code keeps scaled 64-bit
   integers; dates, the New York hours across both changes of the clock, windows and ISO
   timestamps are those of the calendar. *)
ArithmeticExact ==
    /\ which = "amounts" => Amounts!OrderArithmeticExact
    /\ which = "times" => Times!MarketTimeExact

(* ABI, RLP and 256-bit integers read back as what was encoded; nothing else is accepted. *)
CodecExact == which = "codec" => Codec!CodecExact
=============================================================================
