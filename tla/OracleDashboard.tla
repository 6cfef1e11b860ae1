--------------------------- MODULE OracleDashboard ---------------------------
(***************************************************************************)
(* OracleResolutionDashboard: the resolution state of a question, rebuilt  *)
(* from the events of its key in the order of the chain, however they      *)
(* arrive: late, twice, and withdrawn by a reorganisation.                 *)
(*                                                                         *)
(* A log is [at, key, kind, price]: `at' is its place in the canonical     *)
(* order (block, transaction, log index and, for a log that a              *)
(* reorganisation has moved, the hashes), which no two logs share.         *)
(***************************************************************************)
EXTENDS Integers, Sequences, FiniteSetsExt

CONSTANTS
    Logs,       \* the logs the indexer may deliver
    Retained,   \* retained_history_events_per_key
    Budgets     \* [events]: deliveries that may still happen

VARIABLES
    states,     \* key |-> states_[key], or None
    histories,  \* key |-> the retained logs in canonical order
    bases,      \* key |-> compacted_states_[key]
    through,    \* key |-> the place of compacted_through_[key], 0 for none
    live,       \* history: the logs whose last delivery was not a removal
    late,       \* history: the keys with a delivery the compaction made unusable
    budget

vars == <<states, histories, bases, through, live, late, budget>>

Keys == {log.key : log \in Logs}
None == [seen |-> 0, phase |-> "unknown", price |-> "", last |-> "", timeline |-> <<>>]

InitState ==
    /\ states = [k \in Keys |-> None] /\ histories = [k \in Keys |-> <<>>]
    /\ bases = [k \in Keys |-> None] /\ through = [k \in Keys |-> 0]
    /\ live = {} /\ late = {}
Init == InitState /\ budget \in Budgets

CanonicalBefore(left, right) == left < right

(* same_log: the block's hash, the transaction's and the log index. *)
SameLog(left, right) == left.at = right.at

(* next_phase; proposals and disputes have no event of their own. *)
NextPhase(kind, phase) ==
    CASE kind \in {"initialized", "flagged", "reset"} -> "pending"
      [] kind \in {"resolved", "condition"} -> "resolved"
      [] kind = "manual" -> "manual"
      [] OTHER -> phase

AppendEvent(state, log) ==
    LET phase == NextPhase(log.kind, state.phase) IN
    [seen |-> state.seen + 1, phase |-> phase, last |-> log.kind,
     price |-> IF log.price = "" THEN state.price ELSE log.price,
     timeline |-> Append(state.timeline, <<phase, log.at>>)]

(* How many logs precede the place lower_bound finds. *)
LowerBound(history, log) ==
    Cardinality({i \in DOMAIN history : CanonicalBefore(history[i].at, log.at)})

Insert(history, log) ==
    LET before == LowerBound(history, log)
    IN SubSeq(history, 1, before) \o <<log>> \o SubSeq(history, before + 1, Len(history))

Erase(history, i) == SubSeq(history, 1, i - 1) \o SubSeq(history, i + 1, Len(history))

(* rebuild_state: the base, then every retained log. *)
RebuildState(base, history) ==
    LET after[n \in 0..Len(history)] ==
            IF n = 0 THEN base ELSE AppendEvent(after[n - 1], history[n])
    IN after[Len(history)]

(* compact_history: the oldest logs move into the base, whose timeline is dropped. *)
CompactHistory(history, base, mark) ==
    LET over == IF Len(history) > Retained THEN Len(history) - Retained ELSE 0
        moved == SubSeq(history, 1, over)
    IN IF over = 0 THEN [history |-> history, base |-> base, mark |-> mark]
       ELSE [history |-> SubSeq(history, over + 1, Len(history)),
             base |-> [RebuildState(base, moved) EXCEPT !.timeline = <<>>],
             mark |-> moved[over].at]

Stores(key, history, base, mark) ==
    /\ histories' = [histories EXCEPT ![key] = history]
    /\ bases' = [bases EXCEPT ![key] = base]
    /\ through' = [through EXCEPT ![key] = mark]
    /\ states' = [states EXCEPT ![key] = RebuildState(base, history)]

(* A log that is not after the compacted boundary. *)
BeforeBoundary(log) ==
    through[log.key] > 0 /\ ~CanonicalBefore(through[log.key], log.at)

Places(log) == {i \in DOMAIN histories[log.key] : SameLog(histories[log.key][i], log)}
Known(log) == Places(log) # {}

(* ingest_event of a removed log. *)
Removed(log) ==
    LET key == log.key IN
    /\ budget.events > 0 /\ budget' = [budget EXCEPT !.events = @ - 1]
    /\ live' = live \ {log}
    /\ IF Known(log)
       THEN /\ Stores(key, Erase(histories[key], Min(Places(log))), bases[key], through[key])
            /\ UNCHANGED late
       ELSE /\ late' = IF log \in live THEN late \cup {key} ELSE late
            /\ UNCHANGED <<states, histories, bases, through>>

(* ingest_event of any other: a replay and a log from before the boundary are ignored. *)
Ingest(log) ==
    LET key == log.key
        kept == CompactHistory(Insert(histories[key], log), bases[key], through[key])
    IN /\ budget.events > 0 /\ budget' = [budget EXCEPT !.events = @ - 1]
       /\ live' = live \cup {log}
       /\ IF Known(log) \/ BeforeBoundary(log)
          THEN /\ late' = IF log \in live THEN late ELSE late \cup {key}
               /\ UNCHANGED <<states, histories, bases, through>>
          ELSE Stores(key, kept.history, kept.base, kept.mark) /\ UNCHANGED late

Next == \E log \in Logs : Ingest(log) \/ Removed(log)
Spec == Init /\ [][Next]_vars

-----------------------------------------------------------------------------
(* The i-th of a set of logs has i - 1 before it. *)
Nth(logs, i) == CHOOSE log \in logs : Cardinality({l \in logs : l.at < log.at}) = i - 1
InOrder(logs) == [i \in 1..Cardinality(logs) |-> Nth(logs, i)]
Canonical(k) == InOrder({log \in live : log.key = k})
Newest(s, n) == SubSeq(s, IF Len(s) > n THEN Len(s) - n + 1 ELSE 1, Len(s))

(* The state of a key is the fold, in the order of the chain, of the logs that were
   delivered and not withdrawn, whatever order they came in and however often: each is
   counted once, a replay of a compacted log is not, and the timeline is the newest of
   them.  Only a new log or a removal from before the compacted boundary breaks this. *)
ArrivalOrderIrrelevant ==
    \A k \in Keys :
        LET fold == RebuildState(None, Canonical(k)) IN
        /\ k \notin late =>
             /\ [states[k] EXCEPT !.timeline = <<>>] = [fold EXCEPT !.timeline = <<>>]
             /\ states[k].timeline = Newest(fold.timeline, Len(states[k].timeline))
        /\ Len(states[k].timeline) = Len(histories[k])
        /\ Len(histories[k]) <= Retained
=============================================================================
