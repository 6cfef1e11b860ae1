------------------------- MODULE PositionTransactions -------------------------
(***************************************************************************)
(* PositionClient: the calls an operation needs are worked out from Gamma  *)
(* and the chain, sent from an EOA one by one or from a Safe through the   *)
(* relayer, and waited for.  Several threads use one client.               *)
(*                                                                         *)
(* A transaction is its calls and its nonce; `hash' is 0 while it has none.*)
(* An amount is a small number, All is "max", and a condition id is its    *)
(* market and its form: 31 bytes (0), or 32 with an outcome byte (1, 2).   *)
(***************************************************************************)
EXTENDS Integers, Sequences, FiniteSets, SequencesExt

CONSTANTS
    Threads,   \* callers of the client
    MaxTries,  \* relayer_max_submit_retries
    Budgets    \* bounds, and the world of a behaviour: wallet, tasks, closed, listed

VARIABLES
    chain,     \* what the contracts hold: outcome tokens and approvals
    txs,       \* the transactions a node or the relayer has accepted
    lock,      \* send_mutex
    op,        \* thread |-> its operation
    budget     \* events of each kind that may still happen

vars == <<chain, txs, lock, op, budget>>

All == 99
Free == "free"
Protocol == [a |-> "ctf", b |-> "v2"]
Spenders == <<"adapter", "router">>
Idle == [task |-> "none", step |-> "idle", todo |-> <<>>, calls |-> <<>>, seen |-> {},
         sent |-> <<>>, nonce |-> 0, tries |-> 0, id |-> 0, late |-> FALSE,
         result |-> "none", names |-> 0, run |-> 0]

InitState ==
    /\ chain = [held |-> [a |-> <<1, 2>>, b |-> <<2, 1>>], approved |-> {}]
    /\ txs = <<>> /\ lock = Free /\ op = [t \in Threads |-> Idle]
Init == InitState /\ budget \in Budgets

Spend(kind) == budget[kind] > 0 /\ budget' = [budget EXCEPT ![kind] = @ - 1]
Least(pair) == IF pair[1] < pair[2] THEN pair[1] ELSE pair[2]
Eoa == budget.wallet = "eoa"
Goes(t, o) == op' = [op EXCEPT ![t] = o]

-----------------------------------------------------------------------------
(* The chain (external). *)
Does(call, c) ==
    CASE call.kind = "split" -> [c EXCEPT !.held[call.m] = <<@[1] + call.n, @[2] + call.n>>]
      [] call.kind = "merge" -> [c EXCEPT !.held[call.m] = <<@[1] - call.n, @[2] - call.n>>]
      [] call.kind = "redeem" -> [c EXCEPT !.held[call.m] = <<0, 0>>]
      [] call.kind = "outcome" -> [c EXCEPT !.held[call.m][call.o] = @ - call.n]
      [] call.kind = "approve" -> [c EXCEPT !.approved = @ \cup {call.m}]
      [] call.kind = "revoke" -> [c EXCEPT !.approved = @ \ {call.m}]
      [] call.kind = "transfer" -> c
Reverts(call, c) ==
    CASE call.kind = "split" -> Spenders[IF Protocol[call.m] = "v2" THEN 2 ELSE 1] \notin c.approved
      [] call.kind = "merge" -> call.n > Least(c.held[call.m])
      [] call.kind = "outcome" -> call.n > c.held[call.m][call.o]
      [] OTHER -> FALSE
Execute(calls, c) ==
    FoldLeft(LAMBDA s, call : IF s.failed \/ Reverts(call, s.c) THEN [s EXCEPT !.failed = TRUE]
                              ELSE [s EXCEPT !.c = Does(call, @)],
             [failed |-> FALSE, c |-> c], calls)

Accept(t, calls, nonce, hash) ==
    txs' = Append(txs, [by |-> t, run |-> op[t].run, at |-> Len(op[t].sent) + 1, calls |-> calls,
                        nonce |-> nonce, hash |-> hash, state |-> "pending"])

(* The pending transaction with the lowest nonce is mined. *)
Mine(i) ==
    LET done == Execute(txs[i].calls, chain) IN
    /\ txs[i].state = "pending" /\ txs[i].hash # 0
    /\ \A j \in DOMAIN txs : txs[j].state = "pending" => txs[i].nonce <= txs[j].nonce
    /\ txs' = [txs EXCEPT ![i].state = IF done.failed THEN "reverted" ELSE "ok"]
    /\ chain' = IF done.failed THEN chain ELSE done.c
    /\ UNCHANGED <<lock, op, budget>>

(* The relayer gives a submission a hash, replaces it by another one, or gives up. *)
Relays(i) ==
    /\ ~Eoa /\ txs[i].state = "pending"
    /\ \/ txs[i].hash = 0 /\ txs' = [txs EXCEPT ![i].hash = 10 * i] /\ UNCHANGED budget
       \/ txs[i].hash # 0 /\ Spend("faults") /\ txs' = [txs EXCEPT ![i].hash = @ + 1]
       \/ Spend("faults") /\ txs' = [txs EXCEPT ![i].state = "failed"]
    /\ UNCHANGED <<chain, lock, op>>

-----------------------------------------------------------------------------
(* The calls of an operation. *)
Request(m, form, n) == [m |-> m, form |-> form, n |-> n]

(* The contract call of a split, a merge or a redemption: the adapter's for a CTF market,
   the router's for a Protocol V2 one. *)
Call(kind, m, n) == [kind |-> kind, m |-> m, n |-> n, o |-> 0]

(* An ERC-20 or ERC-1155 approval, its withdrawal, or a transfer. *)
TokenCall(kind, spender) == [kind |-> kind, m |-> spender, n |-> 1, o |-> 0]

Invalid == [ok |-> FALSE]
Positive(n) == n > 0

(* Two ids name one condition: equal, or one of 31 bytes and the other with an outcome. *)
SameCondition(listed, form) == listed = form \/ (listed = 0) # (form = 0)

(* market_context_from_gamma: a Protocol V2 condition may be listed in either form. *)
Context(c) ==
    LET listed == IF Protocol[c.m] = "ctf" THEN 1 ELSE budget.listed IN
    IF SameCondition(listed, c.form) /\ ~(Protocol[c.m] = "ctf" /\ c.form = 0)
    THEN [ok |-> TRUE, id |-> <<c.m, listed>>] ELSE Invalid

(* resolve_market: Gamma lists the closed markets only when asked for them. *)
ResolveMarket(c, closed) == IF (c.m \in budget.closed) = closed THEN Context(c) ELSE Invalid

(* position_balances: both outcomes in one balanceOfBatch. *)
Balances(m) == chain.held[m]

(* resolve_merge_amount *)
MergeAmount(held, n) ==
    IF Least(held) = 0 \/ ~Positive(n) THEN Invalid
    ELSE IF n = All THEN [ok |-> TRUE, n |-> Least(held)]
    ELSE IF n > Least(held) THEN Invalid ELSE [ok |-> TRUE, n |-> n]

(* redeem_positions: one call, or one per outcome that is held. *)
RedeemCalls(m, held) ==
    IF Protocol[m] = "ctf" THEN <<Call("redeem", m, 0)>>
    ELSE LET outcome(o) == IF Positive(held[o])
                           THEN <<[Call("outcome", m, held[o]) EXCEPT !.o = o]>> ELSE <<>>
         IN outcome(1) \o outcome(2)

(* One approval as the chain has it, and the call for it if it is missing. *)
Approved(spender) == spender \in chain.approved
Approvals(spender) ==
    [ok |-> TRUE, id |-> spender,
     calls |-> IF Approved(spender) THEN <<>> ELSE <<TokenCall("approve", spender)>>]

(* What one market adds: split_position, merge_positions, redeem_positions. *)
Adds(task, r, seen) ==
    LET ctx == ResolveMarket(r, task = "redeem")
        merge == MergeAmount(Balances(r.m), r.n)
        add(calls) == [ok |-> TRUE, id |-> ctx.id, calls |-> calls]
    IN IF ~ctx.ok THEN Invalid
       ELSE IF ctx.id \in seen THEN Invalid
       ELSE CASE task = "split" ->
                   IF Positive(r.n) THEN add(<<Call("split", r.m, r.n)>>) ELSE Invalid
              [] task \in {"merge", "merges"} ->
                   IF merge.ok THEN add(<<Call("merge", r.m, merge.n)>>) ELSE Invalid
              [] task = "redeem" ->
                   IF Balances(r.m) = <<0, 0>> THEN Invalid
                   ELSE add(RedeemCalls(r.m, Balances(r.m)))
Item(task, r, seen) == IF task = "setup" THEN Approvals(r) ELSE Adds(task, r, seen)

Ids == {Request("a", 1, 0), Request("b", 0, 0), Request("b", 1, 0)}
With(n) == {[r EXCEPT !.n = n] : r \in Ids}
Orders(task) ==
    CASE task = "split" -> {<<r>> : r \in With(0) \cup With(1)}
      [] task = "merge" -> {<<r>> : r \in With(1) \cup With(2) \cup With(All)}
      [] task = "merges" -> {<<q, r>> : q, r \in With(All)}
      [] task = "redeem" -> {<<r>> : r \in Ids}
      [] task = "setup" -> {Spenders}
      [] OTHER -> {<<>>}
Direct(task) ==
    CASE task = "approve" -> <<TokenCall("approve", "adapter")>>
      [] task = "revoke" -> <<TokenCall("revoke", "adapter")>>
      [] task = "transfer" -> <<TokenCall("transfer", "adapter")>>
      [] OTHER -> <<>>

-----------------------------------------------------------------------------
(* A public operation up to its first read; merge_multiple_positions rejects equal ids
   here. *)
Begin(t, task, todo) ==
    /\ op[t].step = "idle" /\ task \in budget.tasks /\ Spend("calls")
    /\ task = "merges" => IsInjective(todo)
    /\ Goes(t, [Idle EXCEPT !.task = task, !.step = "resolve", !.todo = todo,
                            !.calls = Direct(task), !.run = op[t].run + 1])
    /\ UNCHANGED <<chain, txs, lock>>

Ends(o, result, hash) == [o EXCEPT !.step = "idle", !.result = result, !.names = hash]

(* One request: the market from Gamma, the balances from the chain, before send_mutex. *)
Resolve(t) ==
    LET added == Item(op[t].task, Head(op[t].todo), op[t].seen) IN
    /\ op[t].step = "resolve" /\ op[t].todo # <<>>
    /\ Goes(t, IF added.ok THEN [op[t] EXCEPT !.todo = Tail(@), !.calls = @ \o added.calls,
                                              !.seen = @ \cup {added.id}]
               ELSE Ends(op[t], "invalid", 0))
    /\ UNCHANGED <<chain, txs, lock, budget>>

(* execute_calls takes send_mutex; setup_trading_approvals has nothing to do. *)
Execution(t) ==
    /\ op[t].step = "resolve" /\ op[t].todo = <<>>
    /\ IF op[t].calls = <<>> THEN Goes(t, Ends(op[t], "approved", 0)) /\ UNCHANGED lock
       ELSE lock = Free /\ lock' = t /\ Goes(t, [op[t] EXCEPT !.step = "nonce"])
    /\ UNCHANGED <<chain, txs, budget>>

(* An exception leaves the operation.  Inside an EOA batch the hashes sent so far go into
   a PartialBatchError. *)
Thrown(o) == Ends(o, IF Eoa /\ Len(o.sent) > 0 THEN "partial" ELSE "error", 0)
Throws(t) ==
    /\ Spend("faults")
    /\ Goes(t, Thrown(op[t]))
    /\ lock' = IF lock = t THEN Free ELSE lock
    /\ UNCHANGED <<chain, txs>>

(* A read before the send: no answer, an error, or one that is not a JSON-RPC result. *)
ReadThrows(t) == op[t].step = "resolve" /\ Throws(t)

(* The node is on another chain, or gives no nonce. *)
NonceThrows(t) == op[t].step = "nonce" /\ Throws(t)

(* A receipt, or what the relayer says of a transaction, cannot be read. *)
ReceiptThrows(t) == op[t].step \in {"landing", "receipt"} /\ Throws(t)
RelayerThrows(t) == op[t].step = "relayer" /\ Throws(t)

-----------------------------------------------------------------------------
(* The EOA. *)
NextCall(t) == op[t].calls[Len(op[t].sent) + 1]

(* eth_getTransactionCount(from, "pending"): external. *)
PendingCount == Len(txs)

(* eth_estimateGas throws for a call that would revert on the latest block. *)
WouldRevert(call) == Execute(<<call>>, chain).failed

(* send_from_eoa up to the signature. *)
Sign(t) ==
    /\ Eoa /\ op[t].step = "nonce"
    /\ IF WouldRevert(NextCall(t))
       THEN Goes(t, Thrown(op[t])) /\ lock' = Free
       ELSE Goes(t, [op[t] EXCEPT !.step = "send", !.nonce = PendingCount]) /\ UNCHANGED lock
    /\ UNCHANGED <<chain, txs, budget>>

(* The batch goes on after a call: it waits for all but the last one. *)
Sent(o, hash) ==
    LET s == [o EXCEPT !.sent = Append(@, hash), !.id = hash, !.late = FALSE]
    IN IF Len(s.sent) < Len(s.calls) THEN [s EXCEPT !.step = "landing"]
       ELSE [s EXCEPT !.step = "handle"]

(* send_raw_transaction: the node takes it and answers; takes it and the answer is lost or
   names another hash; or refuses it. *)
Broadcast(t) ==
    LET hash == Len(txs) + 1 IN
    /\ Eoa /\ op[t].step = "send"
    /\ \/ /\ Accept(t, <<NextCall(t)>>, op[t].nonce, hash) /\ Goes(t, Sent(op[t], hash))
          /\ lock' = IF Len(op[t].sent) + 1 = Len(op[t].calls) THEN Free ELSE lock
          /\ UNCHANGED budget
       \/ /\ Accept(t, <<NextCall(t)>>, op[t].nonce, hash) \/ UNCHANGED txs
          /\ Spend("faults") /\ Goes(t, Thrown(op[t])) /\ lock' = Free
    /\ UNCHANGED chain

-----------------------------------------------------------------------------
(* The Safe. *)
InFlight == \E i \in DOMAIN txs : txs[i].state = "pending"
Executed == Cardinality({i \in DOMAIN txs : txs[i].state = "ok"})

(* safe_nonce, and the signature over it. *)
SafeNonce(t) ==
    /\ ~Eoa /\ op[t].step = "nonce"
    /\ Goes(t, [op[t] EXCEPT !.step = "submit", !.nonce = Executed])
    /\ UNCHANGED <<chain, txs, lock, budget>>

(* Several calls become one MultiSend, so a Safe executes all of them or none. *)
SafeCall(calls) == calls

(* What is signed and submitted. *)
Payload(o) == [calls |-> SafeCall(o.calls), nonce |-> o.nonce]

(* The nonce in the relayer's refusal is below the chain's. *)
StaleNonce(nonce) == nonce < Executed

(* Mutant: an answer that was lost is retried too. *)
RetryableLost(answer, nonce) == answer \in {"limited", "busy", "lost"} \/ (answer = "mismatch" /\ StaleNonce(nonce))

(* is_retryable_submit_error: 429, a busy wallet, a nonce below the chain's. *)
Retryable(answer, nonce) == answer \in {"limited", "busy"} \/ (answer = "mismatch" /\ StaleNonce(nonce))

(* The relayer takes a submission, with or without a hash yet. *)
Takes(t, payload) ==
    /\ ~InFlight /\ payload.nonce = Executed
    /\ \E hash \in {0, 10 * (Len(txs) + 1)} : Accept(t, payload.calls, payload.nonce, hash)

(* The answer to submit: taken; refused, as the wallet is busy or its nonce another;
   limited; or lost, whether the relayer took it or not. *)
Answers(t, answer) ==
    CASE answer = "taken" -> Takes(t, Payload(op[t])) /\ UNCHANGED budget
      [] answer = "busy" -> InFlight /\ UNCHANGED <<txs, budget>>
      [] answer = "mismatch" -> ~InFlight /\ op[t].nonce # Executed /\ UNCHANGED <<txs, budget>>
      [] answer = "limited" -> Spend("faults") /\ UNCHANGED txs
      [] answer = "lost" -> Spend("faults") /\ (Takes(t, Payload(op[t])) \/ UNCHANGED txs)

(* execute_from_safe: one attempt, and a fresh nonce for the next one. *)
Submit(t) ==
    /\ ~Eoa /\ op[t].step = "submit"
    /\ \E answer \in {"taken", "busy", "mismatch", "limited", "lost"} :
          /\ Answers(t, answer)
          /\ IF answer = "taken"
             THEN Goes(t, [op[t] EXCEPT !.step = "handle", !.id = Len(txs) + 1, !.late = FALSE,
                             !.sent = IF txs'[Len(txs) + 1].hash = 0 THEN <<>>
                                      ELSE <<txs'[Len(txs) + 1].hash>>])
                  /\ lock' = Free
             ELSE IF Retryable(answer, op[t].nonce) /\ op[t].tries < MaxTries
             THEN Goes(t, [op[t] EXCEPT !.step = "nonce", !.tries = @ + 1]) /\ UNCHANGED lock
             ELSE Goes(t, Thrown(op[t])) /\ lock' = Free
    /\ UNCHANGED chain

-----------------------------------------------------------------------------
(* The waits. *)

(* The caller waits on its handle, or drops it; setup_trading_approvals always waits. *)
Handle(t) ==
    /\ op[t].step = "handle"
    /\ \/ Goes(t, [op[t] EXCEPT !.step = IF Eoa THEN "receipt" ELSE "relayer"])
       \/ op[t].task # "setup" /\ Goes(t, Ends(op[t], "sent", 0))
    /\ UNCHANGED <<chain, txs, lock, budget>>

Deadline(t) ==
    /\ op[t].step \in {"landing", "relayer", "receipt"} /\ ~op[t].late
    /\ Goes(t, [op[t] EXCEPT !.late = TRUE])
    /\ UNCHANGED <<chain, txs, lock, budget>>

Receipt(hash) == {i \in DOMAIN txs : txs[i].hash = hash /\ txs[i].state \in {"ok", "reverted"}}

(* A failed wait ends the operation; inside a batch, and for setup_trading_approvals when
   more than one call was sent, it becomes a PartialBatchError. *)
Waited(o, why) ==
    IF o.step = "landing" \/ (Eoa /\ o.task = "setup" /\ Len(o.sent) > 1)
    THEN Ends(o, "partial", o.id) ELSE Ends(o, why, o.id)

(* One poll of wait_for_receipt.  The deadline is looked at after a poll that found
   nothing; the node may lag behind what the relayer has seen. *)
PollReceipt(t) ==
    LET o == op[t] IN
    /\ o.step \in {"landing", "receipt"}
    /\ \/ o.late /\ (Receipt(o.id) = {} \/ ~Eoa) /\ Goes(t, Waited(o, "timeout"))
       \/ \E i \in Receipt(o.id) :
            Goes(t, IF txs[i].state = "reverted" THEN Waited(o, "reverted")
                    ELSE IF o.step = "landing" THEN [o EXCEPT !.step = "nonce"]
                    ELSE Ends(o, "ok", o.id))
    /\ lock' = IF lock = t /\ op'[t].step = "idle" THEN Free ELSE lock
    /\ UNCHANGED <<chain, txs, budget>>

(* get_transaction *)
Relayed(o) == txs[o.id]

(* The hash wait_for_relayer goes on with. *)
ConfirmedHash(o) == IF Relayed(o).hash = 0 THEN o.sent[1] ELSE Relayed(o).hash

(* One poll of wait_for_relayer; the relayer confirms what is mined, a revert being a
   failure to it. *)
PollRelayer(t) ==
    LET o == op[t] IN
    /\ o.step = "relayer"
    /\ \/ /\ Relayed(o).state = "ok"
          /\ Goes(t, [o EXCEPT !.step = "receipt", !.id = ConfirmedHash(o)])
       \/ /\ Relayed(o).state \in {"failed", "reverted"}
          /\ Goes(t, Ends(o, "failed", Relayed(o).hash))
       \/ /\ Relayed(o).state = "pending" /\ o.late
          /\ Goes(t, Ends(o, "timeout", Relayed(o).hash))
    /\ UNCHANGED <<chain, txs, lock, budget>>

Step(t) ==
    \/ Resolve(t) \/ Execution(t) \/ Sign(t) \/ Broadcast(t) \/ SafeNonce(t) \/ Submit(t)
    \/ Handle(t) \/ PollReceipt(t) \/ PollRelayer(t)

Next ==
    \/ \E t \in Threads, task \in {"split", "merge", "merges", "redeem", "setup", "approve",
                                   "revoke", "transfer"} :
          \E todo \in Orders(task) : Begin(t, task, todo)
    \/ \E t \in Threads : Step(t) \/ Deadline(t)
    \/ \E t \in Threads : ReadThrows(t) \/ NonceThrows(t) \/ ReceiptThrows(t) \/ RelayerThrows(t)
    \/ \E i \in DOMAIN txs : Mine(i) \/ Relays(i)

(* The threads run and their clocks move; nothing is assumed of the chain. *)
Fairness == \A t \in Threads : WF_vars(Step(t)) /\ WF_vars(Deadline(t))
Spec == Init /\ [][Next]_vars /\ Fairness

-----------------------------------------------------------------------------
Mined(t) == {i \in DOMAIN txs : txs[i].by = t /\ txs[i].run = op[t].run}

(* send_mutex keeps one nonce sequence: no two transactions of the client share a nonce
   unless the relayer dropped one of them. *)
NoncesDistinct ==
    \A i, j \in DOMAIN txs : i # j /\ txs[i].nonce = txs[j].nonce
        => ~Eoa /\ (txs[i].state \in {"failed", "reverted"} \/ txs[j].state \in {"failed", "reverted"})

(* A call of an EOA batch is sent after every earlier one was mined with success, and no
   call of an operation is executed twice, whatever was retried. *)
BatchInOrder ==
    \A i \in DOMAIN txs : \A j \in 1..(txs[i].at - 1) :
        Eoa => \E k \in DOMAIN txs : txs[k].by = txs[i].by /\ txs[k].run = txs[i].run
                                         /\ txs[k].at = j /\ txs[k].state = "ok"
ExecutedOnce ==
    \A i, j \in DOMAIN txs :
        i # j /\ txs[i].by = txs[j].by /\ txs[i].run = txs[j].run /\ txs[i].at = txs[j].at
            => txs[i].state # "ok" \/ txs[j].state # "ok"

(* A batch never merges one condition twice, in whichever forms its id was given: the
   second merge would revert for want of the tokens the first one used. *)
MergesDistinct ==
    \A t \in Threads : \A i, j \in DOMAIN op[t].calls :
        i # j /\ op[t].calls[i].kind = "merge" => op[t].calls[i].m # op[t].calls[j].m

(* What an operation reports is what happened: an outcome is the success of its last
   transaction, a revert is a revert, and a failure lists every transaction of the
   operation but at most one, whose answer was lost. *)
OutcomeHonest ==
    \A t \in Threads : op[t].step = "idle" =>
        /\ op[t].result = "ok" =>
             /\ \E i \in Receipt(op[t].names) : txs[i].state = "ok"
             /\ op[t].task = "setup" =>
                  \/ ToSet(Spenders) \subseteq chain.approved
                  \/ \E i \in DOMAIN txs : \E c \in ToSet(txs[i].calls) : c.kind = "revoke"
        /\ op[t].result = "reverted" => \E i \in Receipt(op[t].names) : txs[i].state = "reverted"
        /\ op[t].result = "invalid" => Mined(t) = {}
        /\ op[t].result \in {"error", "partial"} /\ Eoa => Cardinality(Mined(t)) <= Len(op[t].sent) + 1
=============================================================================
