--------------------------- MODULE EvmEventIndexer ---------------------------
(***************************************************************************)
(* EvmEventIndexer of polymarket-cpp-client: HTTP catch-up, live handoff,  *)
(* gap recovery and the persistent cursor.                                 *)
(*                                                                         *)
(* Threads: "user" (catch_up, start_live), "reconcile" (the reconciliation *)
(* worker), the delivery worker, a thread calling stop, and the transport  *)
(* thread that delivers subscription messages.  One step is one critical   *)
(* section of LiveState::mutex or one call of the transport or the cursor  *)
(* store.  The blockchain and the RPC node are external.                   *)
(***************************************************************************)
EXTENDS Integers, Sequences, FiniteSets

CONSTANTS
    MaxBlock,       \* bound: height the chain may reach
    LogsPerBlock,   \* matching logs in every block
    StartBlock,     \* config.start_block
    Confirmations,  \* config.confirmations
    BatchSize,      \* config.batch_size
    Lookback,       \* config.reorg_lookback_blocks
    QueueLimit,     \* evm_live_log_queue_limit
    MaxReorgs, MaxGaps, MaxCalls, MaxStops, MaxCrashes,  \* event bounds
    MaxThrows,      \* bound: exceptions of the user's log callback
    MaxFailures,    \* bound: failures of the transport or the cursor store
    CatchUpWhileLive  \* may the user call catch_up during a live session?

ASSUME ConfigAssumption ==
    /\ MaxBlock \in Nat /\ LogsPerBlock \in Nat \ {0}
    /\ StartBlock \in 0..MaxBlock /\ Confirmations \in Nat
    /\ BatchSize \in Nat \ {0} /\ Lookback \in Nat \ {0}
    /\ QueueLimit \in Nat \ {0}
    /\ {MaxReorgs, MaxGaps, MaxCalls, MaxStops, MaxCrashes, MaxThrows, MaxFailures} \subseteq Nat
    /\ CatchUpWhileLive \in BOOLEAN

VARIABLES
    chain,      \* external: [head, fork, forks]; fork[b] is the hash of block b
    link,       \* the subscription: [state, gen, heads]; heads are announced, not handled
    stream,     \* subscription messages not yet handed to the indexer
    cursor,     \* the persisted EvmIndexCursor
    ls,         \* scalar fields and handoff buffer of LiveState
    hist,       \* historical_deliveries
    liveq,      \* live_deliveries
    delivered,  \* keys of delivered_logs
    worker,     \* the delivery thread
    scan,       \* the user and the reconciliation thread
    stopper,    \* the thread inside stop()
    budget,     \* how many events of each bounded kind have happened
    ever,       \* history: logs whose callback returned, over all processes
    view,       \* history: additions minus retractions this process delivered
    skipped,    \* history: blocks below a gap window the cursor had not passed
    flags       \* history: [quiet, unseen, stale, missed], see StopReturn,
                \* Reorg, ComputeOrphans and Mine

vars == <<chain, link, stream, cursor, ls, hist, liveq, delivered, worker,
          scan, stopper, budget, ever, view, skipped, flags>>
envVars     == <<chain, link, stream>>
queueVars   == <<hist, liveq, delivered, worker>>
historyVars == <<ever, view, skipped, flags>>

Threads == {"user", "reconcile"}
Blocks  == 0..MaxBlock
Indexes == 1..LogsPerBlock
NoHead  == -1
NoLog   == [block |-> -1, fork |-> 0, index |-> 0]
\* load_cursor returned no value.
NoCursor == [block |-> -1, complete |-> TRUE, last |-> NoLog]

Min2(a, b) == IF a < b THEN a ELSE b
Max2(a, b) == IF a > b THEN a ELSE b

LogAt(b, f, i) == [block |-> b, fork |-> f, index |-> i]

(* External: eth_getLogs over a range of the current canonical chain. *)
CanonicalLogs(from, to) ==
    {LogAt(b, chain.fork[b], i) : b \in from..Min2(to, chain.head), i \in Indexes}

-----------------------------------------------------------------------------
(* evm_log_before: block, then position inside the block. *)
evm_log_before(l, m) ==
    l.block < m.block \/ (l.block = m.block /\ l.index < m.index)

(* std::stable_sort followed by iteration: the next log is a minimal one. *)
NextInOrder(S, l) == l \in S /\ \A m \in S : ~evm_log_before(m, l)

(* head > confirmations ? head - confirmations : 0 *)
DurableHead(head) == IF head > Confirmations THEN head - Confirmations ELSE 0

(* cursor_advances *)
cursor_advances(current, next) ==
    IF next.block # current.block THEN next.block > current.block
    ELSE IF current.complete THEN next.complete
    ELSE \/ next.complete
         \/ /\ next.last # NoLog
            /\ \/ current.last = NoLog
               \/ /\ next.last.fork = current.last.fork
                  /\ next.last.index >= current.last.index

(* FileBlockCursorStore::save_cursor *)
SaveCursor(next) ==
    IF cursor = NoCursor \/ cursor_advances(cursor, next) THEN next ELSE cursor

(* FileBlockCursorStore::rewind *)
RewindCursor(from) ==
    IF cursor = NoCursor \/ from > cursor.block THEN cursor
    ELSE [block |-> from, complete |-> FALSE, last |-> NoLog]

(* prune_delivered: forget deliveries at or below the retention cutoff. *)
prune_delivered(durable) ==
    IF durable <= Lookback THEN delivered
    ELSE {l \in delivered : l.block > durable - Lookback}

(* evm_make_block_ranges: the range that begins at `next'.  Blocks up to the
   durable bound are scanned with persist, later ones without. *)
Persist(t) == scan[t].next <= Min2(scan[t].target, scan[t].durable)

(* Mutant: the last range is not clamped to its bound. *)
RangeEndUnclamped(t) == scan[t].next + BatchSize - 1

RangeEnd(t) ==
    LET bound == IF Persist(t) THEN Min2(scan[t].target, scan[t].durable)
                 ELSE scan[t].target
    IN  Min2(scan[t].next + BatchSize - 1, bound)
InRange(t, l) == l.block >= scan[t].next /\ l.block <= scan[t].to

(* The resume test of scan_ranges: this log was checkpointed before. *)
AlreadyCheckpointed(t, l) ==
    LET r == scan[t].resume
    IN  ~r.complete /\ r.last # NoLog /\ l.block = r.block
        /\ l.fork = r.last.fork /\ l.index <= r.last.index

(* Blocks a complete cursor prefix claims to have processed. *)
Passed(c, b) == b < c.block \/ (b = c.block /\ c.complete)

Current(t) == scan[t].gen = ls.generation

ScanPcs == {"load", "gap", "range", "orphans", "log", "wait", "save", "checkpoint"}
(* reconcile_mutex is held by the worker from reconcile_confirmed's check
   until the scan returns or throws. *)
ReconcileMutexHeld == scan["reconcile"].pc \in ScanPcs

(* Where catch_up_to / reconcile_gap return to, and where an exception goes. *)
ReturnPc(t) ==
    IF t = "reconcile" THEN "release"
    ELSE IF scan[t].call = "start_live" THEN "handoff"
    ELSE IF scan[t].call = "drain" THEN "drain" ELSE "idle"
ThrowPc(t) ==
    IF t = "reconcile" THEN "report"
    ELSE IF scan[t].call = "catch_up" THEN "idle" ELSE "abort"

NoLink == [state |-> "off", gen |-> 0, heads |-> {}]
IdleThread ==
    [pc |-> "idle", call |-> "none", gen |-> 0, head |-> NoHead,
     refresh |-> FALSE, overlap |-> FALSE, next |-> 0, to |-> 0,
     target |-> 0, durable |-> 0, resume |-> NoCursor, orphans |-> {},
     todo |-> {}, log |-> NoLog, removed |-> FALSE, result |-> "none"]
NoJob == [log |-> NoLog, removed |-> FALSE, live |-> FALSE, gen |-> 0, waiter |-> "none"]
IdleWorker == [pc |-> "idle", job |-> NoJob, held |-> FALSE]

InitialLiveState ==
    [accepting |-> FALSE, buffering |-> FALSE, started |-> FALSE,
     bufferedHead |-> NoHead, pendingHead |-> NoHead, refresh |-> FALSE,
     overlap |-> FALSE, handoffGap |-> FALSE, active |-> FALSE,
     generation |-> 0, pendingGen |-> 0, buffered |-> <<>>]

InitialFlags == [quiet |-> TRUE, unseen |-> FALSE, stale |-> FALSE, missed |-> NoHead]

SetThread(t, r) == scan' = [scan EXCEPT ![t] = r]
Goto(t, pc) == SetThread(t, [scan[t] EXCEPT !.pc = pc])

(* The end of a scan forgets its locals; `idle' forgets the call as well. *)
Leave(t, pc) ==
    SetThread(t, IF pc = "idle" THEN IdleThread
        ELSE [IdleThread EXCEPT !.pc = pc, !.call = scan[t].call,
                                !.gen = scan[t].gen, !.overlap = scan[t].overlap])

UserCall ==
    /\ budget.calls < MaxCalls
    /\ budget' = [budget EXCEPT !.calls = @ + 1]

Failure ==
    /\ budget.failures < MaxFailures
    /\ budget' = [budget EXCEPT !.failures = @ + 1]

Init ==
    /\ chain = [head |-> StartBlock, fork |-> [b \in Blocks |-> 0], forks |-> 0]
    /\ link = NoLink
    /\ stream = <<>>
    /\ cursor = NoCursor
    /\ ls = InitialLiveState
    /\ hist = <<>> /\ liveq = <<>> /\ delivered = {}
    /\ worker = IdleWorker
    /\ scan = [t \in Threads |-> IdleThread]
    /\ stopper = "idle"
    /\ budget = [gaps |-> 0, calls |-> 0, stops |-> 0, crashes |-> 0, throws |-> 0, failures |-> 0]
    /\ ever = {} /\ view = {} /\ skipped = {}
    /\ flags = InitialFlags

-----------------------------------------------------------------------------
(* External: the chain and the subscription.                               *)

Notes(from, to, fork, removed) ==
    [i \in 1..((to - from + 1) * LogsPerBlock) |->
        [log |-> LogAt(from + ((i - 1) \div LogsPerBlock),
                       fork[from + ((i - 1) \div LogsPerBlock)],
                       1 + ((i - 1) % LogsPerBlock)),
         removed |-> removed]]

(* A live subscription receives logs in order; newHeads notifications come
   from a second subscription and may be late. *)
Publish(notes, heads) ==
    IF link.state = "up"
    THEN /\ stream' = stream \o notes
         /\ link' = [link EXCEPT !.heads = @ \cup heads]
    ELSE UNCHANGED <<stream, link>>

Mine ==
    /\ chain.head < MaxBlock
    /\ LET b == chain.head + 1
           c == [chain EXCEPT !.head = b, !.fork[b] = chain.forks]
       IN  /\ chain' = c
           /\ Publish(Notes(b, b, c.fork, FALSE), {b})
           \* A block that falls between the gap report and the new
           \* subscription is only found when a later head confirms it.
           /\ flags' = [flags EXCEPT !.missed =
                IF link.state = "resubscribing" THEN b
                ELSE IF link.state = "up" /\ @ <= DurableHead(b) THEN NoHead ELSE @]
    /\ UNCHANGED <<cursor, ls, queueVars, scan, stopper, budget, ever, view, skipped>>

(* Blocks from b upward are replaced; a subscriber first sees the removed
   logs and then the replacements. *)
Reorg(b) ==
    /\ chain.forks < MaxReorgs /\ b \in 1..chain.head
    /\ LET f == [c \in Blocks |-> IF c >= b THEN chain.forks + 1 ELSE chain.fork[c]]
       IN  /\ chain' = [chain EXCEPT !.fork = f, !.forks = @ + 1]
           /\ Publish(Notes(b, chain.head, chain.fork, TRUE)
                      \o Notes(b, chain.head, f, FALSE), {chain.head})
    \* Nobody sees a reorganisation while there is no subscription, or after
    \* the gap of the lost one was reported.
    /\ flags' = [flags EXCEPT !.unseen = @ \/ link.state \in {"off", "resubscribing"}]
    /\ UNCHANGED <<cursor, ls, queueVars, scan, stopper, budget, ever, view, skipped>>

Disconnect ==
    /\ link.state = "up" /\ budget.gaps < MaxGaps
    /\ link' = [link EXCEPT !.state = "lost", !.heads = {}]
    /\ stream' = <<>>
    /\ budget' = [budget EXCEPT !.gaps = @ + 1]
    /\ UNCHANGED <<chain, cursor, ls, queueVars, scan, stopper, historyVars>>

Resubscribed ==
    /\ link.state = "resubscribing"
    /\ link' = [link EXCEPT !.state = "up"]
    /\ UNCHANGED <<chain, stream, cursor, ls, queueVars, scan, stopper, budget,
                   historyVars>>

-----------------------------------------------------------------------------
(* Transport callbacks.                                                    *)

Admitted == ls.accepting /\ link.gen = ls.generation

(* handle_live_log, and dispatch_log for a live log. *)
handle_live_log ==
    /\ stream # <<>>
    /\ stream' = Tail(stream)
    /\ LET note == Head(stream)
           job  == [log |-> note.log, removed |-> note.removed, live |-> TRUE,
                    gen |-> link.gen, waiter |-> "none"]
       IN  \/ ~Admitted /\ UNCHANGED <<ls, liveq>>
           \/ /\ Admitted /\ ls.buffering
              /\ ls' = IF ls.handoffGap THEN ls
                       ELSE IF Len(ls.buffered) < QueueLimit
                       THEN [ls EXCEPT !.buffered = Append(@, note)]
                       ELSE [ls EXCEPT !.buffered = <<>>, !.handoffGap = TRUE]
              /\ UNCHANGED liveq
           \/ /\ Admitted /\ ~ls.buffering /\ Len(liveq) < QueueLimit
              /\ liveq' = Append(liveq, job)
              /\ UNCHANGED ls
           \/ /\ Admitted /\ ~ls.buffering /\ Len(liveq) >= QueueLimit
              /\ liveq' = <<>>
              /\ ls' = [ls EXCEPT !.refresh = TRUE, !.overlap = TRUE,
                                  !.pendingGen = link.gen]
    /\ UNCHANGED <<chain, link, cursor, hist, delivered, worker, scan, stopper,
                   budget, historyVars>>

(* handle_live_head on the state s. *)
HeadNoted(s, h, gen) ==
    IF ~s.accepting \/ gen # s.generation THEN s
    ELSE IF s.buffering THEN [s EXCEPT !.bufferedHead = Max2(@, h)]
    ELSE [s EXCEPT !.pendingHead = Max2(@, h), !.pendingGen = gen]

handle_live_head(h) ==
    /\ h \in link.heads
    /\ link' = [link EXCEPT !.heads = @ \ {h}]
    /\ ls' = HeadNoted(ls, h, link.gen)
    /\ UNCHANGED <<chain, stream, cursor, queueVars, scan, stopper, budget, historyVars>>

ErrorNoted(gap) ==
    IF ~Admitted THEN ls
    ELSE IF ls.buffering
    THEN [ls EXCEPT !.buffered = <<>>, !.handoffGap = TRUE, !.pendingGen = link.gen]
    ELSE [ls EXCEPT !.refresh = TRUE, !.overlap = @ \/ gap, !.pendingGen = link.gen]

(* handle_live_error: a stream gap is reported when the socket closes and when
   it opens again, before the subscriptions are sent again ... *)
StreamGap ==
    /\ \/ link.state = "lost" /\ link' = [link EXCEPT !.state = "down"]
       \/ link.state = "down" /\ link' = [link EXCEPT !.state = "resubscribing"]
    /\ ls' = ErrorNoted(TRUE)
    /\ UNCHANGED <<chain, stream, cursor, queueVars, scan, stopper, budget, historyVars>>

(* ... or any other error of the subscription. *)
LiveError ==
    /\ link.state \in {"up", "down"} /\ Failure
    /\ ls' = ErrorNoted(FALSE)
    /\ UNCHANGED <<envVars, cursor, queueVars, scan, stopper, historyVars>>

-----------------------------------------------------------------------------
(* The delivery worker.                                                    *)

Finish(job, result) ==
    scan' = IF job.waiter = "none" THEN scan
            ELSE [scan EXCEPT ![job.waiter] = [@ EXCEPT !.result = result]]

(* delivery_loop: historical jobs first; live jobs wait for reconciliation. *)
Begin(job) ==
    IF job.gen # ls.generation
    THEN Finish(job, "false") /\ UNCHANGED worker
    ELSE /\ worker' = [pc |-> IF job.live /\ job.removed THEN "rewind" ELSE "admit",
                       job |-> job, held |-> FALSE]
         /\ UNCHANGED scan

PopHistorical ==
    /\ worker.pc = "idle" /\ hist # <<>>
    /\ hist' = Tail(hist)
    /\ Begin(Head(hist))
    /\ UNCHANGED <<envVars, cursor, ls, liveq, delivered, stopper, budget, historyVars>>

PopLive ==
    /\ worker.pc = "idle" /\ hist = <<>> /\ liveq # <<>>
    /\ ~ls.active /\ ~ls.refresh
    /\ liveq' = Tail(liveq)
    /\ Begin(Head(liveq))
    /\ UNCHANGED <<envVars, cursor, ls, hist, delivered, stopper, budget, historyVars>>

(* emit_log, first part: a live removal rewinds the cursor; a store failure
   is only reported. *)
EmitRewind ==
    /\ worker.pc = "rewind"
    /\ worker' = [worker EXCEPT !.pc = "admit"]
    /\ \/ /\ cursor' = RewindCursor(worker.job.log.block)
          /\ UNCHANGED budget
       \/ /\ Failure
          /\ UNCHANGED cursor
    /\ UNCHANGED <<envVars, ls, hist, liveq, delivered, scan, stopper, historyVars>>

(* emit_log, second part: deduplicate against delivered_logs. *)
EmitAdmit ==
    /\ worker.pc = "admit"
    /\ LET log == worker.job.log
       IN  \/ /\ worker.job.removed
              /\ delivered' = delivered \ {log}
              /\ worker' = [worker EXCEPT !.pc = "callback", !.held = log \in delivered]
              /\ UNCHANGED scan
           \/ /\ ~worker.job.removed /\ log \notin delivered
              /\ delivered' = delivered \cup {log}
              /\ worker' = [worker EXCEPT !.pc = "callback"]
              /\ UNCHANGED scan
           \/ /\ ~worker.job.removed /\ log \in delivered
              /\ Finish(worker.job, "false")
              /\ worker' = IdleWorker
              /\ UNCHANGED delivered
    /\ UNCHANGED <<envVars, cursor, ls, hist, liveq, stopper, budget, historyVars>>

(* emit_log, third part: the callback returns. *)
CallbackReturns ==
    /\ worker.pc = "callback"
    /\ LET log == worker.job.log
       IN  IF worker.job.removed
           THEN view' = view \ {log} /\ ever' = ever
           ELSE view' = view \cup {log} /\ ever' = ever \cup {log}
    /\ Finish(worker.job, "true")
    /\ worker' = IdleWorker
    /\ UNCHANGED <<envVars, cursor, ls, hist, liveq, delivered, stopper, budget,
                   skipped, flags>>

(* The callback throws: delivered_logs is restored ... *)
CallbackThrows ==
    /\ worker.pc = "callback" /\ budget.throws < MaxThrows
    /\ budget' = [budget EXCEPT !.throws = @ + 1]
    /\ delivered' = IF ~worker.job.removed THEN delivered \ {worker.job.log}
                    ELSE IF worker.held THEN delivered \cup {worker.job.log}
                    ELSE delivered
    /\ worker' = [worker EXCEPT !.pc = "recover"]
    /\ UNCHANGED <<envVars, cursor, ls, hist, liveq, scan, stopper, historyVars>>

(* Mutant: the failed delivery is never reported to its waiter. *)
RecoveryForgetsWaiter ==
    /\ worker.pc = "recover"
    /\ ls' = IF ~ls.accepting \/ worker.job.gen # ls.generation THEN ls
             ELSE IF ls.buffering
             THEN [ls EXCEPT !.buffered = <<>>, !.handoffGap = TRUE]
             ELSE [ls EXCEPT !.refresh = TRUE, !.overlap = TRUE,
                             !.pendingGen = worker.job.gen]
    /\ worker' = IdleWorker
    /\ UNCHANGED <<envVars, cursor, hist, liveq, delivered, scan, stopper, budget, historyVars>>

(* ... and schedule_overlap_recovery runs before the waiter learns of it. *)
schedule_overlap_recovery ==
    /\ worker.pc = "recover"
    /\ ls' = IF ~ls.accepting \/ worker.job.gen # ls.generation THEN ls
             ELSE IF ls.buffering
             THEN [ls EXCEPT !.buffered = <<>>, !.handoffGap = TRUE]
             ELSE [ls EXCEPT !.refresh = TRUE, !.overlap = TRUE,
                             !.pendingGen = worker.job.gen]
    /\ Finish(worker.job, "failed")
    /\ worker' = IdleWorker
    /\ UNCHANGED <<envVars, cursor, hist, liveq, delivered, stopper, budget, historyVars>>

-----------------------------------------------------------------------------
(* Scans: catch_up_to / scan_ranges and reconcile_gap / scan_gap_ranges.   *)

scanFrame == <<envVars, ls, liveq, worker, stopper>>

(* catch_up_to: load the cursor and compute the first block. *)
LoadCursor(t) ==
    /\ scan[t].pc = "load"
    /\ SetThread(t, [scan[t] EXCEPT !.pc = "range", !.resume = cursor,
                   !.next = IF cursor = NoCursor THEN StartBlock
                               ELSE cursor.block + (IF cursor.complete THEN 1 ELSE 0)])
    /\ UNCHANGED <<scanFrame, cursor, hist, delivered, budget, historyVars>>

(* reconcile_gap: the overlap window, and the rewind of the cursor to its
   first block; a store failure is only reported. *)
reconcile_gap(t) ==
    LET overlap == Lookback - 1
        window  == IF scan[t].target > overlap THEN scan[t].target - overlap ELSE 0
        from    == Max2(StartBlock, window)
    IN  /\ scan[t].pc = "gap"
        /\ \/ /\ from > scan[t].target
              /\ Leave(t, ReturnPc(t))
              /\ UNCHANGED <<cursor, budget, skipped>>
           \/ /\ from <= scan[t].target
              /\ SetThread(t, [scan[t] EXCEPT !.pc = "range", !.next = from])
              /\ skipped' = skipped \cup {b \in StartBlock..(from - 1) : ~Passed(cursor, b)}
              /\ \/ cursor' = RewindCursor(from) /\ UNCHANGED budget
                 \/ Failure /\ UNCHANGED cursor
        /\ UNCHANGED <<scanFrame, hist, delivered, ever, view, flags>>

(* The head of both range loops: stop when done or superseded, else fetch. *)
FetchRange(t) ==
    /\ scan[t].pc = "range"
    /\ \/ /\ scan[t].next > scan[t].target \/ ~Current(t)
          /\ Leave(t, ReturnPc(t))
       \/ /\ scan[t].next <= scan[t].target /\ Current(t)
          /\ SetThread(t, [scan[t] EXCEPT
                !.pc = IF scan[t].overlap THEN "orphans" ELSE "log",
                !.to = RangeEnd(t),
                !.todo = {l \in CanonicalLogs(scan[t].next, RangeEnd(t)) :
                                ~AlreadyCheckpointed(t, l)}])
    /\ UNCHANGED <<scanFrame, cursor, hist, delivered, budget, historyVars>>

(* A live addition of an abandoned fork is still queued or in the worker's
   hands although its removal will never be seen. *)
StaleLive ==
    LET held    == IF worker.pc \in {"rewind", "admit"} THEN <<worker.job>> ELSE <<>>
        pending == held \o liveq
        removal == {pending[i].log : i \in {j \in DOMAIN pending : pending[j].removed}}
                   \cup {stream[i].log : i \in {j \in DOMAIN stream : stream[j].removed}}
    IN  \E i \in DOMAIN pending :
            /\ pending[i].live /\ ~pending[i].removed
            /\ pending[i].log.fork # chain.fork[pending[i].log.block]
            /\ pending[i].log \notin removal

(* Mutant: a gap scan retracts nothing. *)
ComputeNoOrphans(t) ==
    /\ scan[t].pc = "orphans"
    /\ SetThread(t, [scan[t] EXCEPT !.pc = "log"])
    /\ flags' = [flags EXCEPT !.stale = @ \/ StaleLive]
    /\ UNCHANGED <<scanFrame, cursor, hist, delivered, budget, ever, view, skipped>>

(* scan_gap_ranges: delivered logs of the range that are not canonical. *)
ComputeOrphans(t) ==
    /\ scan[t].pc = "orphans"
    /\ SetThread(t, [scan[t] EXCEPT !.pc = "log",
                  !.orphans = {l \in delivered : InRange(t, l)} \ scan[t].todo])
    /\ flags' = [flags EXCEPT !.stale = @ \/ StaleLive]
    /\ UNCHANGED <<scanFrame, cursor, hist, delivered, budget, ever, view, skipped>>

Dispatch(t, l, removed) ==
    /\ hist' = Append(hist, [log |-> l, removed |-> removed, live |-> FALSE,
                             gen |-> scan[t].gen, waiter |-> t])
    /\ SetThread(t, [scan[t] EXCEPT !.pc = "wait", !.log = l, !.removed = removed,
                            !.result = "none",
                            !.orphans = IF removed THEN @ \ {l} ELSE @,
                            !.todo = IF removed THEN @ ELSE @ \ {l}])

(* The bodies of the log loops: dispatch_log with wait, in order, orphans
   before canonical logs; then the end of the range. *)
NextLog(t) ==
    /\ scan[t].pc = "log"
    /\ \/ ~Current(t) /\ Leave(t, ReturnPc(t)) /\ UNCHANGED hist
       \/ Current(t) /\ \E l \in scan[t].orphans :
             NextInOrder(scan[t].orphans, l) /\ Dispatch(t, l, TRUE)
       \/ Current(t) /\ scan[t].orphans = {} /\ \E l \in scan[t].todo :
             NextInOrder(scan[t].todo, l) /\ Dispatch(t, l, FALSE)
       \/ /\ Current(t) /\ scan[t].orphans = {} /\ scan[t].todo = {}
          /\ IF Persist(t) THEN Goto(t, "checkpoint")
             ELSE SetThread(t, [scan[t] EXCEPT !.pc = "range", !.next = scan[t].to + 1])
          /\ UNCHANGED hist
    /\ UNCHANGED <<scanFrame, cursor, delivered, budget, historyVars>>

(* The wait of dispatch_log ends. *)
DispatchReturns(t) ==
    /\ scan[t].pc = "wait" /\ scan[t].result # "none"
    /\ \/ scan[t].result = "failed" /\ Leave(t, ThrowPc(t))
       \/ scan[t].result = "true" /\ scan[t].removed /\ Goto(t, "log")
       \/ scan[t].result = "false" /\ scan[t].removed /\ Leave(t, ReturnPc(t))
       \/ /\ scan[t].result # "failed" /\ ~scan[t].removed /\ ~Current(t)
          /\ Leave(t, ReturnPc(t))
       \/ /\ scan[t].result # "failed" /\ ~scan[t].removed /\ Current(t)
          /\ Goto(t, IF Persist(t) THEN "save" ELSE "log")
    /\ UNCHANGED <<scanFrame, cursor, hist, delivered, budget, historyVars>>

save_log_checkpoint(t) ==
    /\ scan[t].pc = "save"
    /\ cursor' = SaveCursor([block |-> scan[t].log.block, complete |-> FALSE,
                             last |-> scan[t].log])
    /\ Goto(t, "log")
    /\ UNCHANGED <<scanFrame, hist, delivered, budget, historyVars>>

(* Mutant: the checkpoint of a range claims the whole target. *)
SaveCheckpointOfTarget(t) ==
    /\ scan[t].pc = "checkpoint"
    /\ cursor' = SaveCursor([block |-> scan[t].target, complete |-> TRUE, last |-> NoLog])
    /\ delivered' = prune_delivered(scan[t].to)
    /\ SetThread(t, [scan[t] EXCEPT !.pc = "range", !.next = scan[t].to + 1])
    /\ UNCHANGED <<scanFrame, hist, budget, historyVars>>

(* save_checkpoint: the checkpoint callback may throw after the save. *)
save_checkpoint(t) ==
    /\ scan[t].pc = "checkpoint"
    /\ cursor' = SaveCursor([block |-> scan[t].to, complete |-> TRUE, last |-> NoLog])
    /\ \/ /\ delivered' = prune_delivered(scan[t].to)
          /\ SetThread(t, [scan[t] EXCEPT !.pc = "range", !.next = scan[t].to + 1])
          /\ UNCHANGED budget
       \/ /\ Failure /\ Leave(t, ThrowPc(t))
          /\ UNCHANGED delivered
    /\ UNCHANGED <<scanFrame, hist, historyVars>>

(* block_number, get_logs, load_cursor or save_cursor throws. *)
CallThrows(t) ==
    /\ scan[t].pc \in {"boundary", "gaphead", "refresh", "load", "range", "save", "checkpoint"}
    /\ Failure
    /\ Leave(t, ThrowPc(t))
    /\ UNCHANGED <<scanFrame, cursor, hist, delivered, historyVars>>

-----------------------------------------------------------------------------
(* The reconciliation worker.                                              *)

(* reconciliation_loop: take the pending work. *)
ReconcileWake ==
    /\ scan["reconcile"].pc = "idle"
    /\ ls.pendingHead # NoHead \/ (ls.refresh /\ ~ls.buffering)
    /\ SetThread("reconcile",
          [IdleThread EXCEPT !.pc = IF ls.refresh THEN "refresh" ELSE "confirm",
                             !.gen = ls.pendingGen, !.head = ls.pendingHead,
                             !.refresh = ls.refresh, !.overlap = ls.overlap])
    /\ ls' = [ls EXCEPT !.pendingHead = NoHead, !.refresh = FALSE,
                        !.overlap = FALSE, !.active = TRUE]
    /\ UNCHANGED <<envVars, cursor, queueVars, stopper, budget, historyVars>>

RefreshHead ==
    /\ scan["reconcile"].pc = "refresh"
    /\ SetThread("reconcile", [scan["reconcile"] EXCEPT !.pc = "confirm",
                            !.head = Max2(@, chain.head)])
    /\ UNCHANGED <<envVars, cursor, ls, queueVars, stopper, budget, historyVars>>

(* reconcile_confirmed: under reconcile_mutex, check and choose the scan. *)
reconcile_confirmed ==
    LET r == scan["reconcile"]
    IN  /\ r.pc = "confirm"
        /\ IF ~ls.accepting \/ ~Current("reconcile")
           THEN Leave("reconcile", "release")
           ELSE SetThread("reconcile",
                  [r EXCEPT !.pc = IF r.overlap THEN "gap" ELSE "load",
                            !.durable = DurableHead(r.head),
                            !.target = IF r.refresh THEN r.head ELSE DurableHead(r.head)])
        /\ UNCHANGED <<envVars, cursor, ls, queueVars, stopper, budget, historyVars>>

report_reconciliation_failure ==
    /\ scan["reconcile"].pc = "report"
    /\ ls' = [ls EXCEPT !.overlap = @ \/ (/\ ls.accepting /\ Current("reconcile")
                                          /\ scan["reconcile"].overlap)]
    /\ Goto("reconcile", "release")
    /\ UNCHANGED <<envVars, cursor, queueVars, stopper, budget, historyVars>>

(* Mutant: reconciliation_active is never cleared. *)
ReconcileNeverReleases ==
    /\ scan["reconcile"].pc = "release"
    /\ Leave("reconcile", "idle")
    /\ UNCHANGED <<envVars, cursor, ls, queueVars, stopper, budget, historyVars>>

(* The end of a pass releases live deliveries unless more work is pending. *)
ReconcileRelease ==
    /\ scan["reconcile"].pc = "release"
    /\ ls' = [ls EXCEPT !.active = @ /\ (ls.pendingHead # NoHead \/ ls.refresh \/ ls.overlap)]
    /\ Leave("reconcile", "idle")
    /\ UNCHANGED <<envVars, cursor, queueVars, stopper, budget, historyVars>>

-----------------------------------------------------------------------------
(* Calls of the user thread.                                               *)

catch_up ==
    /\ scan["user"].pc = "idle" /\ (CatchUpWhileLive \/ ~ls.accepting)
    /\ UserCall
    /\ SetThread("user", [IdleThread EXCEPT !.pc = "load", !.call = "catch_up",
                       !.gen = ls.generation, !.target = DurableHead(chain.head),
                       !.durable = DurableHead(chain.head)])
    /\ UNCHANGED <<envVars, cursor, ls, queueVars, stopper, historyVars>>

(* start_live, first critical section. *)
start_live ==
    /\ scan["user"].pc = "idle" /\ ~ls.started
    /\ UserCall
    /\ ls' = [ls EXCEPT !.generation = @ + 1, !.accepting = TRUE, !.buffering = TRUE,
                        !.buffered = <<>>, !.bufferedHead = NoHead, !.refresh = FALSE,
                        !.overlap = FALSE, !.handoffGap = FALSE]
    /\ SetThread("user", [IdleThread EXCEPT !.pc = "subscribe", !.call = "start_live",
                                     !.gen = ls.generation + 1])
    /\ flags' = [flags EXCEPT !.quiet = FALSE]
    /\ UNCHANGED <<envVars, cursor, queueVars, stopper, ever, view, skipped>>

(* start_logs returns once the subscription is active, or fails. *)
Subscribe ==
    /\ scan["user"].pc = "subscribe"
    /\ \/ /\ link' = [state |-> "up", gen |-> scan["user"].gen, heads |-> {}]
          /\ Goto("user", "boundary")
          /\ UNCHANGED budget
       \/ /\ Failure /\ Goto("user", "abort")
          /\ UNCHANGED link
    /\ stream' = <<>>
    /\ UNCHANGED <<chain, cursor, ls, queueVars, stopper, historyVars>>

(* The head is read after the subscription became active. *)
CaptureBoundary ==
    /\ scan["user"].pc = "boundary"
    /\ SetThread("user", [scan["user"] EXCEPT !.pc = "load", !.target = chain.head,
                            !.durable = DurableHead(chain.head)])
    /\ UNCHANGED <<envVars, cursor, ls, queueVars, stopper, budget, historyVars>>

Handoff ==
    /\ scan["user"].pc = "handoff"
    /\ IF Current("user") THEN Goto("user", "drain") ELSE Leave("user", "idle")
    /\ UNCHANGED <<envVars, cursor, ls, queueVars, stopper, budget, historyVars>>

(* drain_live_buffer, its critical section. *)
drain_live_buffer ==
    /\ scan["user"].pc = "drain"
    /\ \/ /\ ls.handoffGap
          /\ ls' = [ls EXCEPT !.handoffGap = FALSE, !.buffered = <<>>]
          /\ Goto("user", "gaphead")
          /\ UNCHANGED hist
       \/ /\ ~ls.handoffGap /\ ls.buffered # <<>>
          /\ hist' = hist \o [i \in 1..Len(ls.buffered) |->
                [log |-> ls.buffered[i].log, removed |-> ls.buffered[i].removed,
                 live |-> TRUE, gen |-> scan["user"].gen,
                 waiter |-> IF i = Len(ls.buffered) THEN "user" ELSE "none"]]
          /\ ls' = [ls EXCEPT !.buffered = <<>>]
          /\ SetThread("user", [scan["user"] EXCEPT !.pc = "drainwait", !.result = "none"])
       \/ /\ ~ls.handoffGap /\ ls.buffered = <<>>
          /\ ls' = [ls EXCEPT !.buffering = FALSE, !.bufferedHead = NoHead]
          /\ SetThread("user", [scan["user"] EXCEPT !.pc = "head", !.head = ls.bufferedHead])
          /\ UNCHANGED hist
    /\ UNCHANGED <<envVars, cursor, liveq, delivered, worker, stopper, budget, historyVars>>

(* The recover_gap branch reads the head and runs reconcile_gap. *)
DrainGap ==
    /\ scan["user"].pc = "gaphead"
    /\ SetThread("user", [scan["user"] EXCEPT !.pc = "gap", !.call = "drain",
                   !.overlap = TRUE, !.target = chain.head,
                   !.durable = DurableHead(chain.head)])
    /\ UNCHANGED <<envVars, cursor, ls, queueVars, stopper, budget, historyVars>>

DrainWait ==
    /\ scan["user"].pc = "drainwait" /\ scan["user"].result # "none"
    /\ Goto("user", IF scan["user"].result = "failed" THEN "abort" ELSE "drain")
    /\ UNCHANGED <<envVars, cursor, ls, queueVars, stopper, budget, historyVars>>

(* drain_live_buffer replays the buffered head ... *)
ReplayHead ==
    /\ scan["user"].pc = "head"
    /\ ls' = IF scan["user"].head = NoHead THEN ls
             ELSE HeadNoted(ls, scan["user"].head, scan["user"].gen)
    /\ Goto("user", "finish")
    /\ UNCHANGED <<envVars, cursor, queueVars, stopper, budget, historyVars>>

(* ... and start_live returns. *)
StartLiveReturns ==
    /\ scan["user"].pc = "finish"
    /\ ls' = [ls EXCEPT !.started = @ \/ (ls.accepting /\ Current("user"))]
    /\ Leave("user", "idle")
    /\ UNCHANGED <<envVars, cursor, queueVars, stopper, budget, historyVars>>

Idled(s) ==
    [s EXCEPT !.accepting = FALSE, !.buffering = FALSE, !.started = FALSE,
              !.buffered = <<>>, !.bufferedHead = NoHead, !.pendingHead = NoHead,
              !.refresh = FALSE, !.overlap = FALSE, !.handoffGap = FALSE]

(* The failure branches of start_live. *)
StartLiveAborts ==
    /\ scan["user"].pc = "abort"
    /\ link' = [link EXCEPT !.state = "off", !.heads = {}]
    /\ stream' = <<>>
    /\ ls' = Idled(ls)
    /\ Leave("user", "idle")
    /\ UNCHANGED <<chain, cursor, queueVars, stopper, budget, historyVars>>

-----------------------------------------------------------------------------
(* stop, called from a thread that is neither worker.                      *)

StopSignal ==
    /\ stopper = "idle" /\ budget.stops < MaxStops
    /\ budget' = [budget EXCEPT !.stops = @ + 1]
    /\ ls' = [Idled(ls) EXCEPT !.generation = @ + 1]
    /\ stopper' = "transport"
    /\ UNCHANGED <<envVars, cursor, queueVars, scan, historyVars>>

StopTransport ==
    /\ stopper = "transport"
    /\ link' = [link EXCEPT !.state = "off", !.heads = {}]
    /\ stream' = <<>>
    /\ stopper' = "join"
    /\ UNCHANGED <<chain, cursor, ls, queueVars, scan, budget, historyVars>>

(* Mutant: stop does not pass through reconcile_mutex. *)
StopReturnAtOnce ==
    /\ stopper = "join"
    /\ stopper' = "idle"
    /\ flags' = [flags EXCEPT !.quiet = ~ls.accepting]
    /\ UNCHANGED <<envVars, cursor, ls, queueVars, scan, budget, ever, view, skipped>>

(* stop returns after passing through reconcile_mutex. *)
StopReturn ==
    /\ stopper = "join" /\ ~ReconcileMutexHeld
    /\ stopper' = "idle"
    /\ flags' = [flags EXCEPT !.quiet = ~ls.accepting]
    /\ UNCHANGED <<envVars, cursor, ls, queueVars, scan, budget, ever, view, skipped>>

(* The process dies: only the cursor file and what callbacks did survive. *)
Crash ==
    /\ budget.crashes < MaxCrashes
    /\ budget' = [budget EXCEPT !.crashes = @ + 1]
    /\ link' = NoLink
    /\ stream' = <<>>
    /\ ls' = InitialLiveState
    /\ hist' = <<>> /\ liveq' = <<>> /\ delivered' = {}
    /\ worker' = IdleWorker
    /\ scan' = [t \in Threads |-> IdleThread]
    /\ stopper' = "idle"
    /\ view' = {}
    /\ flags' = InitialFlags
    /\ UNCHANGED <<chain, cursor, ever, skipped>>

-----------------------------------------------------------------------------
ScanStep(t) ==
    \/ LoadCursor(t) \/ reconcile_gap(t) \/ FetchRange(t) \/ ComputeOrphans(t)
    \/ NextLog(t) \/ DispatchReturns(t) \/ save_log_checkpoint(t) \/ save_checkpoint(t)
ReconcileStep ==
    \/ ReconcileWake \/ RefreshHead \/ reconcile_confirmed
    \/ report_reconciliation_failure \/ ReconcileRelease
WorkerStep ==
    \/ PopHistorical \/ PopLive \/ EmitRewind \/ EmitAdmit
    \/ CallbackReturns \/ schedule_overlap_recovery
StartStep ==
    \/ Subscribe \/ CaptureBoundary \/ Handoff \/ drain_live_buffer \/ DrainGap
    \/ DrainWait \/ ReplayHead \/ StartLiveReturns \/ StartLiveAborts
Environment ==
    \/ Mine \/ (\E b \in Blocks : Reorg(b)) \/ Disconnect \/ Resubscribed
    \/ StreamGap \/ LiveError \/ (\E h \in Blocks : handle_live_head(h))
    \/ handle_live_log

Next ==
    \/ Environment \/ WorkerStep \/ CallbackThrows
    \/ (\E t \in Threads : ScanStep(t) \/ CallThrows(t))
    \/ ReconcileStep \/ StartStep
    \/ catch_up \/ start_live \/ StopSignal \/ StopTransport \/ StopReturn \/ Crash

Spec == Init /\ [][Next]_vars

(* The threads, the callbacks and the transport's reconnection make progress;
   the chain, failures and user calls need not. *)
Fairness ==
    /\ WF_vars(WorkerStep) /\ WF_vars(ReconcileStep) /\ WF_vars(StartStep)
    /\ \A t \in Threads : WF_vars(ScanStep(t))
    /\ WF_vars(handle_live_log) /\ WF_vars(\E h \in Blocks : handle_live_head(h))
    /\ WF_vars(StreamGap) /\ WF_vars(Resubscribed)
    /\ WF_vars(StopTransport) /\ WF_vars(StopReturn)

FairSpec == Spec /\ Fairness

-----------------------------------------------------------------------------
(* Properties.                                                             *)

LogRecords  == [block : Blocks, fork : Nat, index : Indexes]
MaybeLog    == LogRecords \cup {NoLog}
MaybeHead   == Blocks \cup {NoHead}
NoteRecords == [log : LogRecords, removed : BOOLEAN]
JobRecords  == [log : LogRecords, removed : BOOLEAN, live : BOOLEAN, gen : Nat,
                waiter : Threads \cup {"none"}]
Cursors     == [block : MaybeHead, complete : BOOLEAN, last : MaybeLog]
LiveStates  ==
    [accepting : BOOLEAN, buffering : BOOLEAN, started : BOOLEAN,
     bufferedHead : MaybeHead, pendingHead : MaybeHead, refresh : BOOLEAN,
     overlap : BOOLEAN, handoffGap : BOOLEAN, active : BOOLEAN,
     generation : Nat, pendingGen : Nat, buffered : Seq(NoteRecords)]
Pcs == ScanPcs \cup
    {"idle", "subscribe", "boundary", "handoff", "drain", "gaphead", "drainwait",
     "head", "finish", "abort", "refresh", "confirm", "report", "release"}
ThreadStates ==
    [pc : Pcs, call : {"none", "catch_up", "start_live", "drain"}, gen : Nat,
     head : MaybeHead, refresh : BOOLEAN, overlap : BOOLEAN,
     next : 0..(MaxBlock + 1), to : Blocks, target : Blocks, durable : Blocks,
     resume : Cursors, orphans : SUBSET LogRecords, todo : SUBSET LogRecords,
     log : MaybeLog, removed : BOOLEAN, result : {"none", "true", "false", "failed"}]
WorkerStates ==
    [pc : {"idle", "rewind", "admit", "callback", "recover"},
     job : JobRecords \cup {NoJob}, held : BOOLEAN]

Chains  == [head : Blocks, fork : [Blocks -> Nat], forks : Nat]
Links   == [state : {"off", "up", "lost", "down", "resubscribing"},
            gen : Nat, heads : SUBSET Blocks]
Budgets == [gaps : Nat, calls : Nat, stops : Nat, crashes : Nat, throws : Nat,
            failures : Nat]
Flags   == [quiet : BOOLEAN, unseen : BOOLEAN, stale : BOOLEAN, missed : MaybeHead]

(* Type invariant: every field of the shared state, the queues and the
   threads' locals keeps its type. *)
TypeOK ==
    /\ chain \in Chains /\ link \in Links /\ stream \in Seq(NoteRecords)
    /\ cursor \in Cursors /\ ls \in LiveStates
    /\ hist \in Seq(JobRecords) /\ liveq \in Seq(JobRecords)
    /\ delivered \subseteq LogRecords
    /\ worker \in WorkerStates
    /\ scan \in [Threads -> ThreadStates]
    /\ stopper \in {"idle", "transport", "join"} /\ budget \in Budgets
    /\ ever \subseteq LogRecords /\ view \subseteq LogRecords
    /\ skipped \subseteq Blocks /\ flags \in Flags

(* All logs of one version of block b were accepted by the callback. *)
Covered(b) == \E f \in 0..chain.forks : \A i \in Indexes : LogAt(b, f, i) \in ever

(* The cursor never claims a block whose logs no callback accepted, whatever
   the interleaving of catch_up, reconciliation, stop, crashes, store and
   callback failures; the only blocks it may step over are those below the
   overlap window of a gap recovery (reconcile_gap).  A partial cursor claims
   exactly a delivered prefix of its block. *)
CursorCovers ==
    /\ \A b \in StartBlock..MaxBlock :
          Passed(cursor, b) => Covered(b) \/ b \in skipped
    /\ cursor.last # NoLog =>
          \A i \in 1..cursor.last.index :
              LogAt(cursor.last.block, cursor.last.fork, i) \in ever

(* docs/polygon-indexing.md: "Indexer delivery is at-least-once across process
   restarts": no block is passed without its logs, gap recoveries included. *)
AtLeastOnce == \A b \in StartBlock..MaxBlock : Passed(cursor, b) => Covered(b)

(* Once stop() has returned and until the next start_live, the reconciliation
   worker is in no scan: it neither fetches nor moves the cursor. *)
QuietAfterStop == flags.quiet => ~ReconcileMutexHeld

(* Nothing is left to do for a live session. *)
Quiescent ==
    /\ ls.started /\ link.state = "up" /\ stream = <<>> /\ link.heads = {}
    /\ hist = <<>> /\ liveq = <<>> /\ worker.pc = "idle"
    /\ \A t \in Threads : scan[t].pc = "idle"
    /\ ls.pendingHead = NoHead /\ ~ls.refresh /\ ~ls.overlap /\ ~ls.active

(* When a live session comes to rest the consumer's additions minus
   retractions are exactly the canonical logs: handoff, deduplication, removal
   notices and gap recovery lose and leave behind nothing.  Excepted are a
   reorganisation that no removal notice and no gap scan can reveal, because
   there was no subscription (flags.unseen) or a stale log outlived the scan
   (flags.stale), and a block mined between the gap report and the resubscription until a
   later head confirms it (flags.missed). *)
ViewMatchesChain ==
    Quiescent /\ ~flags.unseen /\ ~flags.stale /\ flags.missed = NoHead => view = CanonicalLogs(StartBlock, chain.head)

(* tests/evm_gap_reorg_tests.hpp: "gap overlap must retract an orphan and
   deliver its replacement": a session at rest shows no log of an abandoned
   fork when every reorganisation was followed by a removal notice or by a
   gap scan. *)
GapRetractsOrphans ==
    Quiescent /\ ~flags.unseen => view \subseteq CanonicalLogs(StartBlock, chain.head)

(* A live session always comes to rest, after whatever gaps, overflows and
   callback exceptions: every queued live log is released and every overlap
   recovery completes, unless the session is stopped.  A stop() that overlaps
   the next start_live may also stop the transport of the new session. *)
Settles == ls.started ~> (Quiescent \/ ~ls.started \/ link.state = "off")

(* start_live and stop always return: the handoff loop terminates, and no
   thread waits for a delivery that will not happen. *)
CallsReturn ==
    /\ scan["user"].pc # "idle" ~> scan["user"].pc = "idle"
    /\ stopper # "idle" ~> stopper = "idle"
=============================================================================
