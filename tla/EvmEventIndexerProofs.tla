------------------------ MODULE EvmEventIndexerProofs ------------------------
(***************************************************************************)
(* Machine-checked theorems about EvmEventIndexer.                         *)
(*                                                                         *)
(* Type correctness, that stop() silences the reconciliation worker, and   *)
(* that the persisted cursor claims no undelivered block.                  *)
(* TypeOK is not inductive: a scan computes its first block from the       *)
(* cursor, a rewind takes the block of the worker's job, and a confirmed   *)
(* pass subtracts from the head it was woken with, so TypeInv says in      *)
(* addition that each of these has a value whenever it is used.            *)
(***************************************************************************)
EXTENDS EvmEventIndexer, TLAPS

-----------------------------------------------------------------------------
(* The inductive type invariant.                                           *)

(* The locals that are in use have values. *)
UsableThreads ==
    {r \in ThreadStates :
        /\ r.pc = "confirm" => r.head # NoHead
        /\ r.pc \in {"wait", "save"} => r.log \in LogRecords}
UsableWorkers == {w \in WorkerStates : w.pc # "idle" => w.job \in JobRecords}
UsableCursors == {c \in Cursors : c.block = NoHead => c = NoCursor}

TypeInv ==
    /\ TypeOK /\ cursor \in UsableCursors /\ worker \in UsableWorkers
    /\ scan \in [Threads -> UsableThreads]

-----------------------------------------------------------------------------
(* What a subscription delivers for a range of blocks is a sequence of notes. *)
LEMMA NotesType ==
    ASSUME NEW from \in Blocks, NEW to \in Blocks, from <= to,
           NEW fork \in [Blocks -> Nat], NEW removed \in BOOLEAN
    PROVE  Notes(from, to, fork, removed) \in Seq(NoteRecords)
<1> DEFINE L == LogsPerBlock
           n == to - from + 1
<1>1. L \in Nat \ {0} /\ n \in Nat /\ MaxBlock \in Nat
  BY ConfigAssumption DEF Blocks
<1>2. n * L \in Nat
  BY <1>1
<1>3. ASSUME NEW i \in 1..(n * L)
      PROVE  /\ (i - 1) \div L \in 0..(n - 1)
             /\ (i - 1) % L \in 0..(L - 1)
  BY <1>1, <1>2, <1>3
<1>4. ASSUME NEW i \in 1..(n * L)
      PROVE  [log |-> LogAt(from + ((i - 1) \div L), fork[from + ((i - 1) \div L)],
                       1 + ((i - 1) % L)), removed |-> removed] \in NoteRecords
  <2>1. from + ((i - 1) \div L) \in Blocks
    BY <1>1, <1>3, <1>4 DEF Blocks
  <2>2. 1 + ((i - 1) % L) \in Indexes
    BY <1>1, <1>3, <1>4 DEF Indexes
  <2> HIDE DEF L
  <2> QED BY <2>1, <2>2 DEF NoteRecords, LogRecords, LogAt
<1> QED BY <1>2, <1>4 DEF Notes

-----------------------------------------------------------------------------
(* Type correctness.                                                       *)

(* The empty sequence has every sequence type. *)
LEMMA EmptySeq == ASSUME NEW S PROVE <<>> \in Seq(S)
OBVIOUS

(* The constants and the special values have their types. *)
LEMMA ConstantTypes ==
    /\ MaxBlock \in Nat /\ StartBlock \in Blocks /\ 0 \in Blocks
    /\ Lookback \in Nat /\ BatchSize \in Nat /\ BatchSize > 0 /\ Confirmations \in Nat
    /\ NoHead \in MaybeHead /\ Blocks \subseteq MaybeHead /\ Blocks \subseteq Nat
    /\ NoLog \in MaybeLog /\ LogRecords \subseteq MaybeLog
  BY ConfigAssumption DEF Blocks, MaybeHead, MaybeLog

(* The cursors the code writes are usable cursors. *)
LEMMA CursorTypes ==
    /\ NoCursor \in UsableCursors
    /\ \A b \in Blocks, c \in BOOLEAN, l \in MaybeLog :
          [block |-> b, complete |-> c, last |-> l] \in UsableCursors
<1>1. NoCursor \in UsableCursors
  <2>1. NoCursor = [block |-> NoHead, complete |-> TRUE, last |-> NoLog]
    BY DEF NoCursor, NoHead
  <2> QED BY <2>1, ConstantTypes DEF Cursors, UsableCursors
<1>2. ASSUME NEW b \in Blocks, NEW c \in BOOLEAN, NEW l \in MaybeLog
      PROVE  [block |-> b, complete |-> c, last |-> l] \in UsableCursors
  <2>1. [block |-> b, complete |-> c, last |-> l] \in Cursors
    BY ConstantTypes DEF Cursors
  <2>2. b # NoHead
    BY ConstantTypes DEF NoHead
  <2> QED BY <2>1, <2>2 DEF UsableCursors
<1> QED BY <1>1, <1>2

(* A thread that runs nothing is usable. *)
LEMMA IdleThreadType == IdleThread \in UsableThreads
<1>1. NoCursor \in Cursors /\ NoLog \in MaybeLog /\ NoHead \in MaybeHead
      /\ 0 \in Blocks /\ 0 \in 0..(MaxBlock + 1) /\ "idle" \in Pcs
  BY ConstantTypes, CursorTypes DEF Pcs, UsableCursors
<1>2. IdleThread \in ThreadStates /\ IdleThread.pc = "idle"
  BY <1>1 DEF IdleThread, ThreadStates
<1> QED BY <1>2 DEF UsableThreads

(* An idle delivery worker is usable. *)
LEMMA IdleWorkerType == IdleWorker \in UsableWorkers
BY DEF IdleWorker, WorkerStates, UsableWorkers

(* What a step of one thread does to scan. *)
LEMMA SetThreadType ==
    ASSUME scan \in [Threads -> UsableThreads], NEW t \in Threads,
           NEW r \in UsableThreads, SetThread(t, r)
    PROVE  /\ scan' \in [Threads -> UsableThreads] /\ scan'[t] = r
           /\ \A u \in Threads : u # t => scan'[u] = scan[u]
BY DEF SetThread

(* A jump that keeps the locals. *)
LEMMA GotoType ==
    ASSUME scan \in [Threads -> UsableThreads], NEW t \in Threads,
           NEW pc \in Pcs \ {"confirm"},
           pc \in {"wait", "save"} => scan[t].log \in LogRecords, Goto(t, pc)
    PROVE  scan' \in [Threads -> UsableThreads]
<1>1. scan[t] \in ThreadStates
  BY DEF UsableThreads
<1>2. /\ [scan[t] EXCEPT !.pc = pc] \in ThreadStates
      /\ [scan[t] EXCEPT !.pc = pc].pc = pc /\ [scan[t] EXCEPT !.pc = pc].log = scan[t].log
  BY <1>1 DEF ThreadStates
<1>3. [scan[t] EXCEPT !.pc = pc] \in UsableThreads
  BY <1>2 DEF UsableThreads
<1> QED BY <1>3, SetThreadType DEF Goto

(* The end of a scan or call. *)
LEMMA LeaveType ==
    ASSUME scan \in [Threads -> UsableThreads], NEW t \in Threads,
           NEW pc \in Pcs \ {"confirm", "wait", "save"}, Leave(t, pc)
    PROVE  scan' \in [Threads -> UsableThreads]
<1>1. scan[t] \in ThreadStates /\ IdleThread \in ThreadStates
  BY IdleThreadType DEF UsableThreads
<1>2. /\ scan[t].call \in {"none", "catch_up", "start_live", "drain"}
      /\ scan[t].gen \in Nat /\ scan[t].overlap \in BOOLEAN
  BY <1>1 DEF ThreadStates
<1> DEFINE r == [IdleThread EXCEPT !.pc = pc, !.call = scan[t].call,
                         !.gen = scan[t].gen, !.overlap = scan[t].overlap]
<1>3. r \in ThreadStates /\ r.pc = pc
  BY <1>1, <1>2 DEF ThreadStates
<1>4. r \in UsableThreads
  BY <1>3 DEF UsableThreads
<1> QED BY <1>4, IdleThreadType, SetThreadType DEF Leave

(* finish_delivery sets only the result of the waiter. *)
LEMMA FinishType ==
    ASSUME scan \in [Threads -> UsableThreads], NEW job \in JobRecords,
           NEW x \in {"none", "true", "false", "failed"}, Finish(job, x)
    PROVE  scan' \in [Threads -> UsableThreads]
<1>1. CASE job.waiter = "none"
  BY <1>1 DEF Finish
<1>2. CASE job.waiter # "none"
  <2> DEFINE w == job.waiter
             r == [scan[w] EXCEPT !.result = x]
  <2>1. w \in Threads
    BY <1>2 DEF JobRecords
  <2>2. scan[w] \in UsableThreads /\ scan[w] \in ThreadStates
    BY <2>1 DEF UsableThreads
  <2>3. /\ r \in ThreadStates
        /\ r.pc = scan[w].pc /\ r.head = scan[w].head /\ r.log = scan[w].log
    BY <2>2 DEF ThreadStates
  <2>4. r \in UsableThreads
    BY <2>2, <2>3 DEF UsableThreads
  <2> QED BY <1>2, <2>1, <2>4 DEF Finish
<1> QED BY <1>1, <1>2

(* Returns and exceptions of a scan end outside it. *)
LEMMA ReturnPcs ==
    ASSUME NEW t \in Threads
    PROVE  /\ ReturnPc(t) \in Pcs \ {"confirm", "wait", "save"}
           /\ ThrowPc(t) \in Pcs \ {"confirm", "wait", "save"}
BY DEF ReturnPc, ThrowPc, Pcs

(* The guarded subtraction of confirmations stays on the chain. *)
LEMMA DurableHeadType ==
    ASSUME NEW h \in Blocks PROVE DurableHead(h) \in Blocks /\ DurableHead(h) <= h
BY ConfigAssumption DEF DurableHead, Blocks

(* stop and a failed start_live reset LiveState to legal values. *)
LEMMA IdledType == ASSUME ls \in LiveStates PROVE Idled(ls) \in LiveStates
<1>1. <<>> \in Seq(NoteRecords) /\ NoHead \in MaybeHead
  BY EmptySeq, ConstantTypes
<1> QED BY <1>1 DEF LiveStates, Idled

(* handle_live_head keeps the type of LiveState. *)
LEMMA HeadNotedType ==
    ASSUME NEW s \in LiveStates, NEW h \in Blocks, NEW g \in Nat
    PROVE  HeadNoted(s, h, g) \in LiveStates
<1>1. s.bufferedHead \in MaybeHead /\ s.pendingHead \in MaybeHead
  BY DEF LiveStates
<1>2. Max2(s.bufferedHead, h) \in MaybeHead /\ Max2(s.pendingHead, h) \in MaybeHead
  BY <1>1, ConstantTypes DEF Max2
<1> QED BY <1>2 DEF HeadNoted, LiveStates

(* Concatenation keeps the type of a sequence. *)
LEMMA ConcatType ==
    ASSUME NEW S, NEW a \in Seq(S), NEW b \in Seq(S) PROVE (a \o b) \in Seq(S)
OBVIOUS

(* The initial state satisfies the invariant. *)
LEMMA TypeInit == Init => TypeInv
<1> SUFFICES ASSUME Init PROVE TypeInv
  OBVIOUS
<1>1. chain \in Chains
  <2>1. chain = [head |-> StartBlock, fork |-> [b \in Blocks |-> 0], forks |-> 0]
    BY DEF Init
  <2> QED BY <2>1, ConstantTypes DEF Chains
<1>2. link \in Links
  BY DEF Init, NoLink, Links
<1>3. cursor \in UsableCursors /\ cursor \in Cursors
  BY CursorTypes DEF Init, UsableCursors
<1>4. ls \in LiveStates
  <2>1. ls = InitialLiveState
    BY DEF Init
  <2> QED BY <2>1, EmptySeq, ConstantTypes DEF InitialLiveState, LiveStates
<1>5. worker \in UsableWorkers /\ worker \in WorkerStates
  BY IdleWorkerType DEF Init, UsableWorkers
<1>6. scan \in [Threads -> UsableThreads] /\ scan \in [Threads -> ThreadStates]
  BY IdleThreadType DEF Init, UsableThreads
<1>7. budget \in Budgets /\ flags \in Flags
  <2>1. budget = [gaps |-> 0, calls |-> 0, stops |-> 0, crashes |-> 0,
                  throws |-> 0, failures |-> 0]
        /\ flags = InitialFlags
    BY DEF Init
  <2> QED BY <2>1, ConstantTypes DEF Budgets, Flags, InitialFlags
<1> QED BY <1>1, <1>2, <1>3, <1>4, <1>5, <1>6, <1>7, EmptySeq DEF Init, TypeOK, TypeInv

(* The store operations keep the cursor a cursor. *)
LEMMA StoreTypes ==
    ASSUME cursor \in UsableCursors
    PROVE  /\ \A next \in UsableCursors : SaveCursor(next) \in UsableCursors
           /\ \A b \in Blocks : RewindCursor(b) \in UsableCursors
<1>1. ASSUME NEW next \in UsableCursors PROVE SaveCursor(next) \in UsableCursors
  BY DEF SaveCursor
<1>2. ASSUME NEW b \in Blocks PROVE RewindCursor(b) \in UsableCursors
  <2>1. [block |-> b, complete |-> FALSE, last |-> NoLog] \in UsableCursors
    BY CursorTypes, ConstantTypes
  <2> QED BY <2>1 DEF RewindCursor
<1> QED BY <1>1, <1>2

(* The event counters stay natural numbers. *)
LEMMA FailureType ==
    ASSUME budget \in Budgets
    PROVE  (Failure \/ UserCall \/ UNCHANGED budget) => budget' \in Budgets
BY DEF Failure, UserCall, Budgets

(* handle_live_error keeps the type of LiveState. *)
LEMMA ErrorNotedType ==
    ASSUME ls \in LiveStates, link \in Links, NEW gap \in BOOLEAN
    PROVE  ErrorNoted(gap) \in LiveStates
<1>1. link.gen \in Nat /\ <<>> \in Seq(NoteRecords) /\ ls.overlap \in BOOLEAN
  BY EmptySeq DEF Links, LiveStates
<1>2. (ls.overlap \/ gap) \in BOOLEAN
  OBVIOUS
<1>3. [ls EXCEPT !.buffered = <<>>, !.handoffGap = TRUE, !.pendingGen = link.gen] \in LiveStates
  BY <1>1 DEF LiveStates
<1>4. [ls EXCEPT !.refresh = TRUE, !.overlap = @ \/ gap, !.pendingGen = link.gen] \in LiveStates
  BY <1>1, <1>2 DEF LiveStates
<1> QED BY <1>3, <1>4 DEF ErrorNoted

(* The external steps. *)
LEMMA EnvironmentTypes ==
    ASSUME TypeOK, Environment PROVE TypeOK'
<1>0. /\ chain \in Chains /\ link \in Links /\ stream \in Seq(NoteRecords)
      /\ ls \in LiveStates /\ liveq \in Seq(JobRecords) /\ budget \in Budgets
      /\ flags \in Flags
  BY DEF TypeOK
<1>f. /\ chain.head \in Blocks /\ chain.fork \in [Blocks -> Nat] /\ chain.forks \in Nat
      /\ link.gen \in Nat /\ link.heads \subseteq Blocks
  BY <1>0 DEF Chains, Links
<1>p. ASSUME NEW notes \in Seq(NoteRecords), NEW heads \in SUBSET Blocks,
             Publish(notes, heads)
      PROVE  stream' \in Seq(NoteRecords) /\ link' \in Links
  <2>1. (stream \o notes) \in Seq(NoteRecords)
    BY <1>0, <1>p, ConcatType
  <2>2. [link EXCEPT !.heads = @ \cup heads] \in Links
    BY <1>0, <1>f, <1>p DEF Links
  <2> QED BY <1>p, <1>0, <2>1, <2>2 DEF Publish
<1>1. CASE Mine
  <2> DEFINE b == chain.head + 1
             f == [chain.fork EXCEPT ![b] = chain.forks]
  <2>1. b \in Blocks
    BY <1>1, <1>f, ConstantTypes DEF Mine, Blocks
  <2>2. f \in [Blocks -> Nat]
    BY <2>1, <1>f
  <2>3. chain' = [chain EXCEPT !.head = b, !.fork = f]
    BY <1>1, <1>0 DEF Mine, Chains
  <2>4. chain' \in Chains /\ chain'.fork = f
    BY <2>1, <2>2, <2>3, <1>0 DEF Chains
  <2>5. Publish(Notes(b, b, chain'.fork, FALSE), {b})
    BY <1>1 DEF Mine
  <2>6. stream' \in Seq(NoteRecords) /\ link' \in Links
    <3>1. Notes(b, b, chain'.fork, FALSE) \in Seq(NoteRecords)
      <4>1. b <= b
        BY <2>1 DEF Blocks
      <4> HIDE DEF b, f
      <4> QED BY <2>1, <2>2, <2>4, <4>1, NotesType
    <3>2. {b} \in SUBSET Blocks
      BY <2>1
    <3> HIDE DEF b, f
    <3> QED BY <2>5, <3>1, <3>2, <1>p
  <2>7. flags' \in Flags
    <3>1. \E m \in MaybeHead : flags' = [flags EXCEPT !.missed = m]
      <4>1. flags.missed \in MaybeHead
        BY <1>0 DEF Flags
      <4> QED BY <1>1, <2>1, <4>1, ConstantTypes DEF Mine
    <3> QED BY <3>1, <1>0 DEF Flags
  <2> QED BY <1>1, <2>4, <2>6, <2>7 DEF Mine, TypeOK, queueVars
<1>2. ASSUME NEW b \in Blocks, Reorg(b) PROVE TypeOK'
  <2> DEFINE f == [c \in Blocks |-> IF c >= b THEN chain.forks + 1 ELSE chain.fork[c]]
  <2>1. f \in [Blocks -> Nat] /\ b <= chain.head
    BY <1>2, <1>f DEF Reorg
  <2>2. chain' = [chain EXCEPT !.fork = f, !.forks = @ + 1]
    BY <1>2 DEF Reorg
  <2>3. chain' \in Chains
    BY <2>1, <2>2, <1>0 DEF Chains
  <2>4. Publish(Notes(b, chain.head, chain.fork, TRUE) \o Notes(b, chain.head, f, FALSE),
                {chain.head})
    BY <1>2 DEF Reorg
  <2>5. /\ Notes(b, chain.head, chain.fork, TRUE) \in Seq(NoteRecords)
        /\ Notes(b, chain.head, f, FALSE) \in Seq(NoteRecords)
    BY <2>1, <1>f, NotesType
  <2>6. (Notes(b, chain.head, chain.fork, TRUE) \o Notes(b, chain.head, f, FALSE))
            \in Seq(NoteRecords)
    BY <2>5, ConcatType
  <2>7. stream' \in Seq(NoteRecords) /\ link' \in Links
    BY <2>4, <2>6, <1>f, <1>p, ConstantTypes
  <2>8. flags' \in Flags
    BY <1>2, <1>0 DEF Reorg, Flags
  <2> QED BY <1>2, <2>3, <2>7, <2>8 DEF Reorg, TypeOK, queueVars
<1>3. CASE Disconnect
  <2>1. link' \in Links
    BY <1>3, <1>0 DEF Disconnect, Links
  <2>2. budget' \in Budgets
    BY <1>3, <1>0 DEF Disconnect, Budgets
  <2> QED BY <1>3, <2>1, <2>2, EmptySeq DEF Disconnect, TypeOK, queueVars, historyVars
<1>4. CASE Resubscribed
  <2>1. link' \in Links
    BY <1>4, <1>0 DEF Resubscribed, Links
  <2> QED BY <1>4, <2>1 DEF Resubscribed, TypeOK, queueVars, historyVars
<1>5. CASE StreamGap
  <2>1. link' \in Links
    BY <1>5, <1>0 DEF StreamGap, Links
  <2>2. ls' \in LiveStates
    BY <1>5, <1>0, ErrorNotedType DEF StreamGap
  <2> QED BY <1>5, <2>1, <2>2 DEF StreamGap, TypeOK, queueVars, historyVars
<1>6. CASE LiveError
  <2>1. ls' \in LiveStates /\ budget' \in Budgets
    BY <1>6, <1>0, ErrorNotedType, FailureType DEF LiveError
  <2> QED BY <1>6, <2>1 DEF LiveError, TypeOK, envVars, queueVars, historyVars
<1>7. ASSUME NEW h \in Blocks, handle_live_head(h) PROVE TypeOK'
  <2>1. link' \in Links
    BY <1>7, <1>0, <1>f DEF handle_live_head, Links
  <2>2. ls' \in LiveStates
    BY <1>7, <1>0, <1>f, HeadNotedType DEF handle_live_head
  <2> QED BY <1>7, <2>1, <2>2 DEF handle_live_head, TypeOK, queueVars, historyVars
<1>8. CASE handle_live_log
  <2>1. stream' \in Seq(NoteRecords) /\ Head(stream) \in NoteRecords
    BY <1>8, <1>0 DEF handle_live_log
  <2> DEFINE note == Head(stream)
             job  == [log |-> note.log, removed |-> note.removed, live |-> TRUE,
                      gen |-> link.gen, waiter |-> "none"]
  <2>2. job \in JobRecords
    BY <2>1, <1>f DEF NoteRecords, JobRecords
  <2>3. liveq' \in Seq(JobRecords)
    <3>1. Append(liveq, job) \in Seq(JobRecords)
      BY <2>2, <1>0
    <3> QED BY <1>8, <1>0, <3>1, EmptySeq DEF handle_live_log
  <2>4. ls' \in LiveStates
    <3>1. ls.buffered \in Seq(NoteRecords)
      BY <1>0 DEF LiveStates
    <3>2. Append(ls.buffered, note) \in Seq(NoteRecords)
      BY <2>1, <3>1
    <3>3. [ls EXCEPT !.buffered = Append(@, note)] \in LiveStates
      BY <3>2, <1>0 DEF LiveStates
    <3>4. [ls EXCEPT !.buffered = <<>>, !.handoffGap = TRUE] \in LiveStates
      BY <1>0, EmptySeq DEF LiveStates
    <3>5. [ls EXCEPT !.refresh = TRUE, !.overlap = TRUE, !.pendingGen = link.gen]
              \in LiveStates
      BY <1>0, <1>f DEF LiveStates
    <3> QED BY <1>8, <1>0, <3>3, <3>4, <3>5 DEF handle_live_log
  <2> QED BY <1>8, <2>1, <2>3, <2>4 DEF handle_live_log, TypeOK, historyVars
<1> QED BY <1>1, <1>2, <1>3, <1>4, <1>5, <1>6, <1>7, <1>8 DEF Environment

(* The usable sets are subsets of the types. *)
LEMMA UsableTypes ==
    /\ UsableThreads \subseteq ThreadStates /\ UsableWorkers \subseteq WorkerStates
    /\ UsableCursors \subseteq Cursors
BY DEF UsableThreads, UsableWorkers, UsableCursors

(* A family of usable threads is a family of threads. *)
LEMMA UsableScanType ==
    ASSUME NEW f \in [Threads -> UsableThreads] PROVE f \in [Threads -> ThreadStates]
BY UsableTypes

(* The delivery worker. *)
LEMMA WorkerTypes ==
    ASSUME TypeInv, WorkerStep \/ CallbackThrows PROVE TypeInv'
<1>0. /\ cursor \in UsableCursors /\ ls \in LiveStates /\ hist \in Seq(JobRecords)
      /\ liveq \in Seq(JobRecords) /\ delivered \subseteq LogRecords
      /\ worker \in UsableWorkers /\ scan \in [Threads -> UsableThreads]
      /\ budget \in Budgets /\ ever \subseteq LogRecords /\ view \subseteq LogRecords
  BY DEF TypeInv, TypeOK
<1>w. worker \in WorkerStates /\ (worker.pc # "idle" => worker.job \in JobRecords)
  BY <1>0 DEF UsableWorkers
<1>j. ASSUME worker.pc # "idle"
      PROVE  worker.job.log \in LogRecords /\ worker.job.log.block \in Blocks
             /\ worker.job.gen \in Nat
  BY <1>w, <1>j DEF JobRecords, LogRecords
<1>b. ASSUME NEW job \in JobRecords, Begin(job)
      PROVE  worker' \in UsableWorkers /\ scan' \in [Threads -> UsableThreads]
  <2>1. CASE job.gen # ls.generation
    BY <1>0, <1>b, <2>1, FinishType DEF Begin
  <2>2. CASE job.gen = ls.generation
    <3>1. worker' = [pc |-> IF job.live /\ job.removed THEN "rewind" ELSE "admit",
                     job |-> job, held |-> FALSE]
          /\ scan' = scan
      BY <1>b, <2>2 DEF Begin
    <3>2. worker' \in WorkerStates /\ worker'.job = job
      BY <3>1, <1>b DEF WorkerStates
    <3> QED BY <3>1, <3>2, <1>0, <1>b DEF UsableWorkers
  <2> QED BY <2>1, <2>2
<1>p. ASSUME NEW pc \in {"admit", "callback", "recover"}, NEW held \in BOOLEAN,
             worker.pc # "idle"
      PROVE  /\ [worker EXCEPT !.pc = pc] \in UsableWorkers
             /\ [worker EXCEPT !.pc = pc, !.held = held] \in UsableWorkers
  <2>1. /\ [worker EXCEPT !.pc = pc] \in WorkerStates
        /\ [worker EXCEPT !.pc = pc].job = worker.job
        /\ [worker EXCEPT !.pc = pc, !.held = held] \in WorkerStates
        /\ [worker EXCEPT !.pc = pc, !.held = held].job = worker.job
    BY <1>w, <1>p DEF WorkerStates
  <2> QED BY <2>1, <1>w, <1>p DEF UsableWorkers
<1>1. CASE PopHistorical
  <2>1. Head(hist) \in JobRecords /\ hist' \in Seq(JobRecords)
    BY <1>0, <1>1 DEF PopHistorical
  <2>2. worker' \in UsableWorkers /\ scan' \in [Threads -> UsableThreads]
    BY <1>b, <1>1, <2>1 DEF PopHistorical
  <2> QED BY <1>1, <2>1, <2>2, UsableTypes, UsableScanType
          DEF PopHistorical, TypeInv, TypeOK, envVars, historyVars
<1>2. CASE PopLive
  <2>1. Head(liveq) \in JobRecords /\ liveq' \in Seq(JobRecords)
    BY <1>0, <1>2 DEF PopLive
  <2>2. worker' \in UsableWorkers /\ scan' \in [Threads -> UsableThreads]
    BY <1>b, <1>2, <2>1 DEF PopLive
  <2> QED BY <1>2, <2>1, <2>2, UsableTypes, UsableScanType
          DEF PopLive, TypeInv, TypeOK, envVars, historyVars
<1>3. CASE EmitRewind
  <2>1. worker' \in UsableWorkers
    BY <1>3, <1>p DEF EmitRewind
  <2>2. RewindCursor(worker.job.log.block) \in UsableCursors
    BY <1>0, <1>3, <1>j, StoreTypes DEF EmitRewind
  <2>3. cursor' \in UsableCursors /\ budget' \in Budgets
    BY <1>0, <1>3, <2>2, FailureType DEF EmitRewind
  <2> QED BY <1>3, <2>1, <2>3, UsableTypes
          DEF EmitRewind, TypeInv, TypeOK, envVars, historyVars
<1>4. CASE EmitAdmit
  <2>1. worker.job \in JobRecords /\ worker.job.log \in LogRecords
        /\ (worker.job.log \in delivered) \in BOOLEAN
    BY <1>4, <1>w, <1>j DEF EmitAdmit
  <2>2. worker' \in UsableWorkers
    BY <1>4, <1>p, <2>1, IdleWorkerType DEF EmitAdmit
  <2>3. delivered' \subseteq LogRecords
    BY <1>0, <1>4, <2>1 DEF EmitAdmit
  <2>4. scan' \in [Threads -> UsableThreads]
    BY <1>0, <1>4, <2>1, FinishType DEF EmitAdmit
  <2> QED BY <1>4, <2>2, <2>3, <2>4, UsableTypes, UsableScanType
          DEF EmitAdmit, TypeInv, TypeOK, envVars, historyVars
<1>5. CASE CallbackReturns
  <2>1. worker.job \in JobRecords /\ worker.job.log \in LogRecords
    BY <1>5, <1>w, <1>j DEF CallbackReturns
  <2>2. view' \subseteq LogRecords /\ ever' \subseteq LogRecords
    BY <1>0, <1>5, <2>1 DEF CallbackReturns
  <2>3. worker' \in UsableWorkers /\ scan' \in [Threads -> UsableThreads]
    BY <1>0, <1>5, <2>1, FinishType, IdleWorkerType DEF CallbackReturns
  <2> QED BY <1>5, <2>2, <2>3, UsableTypes, UsableScanType
          DEF CallbackReturns, TypeInv, TypeOK, envVars
<1>6. CASE schedule_overlap_recovery
  <2>1. worker.job \in JobRecords /\ worker.job.gen \in Nat
    BY <1>6, <1>w, <1>j DEF schedule_overlap_recovery
  <2>2. ls' \in LiveStates
    <3>1. [ls EXCEPT !.buffered = <<>>, !.handoffGap = TRUE] \in LiveStates
      BY <1>0, EmptySeq DEF LiveStates
    <3>2. [ls EXCEPT !.refresh = TRUE, !.overlap = TRUE, !.pendingGen = worker.job.gen]
              \in LiveStates
      BY <1>0, <2>1 DEF LiveStates
    <3> QED BY <1>6, <1>0, <3>1, <3>2 DEF schedule_overlap_recovery
  <2>3. worker' \in UsableWorkers /\ scan' \in [Threads -> UsableThreads]
    BY <1>0, <1>6, <2>1, FinishType, IdleWorkerType DEF schedule_overlap_recovery
  <2> QED BY <1>6, <2>2, <2>3, UsableTypes, UsableScanType
          DEF schedule_overlap_recovery, TypeInv, TypeOK, envVars, historyVars
<1>7. CASE CallbackThrows
  <2>1. worker.job.log \in LogRecords
    BY <1>7, <1>j DEF CallbackThrows
  <2>2. delivered' \subseteq LogRecords
    BY <1>0, <1>7, <2>1 DEF CallbackThrows
  <2>3. worker' \in UsableWorkers
    BY <1>7, <1>p DEF CallbackThrows
  <2>4. budget' \in Budgets
    BY <1>7, <1>0 DEF CallbackThrows, Budgets
  <2> QED BY <1>7, <2>2, <2>3, <2>4, UsableTypes
          DEF CallbackThrows, TypeInv, TypeOK, envVars, historyVars
<1> QED BY <1>1, <1>2, <1>3, <1>4, <1>5, <1>6, <1>7 DEF WorkerStep

(* The end of a range is a block; the range starts at a block. *)
LEMMA RangeEndType ==
    ASSUME scan \in [Threads -> UsableThreads], NEW t \in Threads
    PROVE  /\ RangeEnd(t) \in Int /\ scan[t].next \in Nat /\ scan[t].target \in Blocks
           /\ RangeEnd(t) <= scan[t].target
           /\ scan[t].next <= scan[t].target =>
                 RangeEnd(t) \in Blocks /\ scan[t].next <= RangeEnd(t)
<1>1. scan[t] \in ThreadStates
  BY DEF UsableThreads
<1>2. /\ scan[t].next \in Nat
      /\ scan[t].target \in Blocks /\ scan[t].durable \in Blocks
  BY <1>1, ConstantTypes DEF ThreadStates
<1>3. scan[t].target \in Nat /\ scan[t].durable \in Nat /\ scan[t].target <= MaxBlock
  BY <1>2, ConstantTypes DEF Blocks
<1> QED BY <1>2, <1>3, ConstantTypes DEF RangeEnd, Persist, Min2, Blocks

(* What a node returns for a range are logs. *)
LEMMA CanonicalLogsType ==
    ASSUME chain \in Chains, NEW from \in Nat, NEW to \in Int
    PROVE  CanonicalLogs(from, to) \subseteq LogRecords
<1>1. chain.head \in Blocks /\ chain.fork \in [Blocks -> Nat]
  BY DEF Chains
<1>2. ASSUME NEW b \in from..Min2(to, chain.head), NEW i \in Indexes
      PROVE  LogAt(b, chain.fork[b], i) \in LogRecords
  <2>1. b \in Blocks
    BY <1>1, <1>2, ConstantTypes DEF Min2, Blocks
  <2> QED BY <1>1, <2>1 DEF LogAt, LogRecords
<1> QED BY <1>2 DEF CanonicalLogs

(* dispatch_log queues a job and makes the thread wait. *)
LEMMA DispatchType ==
    ASSUME scan \in [Threads -> UsableThreads], hist \in Seq(JobRecords),
           NEW t \in Threads, NEW l \in LogRecords, NEW removed \in BOOLEAN,
           Dispatch(t, l, removed)
    PROVE  /\ scan' \in [Threads -> UsableThreads] /\ hist' \in Seq(JobRecords)
<1>1. scan[t] \in ThreadStates
  BY DEF UsableThreads
<1>2. /\ scan[t].gen \in Nat /\ scan[t].orphans \subseteq LogRecords
      /\ scan[t].todo \subseteq LogRecords
  BY <1>1 DEF ThreadStates
<1> DEFINE job == [log |-> l, removed |-> removed, live |-> FALSE,
                   gen |-> scan[t].gen, waiter |-> t]
           o == IF removed THEN scan[t].orphans \ {l} ELSE scan[t].orphans
           d == IF removed THEN scan[t].todo ELSE scan[t].todo \ {l}
           r == [scan[t] EXCEPT !.pc = "wait", !.log = l, !.removed = removed,
                                !.result = "none", !.orphans = o, !.todo = d]
<1>3. job \in JobRecords
  BY <1>2 DEF JobRecords
<1>4. hist' \in Seq(JobRecords)
  BY <1>3 DEF Dispatch
<1>5. o \subseteq LogRecords /\ d \subseteq LogRecords
  BY <1>2
<1>6. l \in MaybeLog /\ "wait" \in Pcs
  BY ConstantTypes DEF Pcs, ScanPcs
<1>7. r \in ThreadStates /\ r.pc = "wait" /\ r.log = l
  <2> HIDE DEF o, d
  <2> QED BY <1>1, <1>5, <1>6 DEF ThreadStates
<1>8. r \in UsableThreads
  BY <1>7 DEF UsableThreads
<1>9. SetThread(t, r)
  BY <1>1 DEF Dispatch, ThreadStates
<1> QED BY <1>4, <1>8, <1>9, SetThreadType

(* Scans. *)
LEMMA ScanTypes ==
    ASSUME TypeInv, NEW t \in Threads, ScanStep(t) \/ CallThrows(t) PROVE TypeInv'
<1>0. /\ chain \in Chains /\ cursor \in UsableCursors /\ hist \in Seq(JobRecords)
      /\ delivered \subseteq LogRecords /\ scan \in [Threads -> UsableThreads]
      /\ budget \in Budgets /\ flags \in Flags /\ skipped \subseteq Blocks
  BY DEF TypeInv, TypeOK
<1>t. scan[t] \in UsableThreads /\ scan[t] \in ThreadStates
  BY <1>0 DEF UsableThreads
<1>f. /\ scan[t].next \in 0..(MaxBlock + 1) /\ scan[t].to \in Blocks
      /\ scan[t].target \in Blocks /\ scan[t].gen \in Nat
      /\ scan[t].orphans \subseteq LogRecords /\ scan[t].todo \subseteq LogRecords
      /\ scan[t].to + 1 \in 0..(MaxBlock + 1) /\ scan[t].to \in Nat
  BY <1>t, ConstantTypes DEF ThreadStates, Blocks
<1>r. ASSUME NEW next \in 0..(MaxBlock + 1), SetThread(t, [scan[t] EXCEPT !.pc = "range", !.next = next])
      PROVE  scan' \in [Threads -> UsableThreads]
  <2> DEFINE r == [scan[t] EXCEPT !.pc = "range", !.next = next]
  <2>1. "range" \in Pcs
    BY DEF Pcs, ScanPcs
  <2>2. r \in ThreadStates /\ r.pc = "range"
    BY <1>t, <1>r, <2>1 DEF ThreadStates
  <2>3. r \in UsableThreads
    BY <2>2 DEF UsableThreads
  <2> QED BY <2>3, <1>0, <1>r, SetThreadType
<1>l. ASSUME Leave(t, ReturnPc(t)) \/ Leave(t, ThrowPc(t))
      PROVE  scan' \in [Threads -> UsableThreads]
  BY <1>0, <1>l, LeaveType, ReturnPcs
<1>1. CASE LoadCursor(t)
  <2> DEFINE n == IF cursor = NoCursor THEN StartBlock
                  ELSE cursor.block + (IF cursor.complete THEN 1 ELSE 0)
             r == [scan[t] EXCEPT !.pc = "range", !.resume = cursor, !.next = n]
  <2>1. n \in 0..(MaxBlock + 1)
    <3>1. CASE cursor = NoCursor
      BY <3>1, ConstantTypes DEF Blocks
    <3>2. CASE cursor # NoCursor
      <4>1. cursor.block \in Blocks
        BY <1>0, <3>2 DEF UsableCursors, Cursors, MaybeHead
      <4> QED BY <3>2, <4>1, ConstantTypes DEF Blocks
    <3> QED BY <3>1, <3>2
  <2>2. cursor \in Cursors /\ "range" \in Pcs
    BY <1>0, UsableTypes DEF Pcs, ScanPcs
  <2>3. r \in ThreadStates /\ r.pc = "range"
    <3> HIDE DEF n
    <3> QED BY <1>t, <2>1, <2>2 DEF ThreadStates
  <2>4. r \in UsableThreads
    BY <2>3 DEF UsableThreads
  <2>5. SetThread(t, r)
    BY <1>1 DEF LoadCursor
  <2>6. scan' \in [Threads -> UsableThreads]
    BY <1>0, <2>4, <2>5, SetThreadType
  <2> QED BY <1>1, <2>6, UsableScanType
          DEF LoadCursor, TypeInv, TypeOK, scanFrame, envVars, historyVars
<1>2. CASE reconcile_gap(t)
  <2> DEFINE overlap == Lookback - 1
             window  == IF scan[t].target > overlap THEN scan[t].target - overlap ELSE 0
             from    == Max2(StartBlock, window)
  <2>1. from \in Blocks
    BY <1>f, ConfigAssumption DEF Max2, Blocks
  <2>2. \/ Leave(t, ReturnPc(t)) /\ UNCHANGED <<cursor, budget, skipped>>
        \/ /\ SetThread(t, [scan[t] EXCEPT !.pc = "range", !.next = from])
           /\ skipped' = skipped \cup {b \in StartBlock..(from - 1) : ~Passed(cursor, b)}
           /\ \/ cursor' = RewindCursor(from) /\ UNCHANGED budget
              \/ Failure /\ UNCHANGED cursor
    BY <1>2 DEF reconcile_gap
  <2>3. /\ from \in 0..(MaxBlock + 1) /\ StartBlock..(from - 1) \subseteq Blocks
        /\ RewindCursor(from) \in UsableCursors
    BY <2>1, <1>0, ConstantTypes, StoreTypes DEF Blocks
  <2> HIDE DEF from
  <2>4. scan' \in [Threads -> UsableThreads]
    BY <2>2, <2>3, <1>r, <1>l
  <2>5. cursor' \in UsableCursors /\ budget' \in Budgets /\ skipped' \subseteq Blocks
    BY <1>0, <2>2, <2>3, FailureType
  <2> QED BY <1>2, <2>4, <2>5, UsableTypes, UsableScanType
          DEF reconcile_gap, TypeInv, TypeOK, scanFrame, envVars
<1>3. CASE FetchRange(t)
  <2>1. ASSUME scan[t].next <= scan[t].target, Current(t)
        PROVE  scan' \in [Threads -> UsableThreads]
    <3> DEFINE S == {l \in CanonicalLogs(scan[t].next, RangeEnd(t)) :
                                ~AlreadyCheckpointed(t, l)}
               e == RangeEnd(t)
               p == IF scan[t].overlap THEN "orphans" ELSE "log"
               r == [scan[t] EXCEPT !.pc = p, !.to = e, !.todo = S]
    <3>1. e \in Blocks
      BY <1>0, <2>1, RangeEndType
    <3>2. S \subseteq LogRecords
      BY <1>0, RangeEndType, CanonicalLogsType
    <3>3. p \in Pcs \ {"confirm", "wait", "save"}
      BY DEF Pcs, ScanPcs
    <3>4. r \in ThreadStates /\ r.pc = p
      <4> HIDE DEF S, e, p
      <4> QED BY <1>t, <3>1, <3>2, <3>3 DEF ThreadStates
    <3>5. r \in UsableThreads
      BY <3>3, <3>4 DEF UsableThreads
    <3>6. SetThread(t, r)
      BY <1>3, <1>f, <2>1, ConstantTypes DEF FetchRange, Blocks
    <3> QED BY <1>0, <3>5, <3>6, SetThreadType
  <2>2. scan' \in [Threads -> UsableThreads]
    BY <1>3, <1>l, <2>1 DEF FetchRange
  <2> QED BY <1>3, <2>2, UsableScanType
          DEF FetchRange, TypeInv, TypeOK, scanFrame, envVars, historyVars
<1>4. CASE ComputeOrphans(t)
  <2> DEFINE S == {l \in delivered : InRange(t, l)} \ scan[t].todo
             r == [scan[t] EXCEPT !.pc = "log", !.orphans = S]
  <2>1. S \subseteq LogRecords /\ "log" \in Pcs
    BY <1>0 DEF Pcs, ScanPcs
  <2>2. r \in ThreadStates /\ r.pc = "log"
    <3> HIDE DEF S
    <3> QED BY <1>t, <2>1 DEF ThreadStates
  <2>3. r \in UsableThreads
    BY <2>2 DEF UsableThreads
  <2>4. SetThread(t, r) /\ flags' = [flags EXCEPT !.stale = @ \/ StaleLive]
    BY <1>4 DEF ComputeOrphans
  <2>5. scan' \in [Threads -> UsableThreads]
    BY <1>0, <2>3, <2>4, SetThreadType
  <2>6. flags' \in Flags
    BY <2>4, <1>0 DEF Flags
  <2> QED BY <1>4, <2>5, <2>6, UsableScanType
          DEF ComputeOrphans, TypeInv, TypeOK, scanFrame, envVars
<1>5. CASE NextLog(t)
  <2>1. ASSUME NEW l \in scan[t].orphans, Dispatch(t, l, TRUE)
        PROVE  scan' \in [Threads -> UsableThreads] /\ hist' \in Seq(JobRecords)
    <3>1. l \in LogRecords
      BY <1>f, <2>1
    <3> QED BY <1>0, <2>1, <3>1, DispatchType
  <2>2. ASSUME NEW l \in scan[t].todo, Dispatch(t, l, FALSE)
        PROVE  scan' \in [Threads -> UsableThreads] /\ hist' \in Seq(JobRecords)
    <3>1. l \in LogRecords
      BY <1>f, <2>2
    <3> QED BY <1>0, <2>2, <3>1, DispatchType
  <2>3. "checkpoint" \in Pcs \ {"confirm"}
    BY DEF Pcs, ScanPcs
  <2>4. ASSUME Goto(t, "checkpoint") PROVE scan' \in [Threads -> UsableThreads]
    BY <1>0, <2>3, <2>4, GotoType
  <2>5. \/ (Leave(t, ReturnPc(t)) /\ UNCHANGED hist)
        \/ (\E l \in scan[t].orphans : Dispatch(t, l, TRUE))
        \/ (\E l \in scan[t].todo : Dispatch(t, l, FALSE))
        \/ (Goto(t, "checkpoint") /\ UNCHANGED hist)
        \/ (SetThread(t, [scan[t] EXCEPT !.pc = "range", !.next = scan[t].to + 1])
            /\ UNCHANGED hist)
    BY <1>5 DEF NextLog
  <2>6. scan' \in [Threads -> UsableThreads] /\ hist' \in Seq(JobRecords)
    BY <1>0, <1>f, <1>l, <1>r, <2>1, <2>2, <2>4, <2>5
  <2> QED BY <1>5, <2>6, UsableScanType
          DEF NextLog, TypeInv, TypeOK, scanFrame, envVars, historyVars
<1>6. CASE DispatchReturns(t)
  <2>1. scan[t].log \in LogRecords
    BY <1>6, <1>t DEF DispatchReturns, UsableThreads
  <2>2. "log" \in Pcs \ {"confirm"} /\ "save" \in Pcs \ {"confirm"}
    BY DEF Pcs, ScanPcs
  <2>3. ASSUME Goto(t, "log") \/ Goto(t, "save") PROVE scan' \in [Threads -> UsableThreads]
    BY <1>0, <2>1, <2>2, <2>3, GotoType
  <2>4. scan' \in [Threads -> UsableThreads]
    BY <1>6, <1>l, <2>3 DEF DispatchReturns
  <2> QED BY <1>6, <2>4, UsableScanType
          DEF DispatchReturns, TypeInv, TypeOK, scanFrame, envVars, historyVars
<1>7. CASE save_log_checkpoint(t)
  <2>1. scan[t].log \in LogRecords
    BY <1>7, <1>t DEF save_log_checkpoint, UsableThreads
  <2>2. [block |-> scan[t].log.block, complete |-> FALSE, last |-> scan[t].log] \in UsableCursors
    <3>1. scan[t].log.block \in Blocks
      BY <2>1 DEF LogRecords
    <3> QED BY <2>1, <3>1, CursorTypes, ConstantTypes
  <2>3. cursor' \in UsableCursors
    BY <1>0, <1>7, <2>2, StoreTypes DEF save_log_checkpoint
  <2>4. "log" \in Pcs \ {"confirm"}
    BY DEF Pcs, ScanPcs
  <2>5. scan' \in [Threads -> UsableThreads]
    BY <1>0, <1>7, <2>4, GotoType DEF save_log_checkpoint
  <2> QED BY <1>7, <2>3, <2>5, UsableTypes, UsableScanType
          DEF save_log_checkpoint, TypeInv, TypeOK, scanFrame, envVars, historyVars
<1>8. CASE save_checkpoint(t)
  <2>1. [block |-> scan[t].to, complete |-> TRUE, last |-> NoLog] \in UsableCursors
    BY <1>f, CursorTypes, ConstantTypes
  <2>2. cursor' \in UsableCursors
    BY <1>0, <1>8, <2>1, StoreTypes DEF save_checkpoint
  <2>3. delivered' \subseteq LogRecords /\ budget' \in Budgets
    BY <1>0, <1>8, FailureType DEF save_checkpoint, prune_delivered
  <2>4. scan' \in [Threads -> UsableThreads]
    BY <1>8, <1>f, <1>r, <1>l DEF save_checkpoint
  <2> QED BY <1>8, <2>2, <2>3, <2>4, UsableTypes, UsableScanType
          DEF save_checkpoint, TypeInv, TypeOK, scanFrame, envVars, historyVars
<1>9. CASE CallThrows(t)
  <2>1. scan' \in [Threads -> UsableThreads] /\ budget' \in Budgets
    BY <1>0, <1>9, <1>l, FailureType DEF CallThrows
  <2> QED BY <1>9, <2>1, UsableScanType
          DEF CallThrows, TypeInv, TypeOK, scanFrame, envVars, historyVars
<1> QED BY <1>1, <1>2, <1>3, <1>4, <1>5, <1>6, <1>7, <1>8, <1>9 DEF ScanStep

(* The reconciliation worker. *)
LEMMA ReconcileTypes ==
    ASSUME TypeInv, ReconcileStep PROVE TypeInv'
<1> DEFINE r == scan["reconcile"]
<1>0. /\ chain \in Chains /\ ls \in LiveStates /\ scan \in [Threads -> UsableThreads]
      /\ "reconcile" \in Threads /\ IdleThread \in ThreadStates
  BY IdleThreadType DEF TypeInv, TypeOK, Threads, UsableThreads
<1>r. r \in UsableThreads /\ r \in ThreadStates
  BY <1>0 DEF UsableThreads
<1>f. /\ chain.head \in Blocks /\ ls.pendingHead \in MaybeHead /\ ls.pendingGen \in Nat
      /\ ls.refresh \in BOOLEAN /\ ls.overlap \in BOOLEAN
      /\ r.head \in MaybeHead
  BY <1>0, <1>r DEF Chains, LiveStates, ThreadStates
<1>p. {"refresh", "confirm", "gap", "load", "release", "idle"} \subseteq Pcs
  BY DEF Pcs, ScanPcs
<1>1. CASE ReconcileWake
  <2> DEFINE p == IF ls.refresh THEN "refresh" ELSE "confirm"
             n == [IdleThread EXCEPT !.pc = p, !.gen = ls.pendingGen, !.head = ls.pendingHead,
                             !.refresh = ls.refresh, !.overlap = ls.overlap]
  <2>1. p \in Pcs /\ (p = "confirm" => ls.pendingHead # NoHead) /\ p \notin {"wait", "save"}
    BY <1>1, <1>p DEF ReconcileWake
  <2>2. n \in ThreadStates /\ n.pc = p /\ n.head = ls.pendingHead
    <3> HIDE DEF p
    <3> QED BY <1>0, <1>f, <2>1 DEF ThreadStates
  <2>3. n \in UsableThreads
    <3> HIDE DEF p, n
    <3> QED BY <2>1, <2>2 DEF UsableThreads
  <2>4. SetThread("reconcile", n)
    BY <1>1 DEF ReconcileWake
  <2>5. scan' \in [Threads -> UsableThreads]
    BY <1>0, <2>3, <2>4, SetThreadType
  <2>6. ls' \in LiveStates
    BY <1>0, <1>1, ConstantTypes DEF ReconcileWake, LiveStates
  <2> QED BY <1>1, <2>5, <2>6, UsableScanType
          DEF ReconcileWake, TypeInv, TypeOK, envVars, queueVars, historyVars
<1>2. CASE RefreshHead
  <2> DEFINE h == Max2(r.head, chain.head)
             n == [r EXCEPT !.pc = "confirm", !.head = h]
  <2>1. h \in MaybeHead /\ h # NoHead
    BY <1>f, ConstantTypes DEF Max2, MaybeHead, NoHead, Blocks
  <2>2. n \in ThreadStates /\ n.pc = "confirm" /\ n.head = h
    <3> HIDE DEF h, r
    <3> QED BY <1>r, <1>p, <2>1 DEF ThreadStates
  <2>3. n \in UsableThreads
    BY <2>1, <2>2 DEF UsableThreads
  <2>4. SetThread("reconcile", n)
    <3>1. n = [r EXCEPT !.pc = "confirm", !.head = Max2(@, chain.head)]
      BY <1>r DEF ThreadStates
    <3> QED BY <1>2, <3>1 DEF RefreshHead
  <2>5. scan' \in [Threads -> UsableThreads]
    BY <1>0, <2>3, <2>4, SetThreadType
  <2> QED BY <1>2, <2>5, UsableScanType
          DEF RefreshHead, TypeInv, TypeOK, envVars, queueVars, historyVars
<1>3. CASE reconcile_confirmed
  <2> DEFINE d == DurableHead(r.head)
             g == IF r.refresh THEN r.head ELSE DurableHead(r.head)
             p == IF r.overlap THEN "gap" ELSE "load"
             n == [r EXCEPT !.pc = p, !.durable = d, !.target = g]
  <2>1. r.head \in Blocks
    BY <1>3, <1>r, <1>f DEF reconcile_confirmed, UsableThreads, MaybeHead
  <2>2. d \in Blocks /\ g \in Blocks
    BY <2>1, DurableHeadType
  <2>3. p \in Pcs /\ p \notin {"confirm", "wait", "save"}
    BY <1>p
  <2>4. n \in ThreadStates /\ n.pc = p
    <3> HIDE DEF d, g, p, r
    <3> QED BY <1>r, <2>2, <2>3 DEF ThreadStates
  <2>5. n \in UsableThreads
    <3> HIDE DEF n, p
    <3> QED BY <2>3, <2>4 DEF UsableThreads
  <2>6. SetThread("reconcile", n) \/ Leave("reconcile", "release")
    BY <1>3 DEF reconcile_confirmed
  <2>7. scan' \in [Threads -> UsableThreads]
    <3> HIDE DEF n
    <3> QED BY <1>0, <1>p, <2>5, <2>6, SetThreadType, LeaveType
  <2> QED BY <1>3, <2>7, UsableScanType
          DEF reconcile_confirmed, TypeInv, TypeOK, envVars, queueVars, historyVars
<1>4. CASE report_reconciliation_failure
  <2>1. ls' \in LiveStates
    BY <1>0, <1>4 DEF report_reconciliation_failure, LiveStates
  <2>2. scan' \in [Threads -> UsableThreads]
    BY <1>0, <1>4, <1>p, GotoType DEF report_reconciliation_failure
  <2> QED BY <1>4, <2>1, <2>2, UsableScanType
          DEF report_reconciliation_failure, TypeInv, TypeOK, envVars, queueVars, historyVars
<1>5. CASE ReconcileRelease
  <2>1. ls' \in LiveStates
    BY <1>0, <1>5 DEF ReconcileRelease, LiveStates
  <2>2. scan' \in [Threads -> UsableThreads]
    BY <1>0, <1>5, <1>p, LeaveType DEF ReconcileRelease
  <2> QED BY <1>5, <2>1, <2>2, UsableScanType
          DEF ReconcileRelease, TypeInv, TypeOK, envVars, queueVars, historyVars
<1> QED BY <1>1, <1>2, <1>3, <1>4, <1>5 DEF ReconcileStep

(* The handoff jobs made of the buffered notes are jobs. *)
LEMMA BufferedJobsType ==
    ASSUME NEW notes \in Seq(NoteRecords), NEW g \in Nat
    PROVE  [i \in 1..Len(notes) |->
                [log |-> notes[i].log, removed |-> notes[i].removed, live |-> TRUE,
                 gen |-> g, waiter |-> IF i = Len(notes) THEN "user" ELSE "none"]]
           \in Seq(JobRecords)
<1>1. ASSUME NEW i \in 1..Len(notes)
      PROVE  [log |-> notes[i].log, removed |-> notes[i].removed, live |-> TRUE,
              gen |-> g, waiter |-> IF i = Len(notes) THEN "user" ELSE "none"] \in JobRecords
  <2>1. notes[i] \in NoteRecords
    BY <1>1
  <2>2. notes[i].log \in LogRecords /\ notes[i].removed \in BOOLEAN
    BY <2>1 DEF NoteRecords
  <2>3. (IF i = Len(notes) THEN "user" ELSE "none") \in Threads \cup {"none"}
    BY DEF Threads
  <2> QED BY <2>2, <2>3 DEF JobRecords
<1>2. Len(notes) \in Nat
  OBVIOUS
<1> QED BY <1>1, <1>2

(* start_live. *)
LEMMA StartTypes ==
    ASSUME TypeInv, StartStep PROVE TypeInv'
<1> DEFINE r == scan["user"]
<1>0. /\ chain \in Chains /\ link \in Links /\ stream \in Seq(NoteRecords)
      /\ ls \in LiveStates /\ hist \in Seq(JobRecords) /\ budget \in Budgets
      /\ scan \in [Threads -> UsableThreads] /\ "user" \in Threads
  BY DEF TypeInv, TypeOK, Threads
<1>r. r \in UsableThreads /\ r \in ThreadStates
  BY <1>0 DEF UsableThreads
<1>f. /\ chain.head \in Blocks /\ r.gen \in Nat /\ r.head \in MaybeHead
      /\ DurableHead(chain.head) \in Blocks /\ ls.bufferedHead \in MaybeHead
      /\ ls.buffered \in Seq(NoteRecords)
  BY <1>0, <1>r, DurableHeadType DEF Chains, ThreadStates, LiveStates
<1>p. {"boundary", "abort", "load", "drain", "idle", "gaphead", "drainwait", "head",
       "gap", "finish"} \subseteq Pcs \ {"confirm", "wait", "save"}
  BY DEF Pcs, ScanPcs
<1>s. ASSUME NEW n \in ThreadStates, n.pc \notin {"confirm", "wait", "save"},
             SetThread("user", n)
      PROVE  scan' \in [Threads -> UsableThreads]
  <2>1. n \in UsableThreads
    BY <1>s DEF UsableThreads
  <2> QED BY <1>0, <1>s, <2>1, SetThreadType
<1>g. ASSUME NEW p \in {"boundary", "abort", "drain", "gaphead", "finish"}, Goto("user", p)
      PROVE  scan' \in [Threads -> UsableThreads]
  <2>1. p \in Pcs \ {"confirm"} /\ p \notin {"wait", "save"}
    BY <1>p
  <2> QED BY <1>0, <1>g, <2>1, GotoType
<1>l. ASSUME Leave("user", "idle") PROVE scan' \in [Threads -> UsableThreads]
  BY <1>0, <1>p, <1>l, LeaveType
<1>1. CASE Subscribe
  <2>1. link' \in Links /\ budget' \in Budgets
    BY <1>1, <1>0, <1>f, FailureType DEF Subscribe, Links
  <2>2. scan' \in [Threads -> UsableThreads]
    BY <1>1, <1>g DEF Subscribe
  <2> QED BY <1>1, <2>1, <2>2, EmptySeq, UsableScanType
          DEF Subscribe, TypeInv, TypeOK, queueVars, historyVars
<1>2. CASE CaptureBoundary
  <2> DEFINE n == [r EXCEPT !.pc = "load", !.target = chain.head,
                            !.durable = DurableHead(chain.head)]
  <2>1. n \in ThreadStates /\ n.pc = "load"
    <3> HIDE DEF r
    <3> QED BY <1>r, <1>f, <1>p DEF ThreadStates
  <2>2. SetThread("user", n)
    BY <1>2 DEF CaptureBoundary
  <2>3. scan' \in [Threads -> UsableThreads]
    <3> HIDE DEF n
    <3> QED BY <2>1, <2>2, <1>s
  <2> QED BY <1>2, <2>3, UsableScanType
          DEF CaptureBoundary, TypeInv, TypeOK, envVars, queueVars, historyVars
<1>3. CASE Handoff
  <2>1. scan' \in [Threads -> UsableThreads]
    BY <1>3, <1>g, <1>l DEF Handoff
  <2> QED BY <1>3, <2>1, UsableScanType
          DEF Handoff, TypeInv, TypeOK, envVars, queueVars, historyVars
<1>4. CASE drain_live_buffer
  <2>1. CASE ls.handoffGap
    <3>1. ls' \in LiveStates /\ scan' \in [Threads -> UsableThreads] /\ hist' = hist
      BY <1>4, <1>0, <1>g, <2>1, EmptySeq DEF drain_live_buffer, LiveStates
    <3> QED BY <1>4, <3>1, UsableScanType
            DEF drain_live_buffer, TypeInv, TypeOK, envVars, historyVars
  <2>2. CASE ~ls.handoffGap /\ ls.buffered # <<>>
    <3> DEFINE jobs == [i \in 1..Len(ls.buffered) |->
                [log |-> ls.buffered[i].log, removed |-> ls.buffered[i].removed,
                 live |-> TRUE, gen |-> r.gen,
                 waiter |-> IF i = Len(ls.buffered) THEN "user" ELSE "none"]]
               n == [r EXCEPT !.pc = "drainwait", !.result = "none"]
    <3>1. jobs \in Seq(JobRecords)
      BY <1>f, BufferedJobsType
    <3>2. hist' = hist \o jobs
      BY <1>4, <2>2 DEF drain_live_buffer
    <3>3. hist' \in Seq(JobRecords)
      <4> HIDE DEF jobs
      <4> QED BY <1>0, <3>1, <3>2, ConcatType
    <3>4. n \in ThreadStates /\ n.pc = "drainwait" /\ SetThread("user", n)
      BY <1>4, <1>r, <1>p, <2>2 DEF drain_live_buffer, ThreadStates
    <3>5. scan' \in [Threads -> UsableThreads]
      <4> HIDE DEF n
      <4> QED BY <3>4, <1>s
    <3>6. ls' \in LiveStates
      BY <1>4, <1>0, <2>2, EmptySeq DEF drain_live_buffer, LiveStates
    <3> QED BY <1>4, <3>3, <3>5, <3>6, UsableScanType
            DEF drain_live_buffer, TypeInv, TypeOK, envVars, historyVars
  <2>3. CASE ~ls.handoffGap /\ ls.buffered = <<>>
    <3> DEFINE n == [r EXCEPT !.pc = "head", !.head = ls.bufferedHead]
    <3>1. n \in ThreadStates /\ n.pc = "head"
      <4> HIDE DEF r
      <4> QED BY <1>r, <1>f, <1>p DEF ThreadStates
    <3>2. SetThread("user", n) /\ hist' = hist
      BY <1>4, <2>3 DEF drain_live_buffer
    <3>3. scan' \in [Threads -> UsableThreads]
      <4> HIDE DEF n
      <4> QED BY <3>1, <3>2, <1>s
    <3>4. ls' \in LiveStates
      BY <1>4, <1>0, <2>3, ConstantTypes DEF drain_live_buffer, LiveStates
    <3> QED BY <1>4, <3>2, <3>3, <3>4, UsableScanType
            DEF drain_live_buffer, TypeInv, TypeOK, envVars, historyVars
  <2> QED BY <2>1, <2>2, <2>3
<1>5. CASE DrainGap
  <2> DEFINE n == [r EXCEPT !.pc = "gap", !.call = "drain", !.overlap = TRUE,
                            !.target = chain.head, !.durable = DurableHead(chain.head)]
  <2>1. n \in ThreadStates /\ n.pc = "gap"
    <3> HIDE DEF r
    <3> QED BY <1>r, <1>f, <1>p DEF ThreadStates
  <2>2. SetThread("user", n)
    BY <1>5 DEF DrainGap
  <2>3. scan' \in [Threads -> UsableThreads]
    <3> HIDE DEF n
    <3> QED BY <2>1, <2>2, <1>s
  <2> QED BY <1>5, <2>3, UsableScanType
          DEF DrainGap, TypeInv, TypeOK, envVars, queueVars, historyVars
<1>6. CASE DrainWait
  <2>1. scan' \in [Threads -> UsableThreads]
    BY <1>6, <1>g DEF DrainWait
  <2> QED BY <1>6, <2>1, UsableScanType
          DEF DrainWait, TypeInv, TypeOK, envVars, queueVars, historyVars
<1>7. CASE ReplayHead
  <2>1. ls' \in LiveStates
    <3>1. CASE r.head = NoHead
      BY <1>7, <1>0, <3>1 DEF ReplayHead
    <3>2. CASE r.head # NoHead
      <4>1. r.head \in Blocks
        BY <1>f, <3>2 DEF MaybeHead
      <4> QED BY <1>7, <1>0, <1>f, <3>2, <4>1, HeadNotedType DEF ReplayHead
    <3> QED BY <3>1, <3>2
  <2>2. scan' \in [Threads -> UsableThreads]
    BY <1>7, <1>g DEF ReplayHead
  <2> QED BY <1>7, <2>1, <2>2, UsableScanType
          DEF ReplayHead, TypeInv, TypeOK, envVars, queueVars, historyVars
<1>8. CASE StartLiveReturns
  <2>1. ls' \in LiveStates
    BY <1>8, <1>0 DEF StartLiveReturns, LiveStates
  <2>2. scan' \in [Threads -> UsableThreads]
    BY <1>8, <1>l DEF StartLiveReturns
  <2> QED BY <1>8, <2>1, <2>2, UsableScanType
          DEF StartLiveReturns, TypeInv, TypeOK, envVars, queueVars, historyVars
<1>9. CASE StartLiveAborts
  <2>1. ls' \in LiveStates /\ link' \in Links
    BY <1>9, <1>0, IdledType DEF StartLiveAborts, Links
  <2>2. scan' \in [Threads -> UsableThreads]
    BY <1>9, <1>l DEF StartLiveAborts
  <2> QED BY <1>9, <2>1, <2>2, EmptySeq, UsableScanType
          DEF StartLiveAborts, TypeInv, TypeOK, queueVars, historyVars
<1> QED BY <1>1, <1>2, <1>3, <1>4, <1>5, <1>6, <1>7, <1>8, <1>9 DEF StartStep

(* The calls of the user, stop and the crash. *)
LEMMA CallTypes ==
    ASSUME TypeInv,
           catch_up \/ start_live \/ StopSignal \/ StopTransport \/ StopReturn \/ Crash
    PROVE  TypeInv'
<1>0. /\ chain \in Chains /\ link \in Links /\ ls \in LiveStates /\ budget \in Budgets
      /\ flags \in Flags /\ scan \in [Threads -> UsableThreads] /\ "user" \in Threads
      /\ IdleThread \in ThreadStates
  BY IdleThreadType DEF TypeInv, TypeOK, Threads, UsableThreads
<1>f. /\ chain.head \in Blocks /\ DurableHead(chain.head) \in Blocks
      /\ ls.generation \in Nat /\ ls.generation + 1 \in Nat
  BY <1>0, DurableHeadType DEF Chains, LiveStates
<1>p. {"load", "subscribe"} \subseteq Pcs
  BY DEF Pcs, ScanPcs
<1>s. ASSUME NEW n \in ThreadStates, n.pc \notin {"confirm", "wait", "save"},
             SetThread("user", n)
      PROVE  scan' \in [Threads -> UsableThreads]
  <2>1. n \in UsableThreads
    BY <1>s DEF UsableThreads
  <2> QED BY <1>0, <1>s, <2>1, SetThreadType
<1>1. CASE catch_up
  <2> DEFINE n == [IdleThread EXCEPT !.pc = "load", !.call = "catch_up",
                       !.gen = ls.generation, !.target = DurableHead(chain.head),
                       !.durable = DurableHead(chain.head)]
  <2>1. n \in ThreadStates /\ n.pc = "load"
    BY <1>0, <1>f, <1>p DEF ThreadStates
  <2>2. SetThread("user", n)
    BY <1>1 DEF catch_up
  <2>3. scan' \in [Threads -> UsableThreads]
    <3> HIDE DEF n
    <3> QED BY <2>1, <2>2, <1>s
  <2>4. budget' \in Budgets
    BY <1>0, <1>1, FailureType DEF catch_up
  <2> QED BY <1>1, <2>3, <2>4, UsableScanType
          DEF catch_up, TypeInv, TypeOK, envVars, queueVars, historyVars
<1>2. CASE start_live
  <2> DEFINE n == [IdleThread EXCEPT !.pc = "subscribe", !.call = "start_live",
                                     !.gen = ls.generation + 1]
  <2>1. n \in ThreadStates /\ n.pc = "subscribe"
    BY <1>0, <1>f, <1>p DEF ThreadStates
  <2>2. SetThread("user", n)
    BY <1>2 DEF start_live
  <2>3. scan' \in [Threads -> UsableThreads]
    <3> HIDE DEF n
    <3> QED BY <2>1, <2>2, <1>s
  <2>4. budget' \in Budgets
    BY <1>0, <1>2, FailureType DEF start_live
  <2>5. ls' \in LiveStates
    <3> DEFINE new == [ls EXCEPT !.generation = ls.generation + 1, !.accepting = TRUE,
                          !.buffering = TRUE, !.buffered = <<>>, !.bufferedHead = NoHead,
                          !.refresh = FALSE, !.overlap = FALSE, !.handoffGap = FALSE]
    <3>1. <<>> \in Seq(NoteRecords) /\ NoHead \in MaybeHead
      BY EmptySeq, ConstantTypes
    <3>2. new \in LiveStates
      BY <1>0, <1>f, <3>1 DEF LiveStates
    <3>3. ls' = new
      BY <1>2 DEF start_live
    <3> QED BY <3>2, <3>3
  <2>6. flags' \in Flags
    BY <1>0, <1>2 DEF start_live, Flags
  <2> QED BY <1>2, <2>3, <2>4, <2>5, <2>6, UsableScanType
          DEF start_live, TypeInv, TypeOK, envVars, queueVars
<1>3. CASE StopSignal
  <2>1. ls' \in LiveStates
    <3>1. Idled(ls) \in LiveStates
      BY <1>0, IdledType
    <3> QED BY <1>3, <3>1 DEF StopSignal, LiveStates
  <2>2. budget' \in Budgets
    BY <1>0, <1>3 DEF StopSignal, Budgets
  <2> QED BY <1>3, <2>1, <2>2 DEF StopSignal, TypeInv, TypeOK, envVars, queueVars, historyVars
<1>4. CASE StopTransport
  <2>1. link' \in Links
    BY <1>0, <1>4 DEF StopTransport, Links
  <2> QED BY <1>4, <2>1, EmptySeq DEF StopTransport, TypeInv, TypeOK, queueVars, historyVars
<1>5. CASE StopReturn
  <2>1. flags' \in Flags
    BY <1>0, <1>5 DEF StopReturn, Flags
  <2> QED BY <1>5, <2>1 DEF StopReturn, TypeInv, TypeOK, envVars, queueVars
<1>6. CASE Crash
  <2>1. budget' \in Budgets
    BY <1>0, <1>6 DEF Crash, Budgets
  <2>2. link' \in Links
    BY <1>6 DEF Crash, NoLink, Links
  <2>3. ls' \in LiveStates
    BY <1>6, EmptySeq, ConstantTypes DEF Crash, InitialLiveState, LiveStates
  <2>4. flags' \in Flags
    BY <1>6, ConstantTypes DEF Crash, InitialFlags, Flags
  <2>5. worker' \in UsableWorkers /\ scan' \in [Threads -> UsableThreads]
    BY <1>6, IdleWorkerType, IdleThreadType DEF Crash
  <2> QED BY <1>6, <2>1, <2>2, <2>3, <2>4, <2>5, EmptySeq, UsableTypes, UsableScanType
          DEF Crash, TypeInv, TypeOK
<1> QED BY <1>1, <1>2, <1>3, <1>4, <1>5, <1>6

(* Every step preserves the type invariant. *)
LEMMA TypeStep ==
    ASSUME TypeInv, [Next]_vars PROVE TypeInv'
<1>1. CASE Environment
  <2>1. TypeOK' /\ UNCHANGED <<cursor, worker, scan>>
    <3>1. TypeOK'
      BY <1>1, EnvironmentTypes DEF TypeInv
    <3> QED BY <1>1, <3>1 DEF Environment, Mine, Reorg, Disconnect, Resubscribed,
              StreamGap, LiveError, handle_live_head, handle_live_log, queueVars
  <2> QED BY <2>1 DEF TypeInv
<1>2. CASE UNCHANGED vars
  BY <1>2 DEF vars, TypeInv, TypeOK
<1> QED BY <1>1, <1>2, WorkerTypes, ScanTypes, ReconcileTypes, StartTypes, CallTypes DEF Next

(* Every field of the shared state, of the queues and of the threads keeps its
   type in every reachable state; in particular no head, range bound or cursor
   leaves the chain, although DurableHead and the overlap window subtract. *)
THEOREM TypeCorrect == Spec => []TypeOK
<1>1. Init => TypeInv
  BY TypeInit
<1>2. TypeInv /\ [Next]_vars => TypeInv'
  BY TypeStep
<1>3. TypeInv => TypeOK
  BY DEF TypeInv
<1> QED BY <1>1, <1>2, <1>3, PTL DEF Spec

-----------------------------------------------------------------------------
(* What steps of other threads leave alone.                                *)

(* Finish changes only the result of the waiter. *)
LEMMA FinishKeeps ==
    ASSUME TypeInv, NEW job \in JobRecords,
           NEW x \in {"none", "true", "false", "failed"}, Finish(job, x), NEW u \in Threads
    PROVE  /\ scan'[u] = [scan[u] EXCEPT !.result = IF job.waiter = u THEN x ELSE scan[u].result]
           /\ scan'[u].pc = scan[u].pc
<1>1. scan \in [Threads -> ThreadStates] /\ scan[u] \in ThreadStates
  BY UsableScanType DEF TypeInv
<1>2. scan[u] = [scan[u] EXCEPT !.result = scan[u].result]
  BY <1>1 DEF ThreadStates
<1>3. "none" \notin Threads /\ job.waiter \in Threads \cup {"none"}
  BY DEF JobRecords, Threads
<1>4. scan'[u] = [scan[u] EXCEPT !.result = IF job.waiter = u THEN x ELSE scan[u].result]
  BY <1>1, <1>2, <1>3 DEF Finish
<1>5. [scan[u] EXCEPT !.result = IF job.waiter = u THEN x ELSE scan[u].result].pc = scan[u].pc
  BY <1>1 DEF ThreadStates
<1> QED BY <1>4, <1>5

(* The delivery worker moves no other thread. *)
LEMMA WorkerKeepsPcs ==
    ASSUME TypeInv, WorkerStep \/ CallbackThrows, NEW u \in Threads
    PROVE  scan'[u].pc = scan[u].pc
<1>0. /\ worker \in UsableWorkers /\ hist \in Seq(JobRecords) /\ liveq \in Seq(JobRecords)
  BY DEF TypeInv, TypeOK
<1>w. worker.pc # "idle" => worker.job \in JobRecords
  BY <1>0 DEF UsableWorkers
<1>b. ASSUME NEW job \in JobRecords, Begin(job) PROVE scan'[u].pc = scan[u].pc
  BY <1>b, FinishKeeps DEF Begin
<1>1. CASE PopHistorical
  <2>1. Head(hist) \in JobRecords /\ Begin(Head(hist))
    BY <1>0, <1>1 DEF PopHistorical
  <2> QED BY <2>1, <1>b
<1>2. CASE PopLive
  <2>1. Head(liveq) \in JobRecords /\ Begin(Head(liveq))
    BY <1>0, <1>2 DEF PopLive
  <2> QED BY <2>1, <1>b
<1>3. CASE EmitRewind \/ CallbackThrows
  BY <1>3 DEF EmitRewind, CallbackThrows
<1>4. CASE EmitAdmit
  BY <1>w, <1>4, FinishKeeps DEF EmitAdmit
<1>5. CASE CallbackReturns
  BY <1>w, <1>5, FinishKeeps DEF CallbackReturns
<1>6. CASE schedule_overlap_recovery
  BY <1>w, <1>6, FinishKeeps DEF schedule_overlap_recovery
<1> QED BY <1>1, <1>2, <1>3, <1>4, <1>5, <1>6 DEF WorkerStep

(* A thread's own step moves no other thread. *)
LEMMA OwnStep ==
    ASSUME TypeInv, NEW t \in Threads, NEW u \in Threads, u # t,
           \/ \E r : SetThread(t, r)
           \/ \E pc : Goto(t, pc) \/ Leave(t, pc)
    PROVE  scan'[u] = scan[u]
BY DEF TypeInv, SetThread, Goto, Leave

-----------------------------------------------------------------------------
(* stop() silences the reconciliation worker.                              *)

QuietInv ==
    /\ flags.quiet => ~ls.accepting
    /\ QuietAfterStop

(* After stop() returned only start_live sets accepting again, and the
   reconciliation worker enters a scan only while accepting is set. *)
LEMMA QuietStep ==
    ASSUME TypeInv, QuietInv, [Next]_vars PROVE QuietInv'
<1> DEFINE pc == scan["reconcile"].pc
<1>0. /\ ls \in LiveStates /\ flags \in Flags /\ link \in Links
      /\ "reconcile" \in Threads /\ "user" \in Threads /\ "user" # "reconcile"
      /\ scan \in [Threads -> ThreadStates] /\ scan["reconcile"] \in ThreadStates
  BY UsableScanType DEF TypeInv, TypeOK, Threads
<1>q. QuietInv = ((flags.quiet => ~ls.accepting) /\ (flags.quiet => pc \notin ScanPcs))
  BY DEF QuietInv, QuietAfterStop, ReconcileMutexHeld
<1>k. ASSUME ls'.accepting => ls.accepting, flags'.quiet => flags.quiet,
             pc' \in ScanPcs => pc \in ScanPcs \/ ls.accepting
      PROVE  QuietInv'
  BY <1>k DEF QuietInv, QuietAfterStop, ReconcileMutexHeld
<1>n. {"idle", "release", "report"} \cap ScanPcs = {}
  BY DEF ScanPcs
<1>l. ASSUME NEW p \in {"idle", "release"}, Leave("reconcile", p) \/ Goto("reconcile", p)
      PROVE  pc' \notin ScanPcs
  <2>1. pc' = p
    <3>1. ASSUME NEW r, SetThread("reconcile", r) PROVE pc' = r.pc
      BY <1>0, <3>1 DEF SetThread
    <3>2. [scan["reconcile"] EXCEPT !.pc = p].pc = p
      BY <1>0 DEF ThreadStates
    <3>3. ASSUME NEW a, NEW b, NEW c
          PROVE  [IdleThread EXCEPT !.pc = p, !.call = a, !.gen = b, !.overlap = c].pc = p
      BY DEF IdleThread
    <3>4. IdleThread.pc = "idle"
      BY DEF IdleThread
    <3>5. CASE Goto("reconcile", p)
      BY <3>1, <3>2, <3>5 DEF Goto
    <3>6. CASE Leave("reconcile", p)
      <4> DEFINE s == scan["reconcile"]
                 r == IF p = "idle" THEN IdleThread
                      ELSE [IdleThread EXCEPT !.pc = p, !.call = s.call, !.gen = s.gen,
                                              !.overlap = s.overlap]
      <4>1. r.pc = p
        BY <3>3, <3>4
      <4>2. SetThread("reconcile", r)
        BY <3>6 DEF Leave
      <4> HIDE DEF r
      <4> QED BY <3>1, <4>1, <4>2
    <3> QED BY <1>l, <3>5, <3>6
  <2> QED BY <2>1, <1>n
<1>1. CASE Environment
  <2>1. scan' = scan
    BY <1>1 DEF Environment, Mine, Reorg, Disconnect, Resubscribed, StreamGap,
                LiveError, handle_live_head, handle_live_log
  <2>2. flags'.quiet = flags.quiet
    BY <1>0, <1>1 DEF Environment, Mine, Reorg, Disconnect, Resubscribed, StreamGap,
                LiveError, handle_live_head, handle_live_log, historyVars, Flags
  <2>3. ls'.accepting = ls.accepting
    <3>1. ASSUME NEW g PROVE ErrorNoted(g).accepting = ls.accepting
      BY <1>0 DEF ErrorNoted, LiveStates
    <3>2. ASSUME NEW h, NEW g PROVE HeadNoted(ls, h, g).accepting = ls.accepting
      BY <1>0 DEF HeadNoted, LiveStates
    <3>3. CASE handle_live_log
      BY <1>0, <3>3 DEF handle_live_log, LiveStates
    <3>4. CASE StreamGap \/ LiveError
      BY <3>1, <3>4 DEF StreamGap, LiveError
    <3>5. ASSUME NEW h \in Blocks, handle_live_head(h) PROVE ls'.accepting = ls.accepting
      BY <3>2, <3>5 DEF handle_live_head
    <3>6. CASE Mine \/ (\E b \in Blocks : Reorg(b)) \/ Disconnect \/ Resubscribed
      BY <3>6 DEF Mine, Reorg, Disconnect, Resubscribed
    <3> QED BY <1>1, <3>3, <3>4, <3>5, <3>6 DEF Environment
  <2> QED BY <2>1, <2>2, <2>3, <1>k
<1>2. CASE WorkerStep \/ CallbackThrows
  <2>1. pc' = pc
    BY <1>0, <1>2, WorkerKeepsPcs
  <2>2. flags' = flags
    BY <1>2 DEF WorkerStep, PopHistorical, PopLive, EmitRewind, EmitAdmit,
          CallbackReturns, schedule_overlap_recovery, CallbackThrows, historyVars
  <2>3. ls'.accepting = ls.accepting
    BY <1>0, <1>2 DEF WorkerStep, PopHistorical, PopLive, EmitRewind, EmitAdmit,
          CallbackReturns, schedule_overlap_recovery, CallbackThrows, LiveStates
  <2> QED BY <2>1, <2>2, <2>3, <1>k
<1>3. ASSUME NEW t \in Threads, ScanStep(t) \/ CallThrows(t) PROVE QuietInv'
  <2>1. ls' = ls
    BY <1>3 DEF ScanStep, CallThrows, LoadCursor, reconcile_gap, FetchRange, ComputeOrphans,
          NextLog, DispatchReturns, save_log_checkpoint, save_checkpoint, scanFrame
  <2>2. flags'.quiet = flags.quiet
    BY <1>0, <1>3 DEF ScanStep, CallThrows, LoadCursor, reconcile_gap, FetchRange,
          ComputeOrphans, NextLog, DispatchReturns, save_log_checkpoint, save_checkpoint,
          historyVars, Flags
  <2>3. CASE t = "user"
    <3>1. scan'["reconcile"] = scan["reconcile"]
      BY <1>0, <1>3, <2>3, OwnStep DEF ScanStep, CallThrows, LoadCursor, reconcile_gap,
            FetchRange, ComputeOrphans, NextLog, Dispatch, DispatchReturns,
            save_log_checkpoint, save_checkpoint
    <3> QED BY <2>1, <2>2, <3>1, <1>k
  <2>4. CASE t = "reconcile"
    <3>1. CASE pc \in ScanPcs
      BY <2>1, <2>2, <3>1, <1>k
    <3>2. CASE pc \notin ScanPcs
      <4>1. Leave("reconcile", "report")
        BY <1>3, <2>4, <3>2 DEF ScanStep, CallThrows, LoadCursor, reconcile_gap, FetchRange,
          ComputeOrphans, NextLog, DispatchReturns, save_log_checkpoint, save_checkpoint,
          ScanPcs, ThrowPc
      <4>2. pc' = "report"
        BY <1>0, <4>1 DEF Leave, SetThread, IdleThread
      <4> QED BY <2>1, <2>2, <4>2, <1>n, <1>k
    <3> QED BY <3>1, <3>2
  <2> QED BY <2>3, <2>4 DEF Threads
<1>4. CASE ReconcileStep
  <2>1. ls'.accepting = ls.accepting /\ flags' = flags
    BY <1>0, <1>4 DEF ReconcileStep, ReconcileWake, RefreshHead, reconcile_confirmed,
          report_reconciliation_failure, ReconcileRelease, historyVars, LiveStates
  <2>2. CASE ReconcileWake \/ RefreshHead
    <3>1. pc' \in {"refresh", "confirm"}
      <4>1. CASE ReconcileWake
        BY <1>0, <4>1 DEF ReconcileWake, SetThread, IdleThread
      <4>2. CASE RefreshHead
        BY <1>0, <4>2 DEF RefreshHead, SetThread, ThreadStates
      <4> QED BY <2>2, <4>1, <4>2
    <3>2. pc' \notin ScanPcs
      BY <3>1 DEF ScanPcs
    <3> QED BY <2>1, <3>2, <1>k
  <2>3. CASE reconcile_confirmed
    <3>1. ls.accepting \/ Leave("reconcile", "release")
      BY <2>3 DEF reconcile_confirmed
    <3> QED BY <2>1, <3>1, <1>l, <1>k
  <2>4. CASE report_reconciliation_failure \/ ReconcileRelease
    <3>1. pc' \notin ScanPcs
      BY <2>4, <1>l DEF report_reconciliation_failure, ReconcileRelease
    <3> QED BY <2>1, <3>1, <1>k
  <2> QED BY <1>4, <2>2, <2>3, <2>4 DEF ReconcileStep
<1>5. CASE StartStep
  <2>1. scan'["reconcile"] = scan["reconcile"]
    BY <1>0, <1>5, OwnStep DEF StartStep, Subscribe, CaptureBoundary, Handoff,
          drain_live_buffer, DrainGap, DrainWait, ReplayHead, StartLiveReturns,
          StartLiveAborts
  <2>2. flags' = flags
    BY <1>5 DEF StartStep, Subscribe, CaptureBoundary, Handoff, drain_live_buffer,
          DrainGap, DrainWait, ReplayHead, StartLiveReturns, StartLiveAborts, historyVars
  <2>3. ls'.accepting => ls.accepting
    <3>1. ASSUME NEW h, NEW g PROVE HeadNoted(ls, h, g).accepting = ls.accepting
      BY <1>0 DEF HeadNoted, LiveStates
    <3>2. Idled(ls).accepting = FALSE
      BY <1>0 DEF Idled, LiveStates
    <3>3. CASE drain_live_buffer \/ StartLiveReturns
      BY <1>0, <3>3 DEF drain_live_buffer, StartLiveReturns, LiveStates
    <3> QED BY <1>5, <3>1, <3>2, <3>3 DEF StartStep, Subscribe, CaptureBoundary,
          Handoff, DrainGap, DrainWait, ReplayHead, StartLiveAborts
  <2> QED BY <2>1, <2>2, <2>3, <1>k
<1>6. CASE catch_up
  <2>1. scan'["reconcile"] = scan["reconcile"]
    BY <1>0, <1>6, OwnStep DEF catch_up
  <2> QED BY <1>6, <2>1, <1>k DEF catch_up, historyVars
<1>7. CASE start_live
  <2>1. ~flags'.quiet
    BY <1>0, <1>7 DEF start_live, Flags
  <2> QED BY <2>1 DEF QuietInv, QuietAfterStop
<1>8. CASE StopSignal
  <2>1. ~ls'.accepting
    BY <1>0, <1>8 DEF StopSignal, Idled, LiveStates
  <2> QED BY <1>8, <2>1, <1>k DEF StopSignal, historyVars
<1>9. CASE StopTransport
  BY <1>9, <1>k DEF StopTransport, historyVars
<1>10. CASE StopReturn
  <2>1. flags'.quiet = ~ls.accepting
    BY <1>0, <1>10 DEF StopReturn, Flags
  <2> QED BY <1>10, <2>1 DEF StopReturn, QuietInv, QuietAfterStop, ReconcileMutexHeld
<1>11. CASE Crash
  <2>1. pc' = "idle" /\ ~ls'.accepting
    BY <1>0, <1>11 DEF Crash, IdleThread, InitialLiveState
  <2> QED BY <2>1, <1>n DEF QuietInv, QuietAfterStop, ReconcileMutexHeld
<1>12. CASE UNCHANGED vars
  BY <1>12, <1>k DEF vars
<1> QED BY <1>1, <1>2, <1>3, <1>4, <1>5, <1>6, <1>7, <1>8, <1>9, <1>10, <1>11, <1>12 DEF Next

(* Once stop() has returned, and until the next start_live, no scan of the
   reconciliation worker is in progress, in every interleaving of stop,
   start_live, gaps, crashes and failures: passing through reconcile_mutex after
   accepting was cleared is enough. *)
THEOREM StopIsQuiet == Spec => []QuietAfterStop
<1>1. Init => TypeInv /\ QuietInv
  <2>1. Init => QuietInv
    BY DEF Init, QuietInv, QuietAfterStop, ReconcileMutexHeld, InitialLiveState,
           IdleThread, ScanPcs, Threads
  <2> QED BY <2>1, TypeInit
<1>2. TypeInv /\ QuietInv /\ [Next]_vars => (TypeInv /\ QuietInv)'
  BY TypeStep, QuietStep
<1>3. QuietInv => QuietAfterStop
  BY DEF QuietInv
<1> QED BY <1>1, <1>2, <1>3, PTL DEF Spec

-----------------------------------------------------------------------------
(* The persisted cursor never claims an undelivered block: CursorCovers.   *)
(* It is not inductive: what a checkpoint may claim depends on how far a   *)
(* scan has come, which logs of the range it fetched are still to be       *)
(* delivered, and on the answer a waiting thread will get for the delivery *)
(* it has queued.  CursorInv says all of that.  Its parts take the state   *)
(* they are about as arguments, so that a step that leaves that state      *)
(* alone needs no expansion of them.                                       *)

(* Blocks that may be claimed. *)
DoneBlocks == {b \in StartBlock..MaxBlock : Covered(b) \/ b \in skipped}

(* All blocks below n may be claimed when D are the blocks that may be. *)
Below(n, D) == \A b \in StartBlock..MaxBlock : b < n => b \in D

(* Everything before log l in its block was accepted; E is `ever'. *)
PrefixIn(l, E) == \A i \in Indexes : i < l.index => LogAt(l.block, l.fork, i) \in E

(* A partial cursor names a delivered prefix of its own block. *)
SoundCursor(c, E) ==
    c.last # NoLog => /\ c.last.block = c.block /\ ~c.complete
                      /\ c.last \in E /\ PrefixIn(c.last, E)

Scanning == {"range", "orphans", "log", "wait", "save", "checkpoint"}
InRangeLoop == {"orphans", "log", "wait", "save", "checkpoint"}

(* The thread waits for the delivery of a canonical log. *)
AwaitsLog(r) == r.pc = "wait" /\ ~r.removed

(* The version f of block b that the thread fetched is delivered except for
   the logs it still has to dispatch and the one it waits for. *)
FetchedVersion(r, b, f, E) ==
    /\ \A i \in Indexes :
          \/ LogAt(b, f, i) \in E \/ LogAt(b, f, i) \in r.todo
          \/ AwaitsLog(r) /\ LogAt(b, f, i) = r.log
    /\ \A l \in r.todo : l.block = b => l.fork = f

Fetched(r, E, k) ==
    /\ \A b \in r.next..r.to : \E f \in 0..k : FetchedVersion(r, b, f, E)
    /\ \A l \in r.todo : l.block \in r.next..r.to

(* The log in hand may be checkpointed once it is delivered. *)
Ready(r, E, D) == PrefixIn(r.log, E) /\ Below(r.log.block, D)

(* The answer a thread got for its log means what the thread takes it for. *)
Answered(r, E, g) ==
    /\ r.result = "true" => r.log \in E
    /\ r.result = "false" => r.log \in E \/ r.gen < g

(* A scan at every point of its loops. *)
ScanOK(r, E, D, k, g) ==
    /\ SoundCursor(r.resume, E)
    /\ r.pc \in Scanning => Below(r.next, D)
    /\ r.pc \in InRangeLoop => Fetched(r, E, k)
    /\ r.pc = "checkpoint" => r.todo = {}
    /\ AwaitsLog(r) \/ r.pc = "save" => Ready(r, E, D)
    /\ r.pc = "save" => r.log \in E
    /\ AwaitsLog(r) => Answered(r, E, g)

(* Heads, targets and generations of a thread are not ahead of the chain and
   of the session. *)
ThreadBounds(r, h, g) ==
    /\ r.head <= h /\ r.target <= h /\ r.gen <= g
    /\ r.pc \in InRangeLoop => r.next <= r.to

EnvBounds ==
    /\ \A b \in Blocks : chain.fork[b] <= chain.forks
    /\ \A h \in link.heads : h <= chain.head
    /\ ls.bufferedHead <= chain.head /\ ls.pendingHead <= chain.head
    /\ ls.pendingGen <= ls.generation

(* The thread waits for an answer. *)
Waits(r) == r.result = "none" /\ r.pc \in {"wait", "drainwait"}

(* A delivery somebody waits for is the one the waiter thinks it is. *)
Awaited(job, r) ==
    /\ Waits(r)
    /\ r.pc = "wait" => /\ job.log = r.log /\ job.removed = r.removed
                        /\ job.gen = r.gen

(* At most one queued or running delivery answers a thread. *)
WaitersOK(h, q, w, sc) ==
    /\ \A i \in 1..Len(h) : h[i].waiter # "none" =>
          /\ Awaited(h[i], sc[h[i].waiter])
          /\ \A j \in 1..Len(h) : h[j].waiter = h[i].waiter => j = i
    /\ \A i \in 1..Len(q) : q[i].waiter = "none"
    /\ w.pc # "idle" /\ w.job.waiter # "none" =>
          /\ Awaited(w.job, sc[w.job.waiter])
          /\ \A j \in 1..Len(h) : h[j].waiter # w.job.waiter

(* delivered_logs holds accepted logs, and the one in the callback. *)
DeliveredOK(d, w, E) ==
    /\ \A l \in d : \/ l \in E
                    \/ w.pc = "callback" /\ ~w.job.removed /\ w.job.log = l
    /\ w.pc = "callback" /\ w.job.removed /\ w.held => w.job.log \in E

CursorOK(c, E, D) ==
    /\ SoundCursor(c, E)
    /\ \A b \in StartBlock..MaxBlock : Passed(c, b) => b \in D

BoundsInv ==
    EnvBounds /\ \A t \in Threads : ThreadBounds(scan[t], chain.head, ls.generation)
ScanInv ==
    \A t \in Threads : ScanOK(scan[t], ever, DoneBlocks, chain.forks, ls.generation)
WaiterInv    == WaitersOK(hist, liveq, worker, scan)
DeliveredInv == DeliveredOK(delivered, worker, ever)

CursorInv ==
    /\ TypeInv /\ BoundsInv /\ ScanInv /\ WaiterInv /\ DeliveredInv
    /\ CursorOK(cursor, ever, DoneBlocks)

-----------------------------------------------------------------------------
(* The parts of the invariant, one at a time.                              *)

(* More delivered logs and more done blocks keep a cursor sound. *)
LEMMA CursorGrows ==
    ASSUME NEW E, NEW F, NEW D, NEW G, E \subseteq F, D \subseteq G
    PROVE  /\ \A c : SoundCursor(c, E) => SoundCursor(c, F)
           /\ \A n : Below(n, D) => Below(n, G)
           /\ \A l : PrefixIn(l, E) => PrefixIn(l, F)
           /\ \A c : CursorOK(c, E, D) => CursorOK(c, F, G)
<1>1. \A l : PrefixIn(l, E) => PrefixIn(l, F)
  BY DEF PrefixIn
<1>2. \A c : SoundCursor(c, E) => SoundCursor(c, F)
  BY <1>1 DEF SoundCursor
<1>3. \A n : Below(n, D) => Below(n, G)
  BY DEF Below
<1> QED BY <1>1, <1>2, <1>3 DEF CursorOK

(* A fetched range stays fetched when more is delivered. *)
LEMMA FetchedGrows ==
    ASSUME NEW r, NEW E, NEW F, NEW k \in Nat, NEW m \in Nat, E \subseteq F, k <= m,
           Fetched(r, E, k)
    PROVE  Fetched(r, F, m)
<1>1. ASSUME NEW b \in r.next..r.to PROVE \E f \in 0..m : FetchedVersion(r, b, f, F)
  <2>1. PICK f \in 0..k : FetchedVersion(r, b, f, E)
    BY <1>1 DEF Fetched
  <2>2. FetchedVersion(r, b, f, F)
    BY <2>1 DEF FetchedVersion
  <2> QED BY <2>1, <2>2
<1> QED BY <1>1 DEF Fetched

(* A scan that does nothing is not disturbed by what others deliver. *)
LEMMA ScanGrows ==
    ASSUME NEW r \in ThreadStates, NEW E, NEW F, NEW D, NEW G, NEW k \in Nat, NEW m \in Nat,
           NEW g \in Nat, NEW j \in Nat,
           E \subseteq F, D \subseteq G, k <= m, g <= j, ScanOK(r, E, D, k, g)
    PROVE  ScanOK(r, F, G, m, j)
<1>1. r.gen \in Nat
  BY DEF ThreadStates
<1>2. r.pc \in InRangeLoop => Fetched(r, F, m)
  BY FetchedGrows DEF ScanOK
<1>3. SoundCursor(r.resume, F) /\ (r.pc \in Scanning => Below(r.next, G))
  BY CursorGrows DEF ScanOK
<1>4. AwaitsLog(r) \/ r.pc = "save" => Ready(r, F, G)
  BY CursorGrows DEF ScanOK, Ready
<1>5. AwaitsLog(r) => Answered(r, F, j)
  BY <1>1 DEF ScanOK, Answered
<1> QED BY <1>2, <1>3, <1>4, <1>5 DEF ScanOK

(* A new answer must be a true one. *)
LEMMA ScanAnswered ==
    ASSUME NEW r \in ThreadStates, NEW E, NEW D, NEW k, NEW g,
           NEW x \in {"none", "true", "false", "failed"},
           ScanOK(r, E, D, k, g),
           AwaitsLog(r) => Answered([r EXCEPT !.result = x], E, g)
    PROVE  ScanOK([r EXCEPT !.result = x], E, D, k, g)
<1> DEFINE s == [r EXCEPT !.result = x]
<1>1. /\ s.pc = r.pc /\ s.resume = r.resume /\ s.next = r.next /\ s.to = r.to
      /\ s.todo = r.todo /\ s.log = r.log /\ s.removed = r.removed /\ s.gen = r.gen
  BY DEF ThreadStates
<1> HIDE DEF s
<1>2. AwaitsLog(s) = AwaitsLog(r)
  BY <1>1 DEF AwaitsLog
<1>3. Fetched(r, E, k) => Fetched(s, E, k)
  <2>1. ASSUME NEW b, NEW f PROVE FetchedVersion(s, b, f, E) = FetchedVersion(r, b, f, E)
    BY <1>1, <1>2 DEF FetchedVersion
  <2> QED BY <1>1, <2>1 DEF Fetched
<1>4. Ready(r, E, D) => Ready(s, E, D)
  BY <1>1 DEF Ready
<1> QED BY <1>1, <1>2, <1>3, <1>4 DEF ScanOK, s

(* Outside the range loops there is nothing to say. *)
LEMMA ScanIdle ==
    ASSUME NEW r, NEW E, NEW D, NEW k, NEW g,
           r.pc \notin Scanning, SoundCursor(r.resume, E)
    PROVE  ScanOK(r, E, D, k, g)
BY DEF ScanOK, Scanning, InRangeLoop, AwaitsLog

(* No cursor claims nothing. *)
LEMMA NoCursorSound == ASSUME NEW E PROVE SoundCursor(NoCursor, E)
BY DEF SoundCursor, NoCursor

(* A fetched range of which nothing is left to dispatch is done. *)
LEMMA RangeDone ==
    ASSUME TypeInv, NEW r \in ThreadStates, r.pc \in InRangeLoop, ~AwaitsLog(r), r.todo = {},
           ScanOK(r, ever, DoneBlocks, chain.forks, ls.generation)
    PROVE  Below(r.to + 1, DoneBlocks)
<1>0. /\ r.next \in Nat /\ r.to \in Nat /\ StartBlock \in Nat /\ MaxBlock \in Nat
  BY ConstantTypes DEF ThreadStates, Blocks
<1>1. ASSUME NEW b \in StartBlock..MaxBlock, b < r.to + 1 PROVE b \in DoneBlocks
  <2>1. CASE b < r.next
    BY <1>1, <2>1 DEF ScanOK, Below, InRangeLoop, Scanning
  <2>2. CASE ~(b < r.next)
    <3>1. b \in r.next..r.to
      BY <1>0, <1>1, <2>2
    <3>2. PICK f \in 0..chain.forks : FetchedVersion(r, b, f, ever)
      BY <3>1 DEF ScanOK, Fetched
    <3>3. Covered(b)
      BY <3>2 DEF FetchedVersion, Covered
    <3> QED BY <1>1, <3>3 DEF DoneBlocks
  <2> QED BY <2>1, <2>2
<1> QED BY <1>1 DEF Below

(* What every step but a crash does to the history and the chain. *)
Grows ==
    /\ ever \subseteq ever' /\ skipped \subseteq skipped'
    /\ chain.forks <= chain'.forks /\ chain.head <= chain'.head
    /\ ls.generation <= ls'.generation

(* Field types that are used everywhere. *)
LEMMA InvTypes ==
    ASSUME TypeInv
    PROVE  /\ chain.forks \in Nat /\ chain.head \in Blocks /\ chain.head \in Nat
           /\ chain.fork \in [Blocks -> Nat] /\ ls.generation \in Nat
           /\ ls.pendingGen \in Nat /\ link.gen \in Nat /\ link.heads \subseteq Blocks
           /\ ls.bufferedHead \in MaybeHead /\ ls.pendingHead \in MaybeHead
           /\ \A t \in Threads : scan[t] \in ThreadStates /\ scan[t] \in UsableThreads
<1>1. chain \in Chains /\ ls \in LiveStates /\ link \in Links
      /\ scan \in [Threads -> UsableThreads]
  BY DEF TypeInv, TypeOK
<1>2. chain.forks \in Nat /\ chain.head \in Blocks /\ chain.fork \in [Blocks -> Nat]
  BY <1>1 DEF Chains
<1>3. /\ ls.generation \in Nat /\ ls.pendingGen \in Nat
      /\ ls.bufferedHead \in MaybeHead /\ ls.pendingHead \in MaybeHead
  BY <1>1 DEF LiveStates
<1>4. link.gen \in Nat /\ link.heads \subseteq Blocks
  BY <1>1 DEF Links
<1> QED BY <1>1, <1>2, <1>3, <1>4, UsableTypes, ConstantTypes

(* Heads are integers. *)
LEMMA MaybeHeadInt == MaybeHead \subseteq Int /\ \A h \in MaybeHead : h >= NoHead
<1>1. Blocks \subseteq Nat
  BY ConstantTypes
<1> QED BY <1>1 DEF MaybeHead, NoHead

(* The numbers in the chain and in the session, before and after a step. *)
LEMMA NumberTypes ==
    ASSUME TypeInv, TypeInv'
    PROVE  /\ chain.forks \in Nat /\ chain'.forks \in Nat
           /\ chain.head \in Nat /\ chain'.head \in Nat
           /\ ls.generation \in Nat /\ ls'.generation \in Nat
<1>1. /\ chain \in Chains /\ chain' \in Chains /\ ls \in LiveStates /\ ls' \in LiveStates
  BY DEF TypeInv, TypeOK
<1>2. \A c \in Chains : c.forks \in Nat /\ c.head \in Nat
  BY ConstantTypes DEF Chains
<1>3. \A s \in LiveStates : s.generation \in Nat
  BY DEF LiveStates
<1> QED BY <1>1, <1>2, <1>3

(* Blocks stay done. *)
LEMMA DoneGrows ==
    ASSUME TypeInv, TypeInv', Grows PROVE DoneBlocks \subseteq DoneBlocks'
<1>1. chain.forks \in Nat /\ chain'.forks \in Nat
  BY NumberTypes
<1>2. ASSUME NEW b, Covered(b) PROVE Covered(b)'
  BY <1>1, <1>2 DEF Covered, Grows
<1> QED BY <1>2 DEF DoneBlocks, Grows

(* A thread that does not move is not disturbed. *)
LEMMA OthersKeep ==
    ASSUME CursorInv, TypeInv', Grows, NEW u \in Threads, scan'[u] = scan[u]
    PROVE  /\ ScanOK(scan'[u], ever', DoneBlocks', chain'.forks, ls'.generation)
           /\ ThreadBounds(scan'[u], chain'.head, ls'.generation)
<1>0. TypeInv /\ scan[u] \in ThreadStates
  BY InvTypes DEF CursorInv
<1>1. /\ chain.forks \in Nat /\ chain'.forks \in Nat /\ chain.head \in Nat
      /\ chain'.head \in Nat /\ ls.generation \in Nat /\ ls'.generation \in Nat
  BY <1>0, NumberTypes
<1>2. ScanOK(scan[u], ever, DoneBlocks, chain.forks, ls.generation)
      /\ ThreadBounds(scan[u], chain.head, ls.generation)
  BY DEF CursorInv, ScanInv, BoundsInv
<1>3. ScanOK(scan[u], ever', DoneBlocks', chain'.forks, ls'.generation)
  BY <1>0, <1>1, <1>2, ScanGrows, DoneGrows DEF Grows
<1>4. scan[u].gen \in Nat /\ scan[u].target \in Nat /\ scan[u].head \in Int
  <2>1. scan[u].gen \in Nat /\ scan[u].target \in Blocks /\ scan[u].head \in MaybeHead
    BY <1>0 DEF ThreadStates
  <2> QED BY <2>1, ConstantTypes, MaybeHeadInt
<1>5. ThreadBounds(scan[u], chain'.head, ls'.generation)
  BY <1>1, <1>2, <1>4 DEF Grows, ThreadBounds
<1> QED BY <1>3, <1>5

(* The store operations: a rewind claims less, a save claims what it is given. *)
LEMMA StoreKeeps ==
    ASSUME NEW E, NEW D, cursor \in Cursors, CursorOK(cursor, E, D)
    PROVE  /\ \A b \in Blocks : CursorOK(RewindCursor(b), E, D)
           /\ \A c : CursorOK(c, E, D) => CursorOK(SaveCursor(c), E, D)
<1>1. ASSUME NEW b \in Blocks PROVE CursorOK(RewindCursor(b), E, D)
  <2>1. CASE cursor = NoCursor \/ b > cursor.block
    BY <2>1 DEF RewindCursor
  <2>2. CASE ~(cursor = NoCursor \/ b > cursor.block)
    <3> DEFINE c == [block |-> b, complete |-> FALSE, last |-> NoLog]
    <3>1. RewindCursor(b) = c
      BY <2>2 DEF RewindCursor
    <3>2. cursor.block \in Int /\ b \in Nat /\ StartBlock \in Nat /\ MaxBlock \in Nat
      BY ConstantTypes DEF Cursors, MaybeHead, NoHead, Blocks
    <3>3. SoundCursor(c, E)
      BY DEF SoundCursor
    <3>4. ASSUME NEW a \in StartBlock..MaxBlock, Passed(c, a) PROVE Passed(cursor, a)
      BY <2>2, <3>2, <3>4 DEF Passed
    <3> QED BY <3>1, <3>3, <3>4 DEF CursorOK
  <2> QED BY <2>1, <2>2
<1>2. ASSUME NEW c, CursorOK(c, E, D) PROVE CursorOK(SaveCursor(c), E, D)
  BY <1>2 DEF SaveCursor
<1> QED BY <1>1, <1>2

(* A thread that waits for nothing may move. *)
LEMMA WaitersOther ==
    ASSUME NEW h \in Seq(JobRecords), NEW q, NEW w, NEW sc, NEW sd, NEW t \in Threads,
           w.pc # "idle" => w.job \in JobRecords,
           WaitersOK(h, q, w, sc), ~Waits(sc[t]),
           \A u \in Threads : u # t => sd[u] = sc[u]
    PROVE  WaitersOK(h, q, w, sd)
<1>1. ASSUME NEW i \in 1..Len(h), h[i].waiter # "none"
      PROVE  h[i].waiter \in Threads /\ h[i].waiter # t
  <2>1. h[i] \in JobRecords
    BY <1>1
  <2>2. h[i].waiter \in Threads
    BY <1>1, <2>1 DEF JobRecords
  <2> QED BY <1>1, <2>2 DEF WaitersOK, Awaited
<1>2. ASSUME w.pc # "idle", w.job.waiter # "none"
      PROVE  w.job.waiter \in Threads /\ w.job.waiter # t
  <2>1. w.job.waiter \in Threads
    BY <1>2 DEF JobRecords
  <2> QED BY <1>2, <2>1 DEF WaitersOK, Awaited
<1> QED BY <1>1, <1>2 DEF WaitersOK

(* How a step of thread t that queues no delivery preserves the invariant. *)
LEMMA ThreadMoves ==
    ASSUME CursorInv, TypeInv', Grows, NEW t \in Threads, ~Waits(scan[t]),
           \A u \in Threads : u # t => scan'[u] = scan[u],
           ScanOK(scan'[t], ever', DoneBlocks', chain'.forks, ls'.generation),
           ThreadBounds(scan'[t], chain'.head, ls'.generation)
    PROVE  /\ ScanInv' /\ (\A u \in Threads : ThreadBounds(scan[u], chain.head, ls.generation))'
           /\ WaitersOK(hist, liveq, worker, scan')
<1>1. ScanInv' /\ (\A u \in Threads : ThreadBounds(scan[u], chain.head, ls.generation))'
  BY OthersKeep DEF ScanInv
<1>2. hist \in Seq(JobRecords) /\ (worker.pc # "idle" => worker.job \in JobRecords)
      /\ WaitersOK(hist, liveq, worker, scan)
  BY DEF CursorInv, TypeInv, TypeOK, UsableWorkers, WaiterInv
<1>3. WaitersOK(hist, liveq, worker, scan')
  BY <1>2, WaitersOther
<1> QED BY <1>1, <1>3

(* How a step that moves no thread preserves the invariant. *)
LEMMA NobodyMoves ==
    ASSUME CursorInv, TypeInv', Grows, scan' = scan
    PROVE  /\ ScanInv' /\ (\A u \in Threads : ThreadBounds(scan[u], chain.head, ls.generation))'
BY OthersKeep DEF ScanInv

(* Leaving a scan. *)
LEMMA LeaveOK ==
    ASSUME CursorInv, TypeInv', Grows, NEW t \in Threads, ~Waits(scan[t]),
           NEW pc \in Pcs \ ScanPcs, Leave(t, pc)
    PROVE  /\ ScanInv' /\ (\A u \in Threads : ThreadBounds(scan[u], chain.head, ls.generation))'
           /\ WaitersOK(hist, liveq, worker, scan')
<1>0. TypeInv /\ ThreadBounds(scan[t], chain.head, ls.generation)
  BY DEF CursorInv, BoundsInv
<1>1. scan \in [Threads -> ThreadStates] /\ scan[t] \in ThreadStates /\ scan[t].gen \in Nat
  BY <1>0, InvTypes, UsableScanType DEF TypeInv, ThreadStates
<1>2. /\ scan'[t].pc \notin Scanning /\ scan'[t].resume = NoCursor
      /\ scan'[t].head = NoHead /\ scan'[t].target = 0
      /\ scan'[t].gen \in {0, scan[t].gen}
  <2>1. pc \notin Scanning /\ "idle" \notin Scanning
    BY DEF Scanning, ScanPcs
  <2>2. scan'[t] \in {IdleThread, [IdleThread EXCEPT !.pc = pc, !.call = scan[t].call,
                                !.gen = scan[t].gen, !.overlap = scan[t].overlap]}
    BY <1>1 DEF Leave, SetThread
  <2> DEFINE r == [IdleThread EXCEPT !.pc = pc, !.call = scan[t].call,
                                !.gen = scan[t].gen, !.overlap = scan[t].overlap]
  <2>3. /\ r.pc = pc /\ r.resume = NoCursor /\ r.head = NoHead /\ r.target = 0
        /\ r.gen = scan[t].gen
    BY DEF IdleThread
  <2>4. /\ IdleThread.pc = "idle" /\ IdleThread.resume = NoCursor
        /\ IdleThread.head = NoHead /\ IdleThread.target = 0 /\ IdleThread.gen = 0
    BY DEF IdleThread
  <2> HIDE DEF r
  <2>5. scan'[t] = IdleThread \/ scan'[t] = r
    BY <2>2 DEF r
  <2> QED BY <2>1, <2>3, <2>4, <2>5
<1>3. ScanOK(scan'[t], ever', DoneBlocks', chain'.forks, ls'.generation)
  BY <1>2, ScanIdle, NoCursorSound
<1>4. /\ chain.head \in Nat /\ chain'.head \in Nat
      /\ ls.generation \in Nat /\ ls'.generation \in Nat
  BY <1>0, NumberTypes
<1>5. scan'[t].pc \notin InRangeLoop
  BY <1>2 DEF Scanning, InRangeLoop
<1>6. ThreadBounds(scan'[t], chain'.head, ls'.generation)
  BY <1>0, <1>1, <1>2, <1>4, <1>5 DEF ThreadBounds, Grows, NoHead
<1>7. \A u \in Threads : u # t => scan'[u] = scan[u]
  BY <1>1 DEF Leave, SetThread
<1> QED BY <1>3, <1>6, <1>7, ThreadMoves

-----------------------------------------------------------------------------
(* One lemma per group of actions.                                         *)

(* Nobody waits for a live delivery. *)
LEMMA LiveQueueOK ==
    ASSUME NEW h, NEW q, NEW p, NEW w, NEW sc, WaitersOK(h, q, w, sc),
           \A i \in 1..Len(p) : p[i].waiter = "none"
    PROVE  WaitersOK(h, p, w, sc)
BY DEF WaitersOK

(* A noted error or head keeps the session's bounds. *)
LEMMA NotedBounds ==
    ASSUME TypeInv, EnvBounds
    PROVE  /\ \A gap \in BOOLEAN :
                 /\ ErrorNoted(gap).bufferedHead <= chain.head
                 /\ ErrorNoted(gap).pendingHead <= chain.head
                 /\ ErrorNoted(gap).pendingGen <= ErrorNoted(gap).generation
                 /\ ErrorNoted(gap).generation = ls.generation
           /\ \A h \in Blocks, g \in Nat : h <= chain.head =>
                 /\ HeadNoted(ls, h, g).bufferedHead <= chain.head
                 /\ HeadNoted(ls, h, g).pendingHead <= chain.head
                 /\ HeadNoted(ls, h, g).pendingGen <= HeadNoted(ls, h, g).generation
                 /\ HeadNoted(ls, h, g).generation = ls.generation
<1>0. ls \in LiveStates
  BY DEF TypeInv, TypeOK
<1>1. /\ ls.bufferedHead <= chain.head /\ ls.pendingHead <= chain.head
      /\ ls.pendingGen <= ls.generation /\ ls.generation \in Nat
  BY InvTypes DEF EnvBounds
<1>2. ASSUME NEW gap \in BOOLEAN
      PROVE  /\ ErrorNoted(gap).bufferedHead <= chain.head
             /\ ErrorNoted(gap).pendingHead <= chain.head
             /\ ErrorNoted(gap).pendingGen <= ErrorNoted(gap).generation
             /\ ErrorNoted(gap).generation = ls.generation
  BY <1>0, <1>1 DEF ErrorNoted, Admitted, LiveStates
<1>3. ASSUME NEW h \in Blocks, NEW g \in Nat, h <= chain.head
      PROVE  /\ HeadNoted(ls, h, g).bufferedHead <= chain.head
             /\ HeadNoted(ls, h, g).pendingHead <= chain.head
             /\ HeadNoted(ls, h, g).pendingGen <= HeadNoted(ls, h, g).generation
             /\ HeadNoted(ls, h, g).generation = ls.generation
  <2>1. Max2(ls.bufferedHead, h) <= chain.head /\ Max2(ls.pendingHead, h) <= chain.head
    BY <1>1, <1>3 DEF Max2
  <2> QED BY <1>0, <1>1, <2>1 DEF HeadNoted, LiveStates
<1> QED BY <1>2, <1>3

(* The external steps and the transport callbacks. *)
LEMMA EnvironmentStep ==
    ASSUME CursorInv, TypeInv', Environment PROVE CursorInv'
<1>0. /\ TypeInv /\ EnvBounds /\ WaitersOK(hist, liveq, worker, scan)
      /\ chain \in Chains /\ link \in Links /\ ls \in LiveStates
      /\ liveq \in Seq(JobRecords)
  BY DEF CursorInv, BoundsInv, WaiterInv, TypeInv, TypeOK
<1>f. /\ chain.forks \in Nat /\ chain.head \in Nat /\ chain.fork \in [Blocks -> Nat]
      /\ ls.generation \in Nat /\ link.heads \subseteq Blocks /\ link.gen \in Nat
      /\ ls.bufferedHead \in Int /\ ls.pendingHead \in Int
  BY <1>0, InvTypes, MaybeHeadInt
<1>u. UNCHANGED <<cursor, hist, delivered, worker, scan, ever, skipped>>
  BY DEF Environment, Mine, Reorg, Disconnect, Resubscribed, StreamGap, LiveError,
         handle_live_head, handle_live_log, queueVars, historyVars
<1>q. ASSUME EnvBounds', Grows, WaitersOK(hist, liveq', worker, scan) PROVE CursorInv'
  <2>1. ScanInv' /\ (\A t \in Threads : ThreadBounds(scan[t], chain.head, ls.generation))'
    BY <1>q, <1>u, NobodyMoves
  <2>2. CursorOK(cursor', ever', DoneBlocks')
    BY <1>0, <1>q, <1>u, CursorGrows, DoneGrows DEF CursorInv, Grows
  <2>3. WaiterInv' /\ DeliveredInv'
    BY <1>u, <1>q DEF CursorInv, WaiterInv, DeliveredInv
  <2> QED BY <1>q, <2>1, <2>2, <2>3 DEF CursorInv, BoundsInv
<1>h. ASSUME NEW notes, NEW heads, Publish(notes, heads) PROVE link'.heads \subseteq link.heads \cup heads
  BY <1>0, <1>h DEF Publish, Links
<1>1. CASE Mine
  <2> DEFINE b == chain.head + 1
  <2>1. chain' = [chain EXCEPT !.head = b, !.fork[b] = chain.forks] /\ ls' = ls /\ liveq' = liveq
    BY <1>1 DEF Mine, queueVars
  <2>2. /\ chain'.head = b /\ chain'.forks = chain.forks
        /\ chain'.fork = [chain.fork EXCEPT ![b] = chain.forks]
    BY <1>0, <2>1 DEF Chains
  <2>3. \A c \in Blocks : chain'.fork[c] <= chain'.forks
    BY <1>0, <1>f, <2>2 DEF EnvBounds
  <2>4. link'.heads \subseteq link.heads \cup {b}
    BY <1>1, <1>h DEF Mine
  <2>5. \A h \in link'.heads : h <= chain'.head
    <3>1. ASSUME NEW h \in link.heads PROVE h \in Nat /\ h <= chain.head
      BY <1>0, <1>f, <3>1, ConstantTypes DEF EnvBounds
    <3> QED BY <1>f, <2>2, <2>4, <3>1
  <2>6. ls'.bufferedHead <= chain'.head /\ ls'.pendingHead <= chain'.head
        /\ ls'.pendingGen <= ls'.generation
    BY <1>0, <1>f, <2>1, <2>2 DEF EnvBounds
  <2>7. Grows
    BY <1>f, <1>u, <2>1, <2>2 DEF Grows
  <2> QED BY <1>0, <1>q, <2>1, <2>3, <2>5, <2>6, <2>7 DEF EnvBounds
<1>2. ASSUME NEW b \in Blocks, Reorg(b) PROVE CursorInv'
  <2> DEFINE f == [c \in Blocks |-> IF c >= b THEN chain.forks + 1 ELSE chain.fork[c]]
  <2>1. chain' = [chain EXCEPT !.fork = f, !.forks = @ + 1] /\ ls' = ls /\ liveq' = liveq
    BY <1>2 DEF Reorg, queueVars
  <2>2. chain'.head = chain.head /\ chain'.forks = chain.forks + 1 /\ chain'.fork = f
    BY <1>0, <2>1 DEF Chains
  <2>3. \A c \in Blocks : chain'.fork[c] <= chain'.forks
    BY <1>0, <1>f, <2>2 DEF EnvBounds
  <2>4. link'.heads \subseteq link.heads \cup {chain.head}
    BY <1>2, <1>h DEF Reorg
  <2>5. \A h \in link'.heads : h <= chain'.head
    <3>1. ASSUME NEW h \in link.heads PROVE h \in Nat /\ h <= chain.head
      BY <1>0, <1>f, <3>1, ConstantTypes DEF EnvBounds
    <3> QED BY <1>f, <2>2, <2>4, <3>1
  <2>6. Grows
    BY <1>f, <1>u, <2>1, <2>2 DEF Grows
  <2> QED BY <1>0, <1>q, <2>1, <2>2, <2>3, <2>5, <2>6 DEF EnvBounds
<1>3. CASE Disconnect \/ Resubscribed
  <2>1. link'.heads \subseteq link.heads /\ UNCHANGED <<chain, ls, liveq>>
    BY <1>0, <1>3 DEF Disconnect, Resubscribed, Links, queueVars
  <2>2. Grows
    BY <1>f, <1>u, <2>1 DEF Grows
  <2> QED BY <1>0, <1>q, <2>1, <2>2 DEF EnvBounds
<1>4. CASE StreamGap \/ LiveError
  <2>1. link'.heads = link.heads /\ UNCHANGED <<chain, liveq>>
    BY <1>0, <1>4 DEF StreamGap, LiveError, Links, queueVars, envVars
  <2>2. \E gap \in BOOLEAN : ls' = ErrorNoted(gap)
    BY <1>4 DEF StreamGap, LiveError
  <2>3. /\ ls'.bufferedHead <= chain.head /\ ls'.pendingHead <= chain.head
        /\ ls'.pendingGen <= ls'.generation /\ ls'.generation = ls.generation
    BY <1>0, <2>2, NotedBounds
  <2>4. Grows
    BY <1>f, <1>u, <2>1, <2>3 DEF Grows
  <2> QED BY <1>0, <1>q, <2>1, <2>3, <2>4 DEF EnvBounds
<1>5. ASSUME NEW h \in Blocks, handle_live_head(h) PROVE CursorInv'
  <2>1. link'.heads \subseteq link.heads /\ UNCHANGED <<chain, liveq>> /\ h \in link.heads
        /\ ls' = HeadNoted(ls, h, link.gen)
    BY <1>0, <1>5 DEF handle_live_head, Links, queueVars
  <2>2. h <= chain.head
    BY <1>0, <2>1 DEF EnvBounds
  <2>3. /\ ls'.bufferedHead <= chain.head /\ ls'.pendingHead <= chain.head
        /\ ls'.pendingGen <= ls'.generation /\ ls'.generation = ls.generation
    BY <1>0, <1>f, <1>5, <2>1, <2>2, NotedBounds
  <2>4. Grows
    BY <1>f, <1>u, <2>1, <2>3 DEF Grows
  <2> QED BY <1>0, <1>q, <2>1, <2>3, <2>4 DEF EnvBounds
<1>6. CASE handle_live_log
  <2>1. UNCHANGED <<chain, link>>
    BY <1>6 DEF handle_live_log
  <2>2. /\ ls'.bufferedHead = ls.bufferedHead /\ ls'.pendingHead = ls.pendingHead
        /\ ls'.generation = ls.generation
        /\ ls'.pendingGen = ls.pendingGen \/ ls'.pendingGen = ls.generation
    BY <1>0, <1>6 DEF handle_live_log, LiveStates, Admitted
  <2>3. Grows
    BY <1>f, <1>u, <2>1, <2>2 DEF Grows
  <2>4. WaitersOK(hist, liveq', worker, scan)
    <3> DEFINE job == [log |-> Head(stream).log, removed |-> Head(stream).removed,
                       live |-> TRUE, gen |-> link.gen, waiter |-> "none"]
    <3>1. liveq' = liveq \/ liveq' = <<>> \/ liveq' = Append(liveq, job)
      BY <1>6 DEF handle_live_log
    <3>2. \A i \in 1..Len(liveq) : liveq[i].waiter = "none"
      BY <1>0 DEF WaitersOK
    <3>3. job.waiter = "none"
      OBVIOUS
    <3> HIDE DEF job
    <3>4. \A i \in 1..Len(liveq') : liveq'[i].waiter = "none"
      <4>1. CASE liveq' = Append(liveq, job)
        <5>1. ASSUME NEW i \in 1..Len(liveq') PROVE liveq'[i].waiter = "none"
          <6>1. Len(liveq') = Len(liveq) + 1 /\ Len(liveq) \in Nat
            BY <1>0, <4>1
          <6>2. CASE i = Len(liveq) + 1
            BY <1>0, <3>3, <4>1, <6>2
          <6>3. CASE i # Len(liveq) + 1
            <7>1. i \in 1..Len(liveq) /\ liveq'[i] = liveq[i]
              BY <1>0, <4>1, <5>1, <6>1, <6>3
            <7> QED BY <3>2, <7>1
          <6> QED BY <6>2, <6>3
        <5> QED BY <5>1
      <4> QED BY <3>1, <3>2, <4>1
    <3> QED BY <1>0, <3>4, LiveQueueOK
  <2>5. EnvBounds'
    BY <1>0, <1>f, <2>1, <2>2 DEF EnvBounds
  <2> QED BY <1>q, <2>3, <2>4, <2>5
<1> QED BY <1>1, <1>2, <1>3, <1>4, <1>5, <1>6 DEF Environment

(* Taking the first delivery off the queue. *)
LEMMA TailWaiters ==
    ASSUME NEW h \in Seq(JobRecords), h # <<>>, NEW q, NEW w, NEW sc,
           WaitersOK(h, q, w, sc)
    PROVE  /\ WaitersOK(Tail(h), q, w, sc)
           /\ Head(h).waiter # "none" =>
                 /\ Awaited(Head(h), sc[Head(h).waiter])
                 /\ \A j \in 1..Len(Tail(h)) : Tail(h)[j].waiter # Head(h).waiter
<1>1. /\ Len(h) \in Nat /\ Len(h) > 0 /\ Len(Tail(h)) = Len(h) - 1 /\ Head(h) = h[1]
      /\ 1 \in 1..Len(h)
  OBVIOUS
<1>2. \A i \in 1..Len(Tail(h)) : i + 1 \in 1..Len(h) /\ Tail(h)[i] = h[i + 1]
  BY <1>1
<1>3. ASSUME NEW i \in 1..Len(Tail(h)), Tail(h)[i].waiter # "none"
      PROVE  /\ Awaited(Tail(h)[i], sc[Tail(h)[i].waiter])
             /\ \A j \in 1..Len(Tail(h)) : Tail(h)[j].waiter = Tail(h)[i].waiter => j = i
  <2>1. i + 1 \in 1..Len(h) /\ Tail(h)[i] = h[i + 1] /\ i \in Nat
    BY <1>1, <1>2
  <2>2. Awaited(h[i + 1], sc[h[i + 1].waiter])
        /\ \A j \in 1..Len(h) : h[j].waiter = h[i + 1].waiter => j = i + 1
    BY <1>3, <2>1 DEF WaitersOK
  <2>3. ASSUME NEW j \in 1..Len(Tail(h)), Tail(h)[j].waiter = Tail(h)[i].waiter PROVE j = i
    <3>1. j + 1 \in 1..Len(h) /\ Tail(h)[j] = h[j + 1] /\ j \in Nat
      BY <1>1, <1>2
    <3>2. j + 1 = i + 1
      BY <2>1, <2>2, <2>3, <3>1
    <3> QED BY <2>1, <3>1, <3>2
  <2> QED BY <2>1, <2>2, <2>3
<1>4. w.pc # "idle" /\ w.job.waiter # "none" =>
          /\ Awaited(w.job, sc[w.job.waiter])
          /\ \A j \in 1..Len(Tail(h)) : Tail(h)[j].waiter # w.job.waiter
  BY <1>2 DEF WaitersOK
<1>5. ASSUME Head(h).waiter # "none"
      PROVE  /\ Awaited(Head(h), sc[Head(h).waiter])
             /\ \A j \in 1..Len(Tail(h)) : Tail(h)[j].waiter # Head(h).waiter
  <2>1. /\ Awaited(h[1], sc[h[1].waiter])
        /\ \A j \in 1..Len(h) : h[j].waiter = h[1].waiter => j = 1
    BY <1>1, <1>5 DEF WaitersOK
  <2>2. ASSUME NEW j \in 1..Len(Tail(h)) PROVE Tail(h)[j].waiter # Head(h).waiter
    <3>1. j + 1 \in 1..Len(h) /\ Tail(h)[j] = h[j + 1] /\ j + 1 # 1
      BY <1>1, <1>2
    <3> QED BY <1>1, <2>1, <3>1
  <2> QED BY <1>1, <2>1, <2>2
<1> QED BY <1>3, <1>4, <1>5 DEF WaitersOK

(* Answering the only waiter of a delivery that is no longer anywhere. *)
LEMMA FinishWaiters ==
    ASSUME NEW h \in Seq(JobRecords), NEW q, NEW w, NEW v, NEW sc, NEW sd, NEW t,
           WaitersOK(h, q, w, sc), v.pc = "idle",
           \A j \in 1..Len(h) : t # "none" => h[j].waiter # t,
           \A u \in Threads : u # t => sd[u] = sc[u]
    PROVE  WaitersOK(h, q, v, sd)
<1>1. ASSUME NEW i \in 1..Len(h), h[i].waiter # "none"
      PROVE  sd[h[i].waiter] = sc[h[i].waiter]
  <2>1. h[i] \in JobRecords
    BY <1>1
  <2>2. h[i].waiter \in Threads
    BY <1>1, <2>1 DEF JobRecords
  <2> QED BY <1>1, <2>2
<1> QED BY <1>1 DEF WaitersOK

(* finish_delivery gives the waiter a true answer. *)
LEMMA FinishOK ==
    ASSUME CursorInv, TypeInv', Grows, NEW job \in JobRecords,
           NEW x \in {"true", "false", "failed"}, Finish(job, x),
           job.waiter # "none" => Awaited(job, scan[job.waiter]),
           ~job.removed /\ x = "true" => job.log \in ever',
           job.waiter # "none" /\ AwaitsLog(scan[job.waiter]) /\ x = "false" =>
               job.log \in ever' \/ job.gen < ls'.generation
    PROVE  /\ ScanInv' /\ (\A u \in Threads : ThreadBounds(scan[u], chain.head, ls.generation))'
           /\ \A u \in Threads : u # job.waiter => scan'[u] = scan[u]
<1>0. TypeInv /\ scan \in [Threads -> ThreadStates]
  BY UsableScanType DEF CursorInv, TypeInv
<1>n. /\ chain.forks \in Nat /\ chain'.forks \in Nat /\ chain.head \in Nat
      /\ chain'.head \in Nat /\ ls.generation \in Nat /\ ls'.generation \in Nat
  BY <1>0, NumberTypes
<1>1. \A u \in Threads : u # job.waiter => scan'[u] = scan[u]
  <2>1. "none" \notin Threads
    BY DEF Threads
  <2> QED BY <1>0, <2>1 DEF Finish
<1>2. ASSUME NEW u \in Threads, u = job.waiter
      PROVE  /\ ScanOK(scan'[u], ever', DoneBlocks', chain'.forks, ls'.generation)
             /\ ThreadBounds(scan'[u], chain'.head, ls'.generation)
  <2> DEFINE r == scan[u]
             s == [r EXCEPT !.result = x]
  <2>1. r \in ThreadStates /\ scan'[u] = s /\ u # "none"
    BY <1>0, <1>2 DEF Finish, Threads
  <2>2. /\ s.result = x /\ s.log = r.log /\ s.gen = r.gen /\ s.head = r.head
        /\ s.target = r.target /\ s.pc = r.pc /\ s.next = r.next /\ s.to = r.to
    BY <2>1 DEF ThreadStates
  <2>3. ScanOK(r, ever, DoneBlocks, chain.forks, ls.generation)
        /\ ThreadBounds(r, chain.head, ls.generation)
    BY DEF CursorInv, ScanInv, BoundsInv
  <2>4. ScanOK(r, ever', DoneBlocks', chain'.forks, ls'.generation)
    BY <1>0, <1>n, <2>1, <2>3, ScanGrows, DoneGrows DEF Grows
  <2>5. AwaitsLog(r) => Answered(s, ever', ls'.generation)
    <3>1. AwaitsLog(r) => job.log = r.log /\ ~job.removed /\ job.gen = r.gen
      BY <1>2, <2>1 DEF Awaited, AwaitsLog
    <3> HIDE DEF s
    <3> QED BY <1>2, <2>1, <2>2, <3>1 DEF Answered
  <2>6. ScanOK(s, ever', DoneBlocks', chain'.forks, ls'.generation)
    <3> HIDE DEF r
    <3> QED BY <2>1, <2>4, <2>5, ScanAnswered
  <2>7. /\ r.gen \in Nat /\ r.target \in Nat /\ r.head \in Int
    <3>1. r.gen \in Nat /\ r.target \in Blocks /\ r.head \in MaybeHead
      BY <2>1 DEF ThreadStates
    <3> QED BY <3>1, ConstantTypes, MaybeHeadInt
  <2>8. ThreadBounds(s, chain'.head, ls'.generation)
    <3> HIDE DEF s, r
    <3> QED BY <1>n, <2>2, <2>3, <2>7 DEF ThreadBounds, Grows
  <2> QED BY <2>1, <2>6, <2>8
<1>3. \A u \in Threads : /\ ScanOK(scan'[u], ever', DoneBlocks', chain'.forks, ls'.generation)
                         /\ ThreadBounds(scan'[u], chain'.head, ls'.generation)
  BY <1>1, <1>2, OthersKeep
<1> QED BY <1>1, <1>3 DEF ScanInv

(* The delivery worker. *)
LEMMA WorkerStepOK ==
    ASSUME CursorInv, TypeInv', WorkerStep \/ CallbackThrows PROVE CursorInv'
<1>0. /\ TypeInv /\ EnvBounds /\ WaitersOK(hist, liveq, worker, scan)
      /\ hist \in Seq(JobRecords) /\ liveq \in Seq(JobRecords)
      /\ ls \in LiveStates /\ worker \in WorkerStates /\ cursor \in Cursors
      /\ (worker.pc # "idle" => worker.job \in JobRecords)
      /\ DeliveredOK(delivered, worker, ever) /\ CursorOK(cursor, ever, DoneBlocks)
      /\ scan \in [Threads -> ThreadStates]
  BY UsableScanType DEF CursorInv, BoundsInv, WaiterInv, DeliveredInv, TypeInv, TypeOK, UsableWorkers
<1>n. /\ chain.forks \in Nat /\ chain.head \in Nat /\ ls.generation \in Nat
  BY <1>0, NumberTypes
<1>u. chain' = chain /\ link' = link /\ skipped' = skipped
  BY DEF WorkerStep, PopHistorical, PopLive, EmitRewind, EmitAdmit, CallbackReturns,
         schedule_overlap_recovery, CallbackThrows, envVars, historyVars
<1>g. Grows
  <2>1. ls'.generation = ls.generation
    BY <1>0 DEF WorkerStep, PopHistorical, PopLive, EmitRewind, EmitAdmit, CallbackReturns,
           schedule_overlap_recovery, CallbackThrows, LiveStates
  <2>2. ever \subseteq ever'
    BY DEF WorkerStep, PopHistorical, PopLive, EmitRewind, EmitAdmit, CallbackReturns,
           schedule_overlap_recovery, CallbackThrows, historyVars
  <2> QED BY <1>n, <1>u, <2>1, <2>2 DEF Grows
<1>q. ASSUME EnvBounds', ScanInv',
             (\A t \in Threads : ThreadBounds(scan[t], chain.head, ls.generation))',
             WaitersOK(hist', liveq', worker', scan'),
             DeliveredOK(delivered', worker', ever'), CursorOK(cursor', ever', DoneBlocks')
      PROVE  CursorInv'
  BY <1>q DEF CursorInv, BoundsInv, WaiterInv, DeliveredInv
<1>c. ASSUME cursor' = cursor PROVE CursorOK(cursor', ever', DoneBlocks')
  BY <1>0, <1>c, <1>g, CursorGrows, DoneGrows DEF Grows
<1>e. ASSUME ls' = ls PROVE EnvBounds'
  BY <1>0, <1>u, <1>e DEF EnvBounds
<1>1. CASE PopHistorical
  <2> DEFINE job == Head(hist)
  <2>1. /\ job \in JobRecords /\ worker.pc = "idle" /\ hist # <<>> /\ hist' = Tail(hist)
        /\ UNCHANGED <<cursor, ls, liveq, delivered, ever>> /\ Begin(job)
    BY <1>0, <1>1 DEF PopHistorical, historyVars
  <2>2. /\ WaitersOK(hist', liveq, worker, scan)
        /\ job.waiter # "none" =>
              /\ Awaited(job, scan[job.waiter])
              /\ \A j \in 1..Len(hist') : hist'[j].waiter # job.waiter
    BY <1>0, <2>1, TailWaiters
  <2>3. hist' \in Seq(JobRecords)
    BY <1>0, <2>1
  <2> HIDE DEF job
  <2>4. CASE job.gen # ls.generation
    <3>1. Finish(job, "false") /\ worker' = worker
      BY <2>1, <2>4 DEF Begin
    <3>2. job.waiter # "none" /\ AwaitsLog(scan[job.waiter]) => job.gen < ls'.generation
      <4>1. ASSUME job.waiter # "none", AwaitsLog(scan[job.waiter])
            PROVE  job.gen <= ls.generation
        <5>1. job.waiter \in Threads
          BY <2>1, <4>1 DEF JobRecords
        <5>2. scan[job.waiter].gen <= ls.generation
          BY <5>1 DEF CursorInv, BoundsInv, ThreadBounds
        <5> QED BY <2>2, <4>1, <5>2 DEF Awaited, AwaitsLog
      <4>2. job.gen \in Nat
        BY <2>1 DEF JobRecords
      <4> QED BY <4>1, <4>2, <2>1, <2>4, <1>n
    <3>3. /\ ScanInv' /\ (\A t \in Threads : ThreadBounds(scan[t], chain.head, ls.generation))'
          /\ \A u \in Threads : u # job.waiter => scan'[u] = scan[u]
      BY <1>g, <2>1, <2>2, <3>1, <3>2, FinishOK
    <3>4. WaitersOK(hist', liveq', worker', scan')
      <4>1. \A j \in 1..Len(hist') : job.waiter # "none" => hist'[j].waiter # job.waiter
        BY <2>2
      <4>2. worker'.pc = "idle" /\ liveq' = liveq
        BY <2>1, <3>1
      <4>3. WaitersOK(hist', liveq, worker, scan)
        BY <2>2
      <4>4. WaitersOK(hist', liveq, worker', scan')
        BY <2>3, <3>3, <4>1, <4>2, <4>3, FinishWaiters
      <4> QED BY <4>2, <4>4
    <3>5. DeliveredOK(delivered', worker', ever')
      BY <1>0, <2>1, <3>1
    <3> QED BY <1>q, <1>c, <1>e, <2>1, <3>3, <3>4, <3>5
  <2>5. CASE job.gen = ls.generation
    <3>1. /\ scan' = scan /\ worker'.pc \in {"rewind", "admit"} /\ worker'.job = job
      BY <2>1, <2>5 DEF Begin
    <3>2. WaitersOK(hist', liveq', worker', scan')
      BY <2>1, <2>2, <3>1 DEF WaitersOK
    <3>3. DeliveredOK(delivered', worker', ever')
      BY <1>0, <2>1, <3>1 DEF DeliveredOK
    <3> QED BY <1>g, <1>q, <1>c, <1>e, <2>1, <3>1, <3>2, <3>3, NobodyMoves
  <2> QED BY <2>4, <2>5
<1>2. CASE PopLive
  <2> DEFINE job == Head(liveq)
  <2>1. /\ job \in JobRecords /\ worker.pc = "idle" /\ liveq # <<>> /\ liveq' = Tail(liveq)
        /\ UNCHANGED <<cursor, ls, hist, delivered, ever>> /\ Begin(job)
    BY <1>0, <1>2 DEF PopLive, historyVars
  <2>2. job.waiter = "none"
    <3>1. job = liveq[1] /\ 1 \in 1..Len(liveq)
      BY <1>0, <2>1
    <3> QED BY <1>0, <3>1 DEF WaitersOK
  <2>3. \A i \in 1..Len(liveq') : liveq'[i].waiter = "none"
    <3>1. \A i \in 1..Len(liveq') : i + 1 \in 1..Len(liveq) /\ liveq'[i] = liveq[i + 1]
      BY <1>0, <2>1
    <3> QED BY <1>0, <3>1 DEF WaitersOK
  <2> HIDE DEF job
  <2>4. scan' = scan /\ (worker' = worker \/ (worker'.pc \in {"rewind", "admit"} /\ worker'.job = job))
    BY <2>1, <2>2 DEF Begin, Finish
  <2>5. WaitersOK(hist', liveq', worker', scan')
    BY <1>0, <2>1, <2>2, <2>3, <2>4 DEF WaitersOK
  <2>6. DeliveredOK(delivered', worker', ever')
    BY <1>0, <2>1, <2>4 DEF DeliveredOK
  <2> QED BY <1>g, <1>q, <1>c, <1>e, <2>1, <2>4, <2>5, <2>6, NobodyMoves
<1>3. CASE EmitRewind
  <2>1. /\ worker.pc = "rewind" /\ worker'.pc = "admit" /\ worker'.job = worker.job
        /\ UNCHANGED <<ls, hist, liveq, delivered, scan, ever>>
    BY <1>0, <1>3 DEF EmitRewind, WorkerStates, historyVars
  <2>2. CursorOK(cursor', ever', DoneBlocks')
    <3>1. worker.job.log.block \in Blocks
      BY <1>0, <2>1 DEF JobRecords, LogRecords
    <3>2. cursor' = cursor \/ cursor' = RewindCursor(worker.job.log.block)
      BY <1>3 DEF EmitRewind
    <3>3. CursorOK(cursor', ever, DoneBlocks)
      BY <1>0, <3>1, <3>2, StoreKeeps
    <3> QED BY <1>0, <1>g, <3>3, CursorGrows, DoneGrows DEF Grows
  <2>3. WaitersOK(hist', liveq', worker', scan')
    BY <1>0, <2>1 DEF WaitersOK
  <2>4. DeliveredOK(delivered', worker', ever')
    BY <1>0, <2>1 DEF DeliveredOK
  <2> QED BY <1>g, <1>q, <1>e, <2>1, <2>2, <2>3, <2>4, NobodyMoves
<1>4. CASE EmitAdmit
  <2> DEFINE job == worker.job
  <2>1. /\ worker.pc = "admit" /\ job \in JobRecords
        /\ UNCHANGED <<cursor, ls, hist, liveq, ever>>
    BY <1>0, <1>4 DEF EmitAdmit, historyVars
  <2>2. job.waiter # "none" =>
          /\ Awaited(job, scan[job.waiter])
          /\ \A j \in 1..Len(hist) : hist[j].waiter # job.waiter
    BY <1>0, <2>1 DEF WaitersOK
  <2>d. \A l \in delivered : l \in ever
    BY <1>0, <2>1 DEF DeliveredOK
  <2>3. CASE job.removed \/ job.log \notin delivered
    <3>1. /\ scan' = scan /\ worker'.pc = "callback" /\ worker'.job = job
          /\ delivered' \subseteq delivered \cup {job.log}
          /\ job.removed => delivered' \subseteq delivered /\ worker'.held = (job.log \in delivered)
      BY <1>0, <1>4, <2>3 DEF EmitAdmit, WorkerStates
    <3>2. WaitersOK(hist', liveq', worker', scan')
      BY <1>0, <2>1, <3>1 DEF WaitersOK
    <3>3. DeliveredOK(delivered', worker', ever')
      BY <2>1, <2>d, <3>1 DEF DeliveredOK
    <3> QED BY <1>g, <1>q, <1>c, <1>e, <2>1, <3>1, <3>2, <3>3, NobodyMoves
  <2>4. CASE ~(job.removed \/ job.log \notin delivered)
    <3>1. Finish(job, "false") /\ worker' = IdleWorker /\ delivered' = delivered
      BY <1>4, <2>4 DEF EmitAdmit
    <3>2. job.log \in ever' /\ worker'.pc = "idle"
      BY <2>1, <2>d, <2>4, <3>1 DEF IdleWorker
    <3>3. /\ ScanInv' /\ (\A t \in Threads : ThreadBounds(scan[t], chain.head, ls.generation))'
          /\ \A u \in Threads : u # job.waiter => scan'[u] = scan[u]
      BY <1>g, <2>1, <2>2, <3>1, <3>2, FinishOK
    <3>4. WaitersOK(hist', liveq', worker', scan')
      <4>1. \A j \in 1..Len(hist) : job.waiter # "none" => hist[j].waiter # job.waiter
        BY <2>2
      <4> HIDE DEF job
      <4>2. WaitersOK(hist, liveq, worker', scan')
        BY <1>0, <3>2, <3>3, <4>1, FinishWaiters
      <4> QED BY <2>1, <4>2
    <3>5. DeliveredOK(delivered', worker', ever')
      BY <2>1, <2>d, <3>1, <3>2 DEF DeliveredOK
    <3> QED BY <1>q, <1>c, <1>e, <2>1, <3>3, <3>4, <3>5
  <2> QED BY <2>3, <2>4
<1>5. CASE CallbackReturns
  <2> DEFINE job == worker.job
  <2>1. /\ worker.pc = "callback" /\ job \in JobRecords /\ worker' = IdleWorker
        /\ UNCHANGED <<cursor, ls, hist, liveq, delivered>> /\ Finish(job, "true")
        /\ worker'.pc = "idle"
    BY <1>0, <1>5 DEF CallbackReturns, IdleWorker
  <2>2. job.waiter # "none" =>
          /\ Awaited(job, scan[job.waiter])
          /\ \A j \in 1..Len(hist) : hist[j].waiter # job.waiter
    BY <1>0, <2>1 DEF WaitersOK
  <2>3. ever \subseteq ever' /\ (~job.removed => job.log \in ever')
    BY <1>5 DEF CallbackReturns
  <2>4. /\ ScanInv' /\ (\A t \in Threads : ThreadBounds(scan[t], chain.head, ls.generation))'
        /\ \A u \in Threads : u # job.waiter => scan'[u] = scan[u]
    BY <1>g, <2>1, <2>2, <2>3, FinishOK
  <2>5. WaitersOK(hist', liveq', worker', scan')
    <3>1. \A j \in 1..Len(hist) : job.waiter # "none" => hist[j].waiter # job.waiter
      BY <2>2
    <3> HIDE DEF job
    <3>2. worker'.pc = "idle"
      BY <2>1
    <3>3. WaitersOK(hist, liveq, worker', scan')
      BY <1>0, <2>4, <3>1, <3>2, FinishWaiters
    <3> QED BY <2>1, <3>3
  <2>6. DeliveredOK(delivered', worker', ever')
    BY <1>0, <2>1, <2>3 DEF DeliveredOK
  <2> QED BY <1>q, <1>c, <1>e, <2>1, <2>4, <2>5, <2>6
<1>6. CASE schedule_overlap_recovery
  <2> DEFINE job == worker.job
  <2>1. /\ worker.pc = "recover" /\ job \in JobRecords /\ worker' = IdleWorker
        /\ UNCHANGED <<cursor, hist, liveq, delivered, ever>> /\ Finish(job, "failed")
        /\ worker'.pc = "idle"
    BY <1>0, <1>6 DEF schedule_overlap_recovery, IdleWorker, historyVars
  <2>2. job.waiter # "none" =>
          /\ Awaited(job, scan[job.waiter])
          /\ \A j \in 1..Len(hist) : hist[j].waiter # job.waiter
    BY <1>0, <2>1 DEF WaitersOK
  <2>3. /\ ScanInv' /\ (\A t \in Threads : ThreadBounds(scan[t], chain.head, ls.generation))'
        /\ \A u \in Threads : u # job.waiter => scan'[u] = scan[u]
    BY <1>g, <2>1, <2>2, FinishOK
  <2>4. WaitersOK(hist', liveq', worker', scan')
    <3>1. \A j \in 1..Len(hist) : job.waiter # "none" => hist[j].waiter # job.waiter
      BY <2>2
    <3> HIDE DEF job
    <3>2. worker'.pc = "idle"
      BY <2>1
    <3>3. WaitersOK(hist, liveq, worker', scan')
      BY <1>0, <2>3, <3>1, <3>2, FinishWaiters
    <3> QED BY <2>1, <3>3
  <2>5. DeliveredOK(delivered', worker', ever')
    BY <1>0, <2>1 DEF DeliveredOK
  <2>6. /\ ls'.bufferedHead = ls.bufferedHead /\ ls'.pendingHead = ls.pendingHead
        /\ ls'.generation = ls.generation
        /\ ls'.pendingGen = ls.pendingGen \/ ls'.pendingGen = ls.generation
    BY <1>0, <1>6 DEF schedule_overlap_recovery, LiveStates
  <2>7. EnvBounds'
    BY <1>0, <1>n, <1>u, <2>6 DEF EnvBounds
  <2> QED BY <1>q, <1>c, <2>1, <2>3, <2>4, <2>5, <2>7
<1>7. CASE CallbackThrows
  <2> DEFINE job == worker.job
  <2>1. /\ worker.pc = "callback" /\ worker'.pc = "recover" /\ worker'.job = job
        /\ UNCHANGED <<cursor, ls, hist, liveq, scan, ever>>
        /\ delivered' = IF ~job.removed THEN delivered \ {job.log}
                        ELSE IF worker.held THEN delivered \cup {job.log} ELSE delivered
    BY <1>0, <1>7 DEF CallbackThrows, WorkerStates, historyVars
  <2>2. WaitersOK(hist', liveq', worker', scan')
    BY <1>0, <2>1 DEF WaitersOK
  <2>3. DeliveredOK(delivered', worker', ever')
    BY <1>0, <2>1 DEF DeliveredOK
  <2> QED BY <1>g, <1>q, <1>c, <1>e, <2>1, <2>2, <2>3, NobodyMoves
<1> QED BY <1>1, <1>2, <1>3, <1>4, <1>5, <1>6, <1>7 DEF WorkerStep

(* Queueing deliveries of which thread t awaits the last one. *)
LEMMA ConcatWaiter ==
    ASSUME NEW h \in Seq(JobRecords), NEW jobs \in Seq(JobRecords), NEW q, NEW w,
           NEW sc, NEW sd, NEW t \in Threads,
           w.pc # "idle" => w.job \in JobRecords,
           WaitersOK(h, q, w, sc), ~Waits(sc[t]),
           \A u \in Threads : u # t => sd[u] = sc[u],
           \A i \in 1..Len(jobs) :
               /\ i = Len(jobs) => jobs[i].waiter = t /\ Awaited(jobs[i], sd[t])
               /\ i # Len(jobs) => jobs[i].waiter = "none"
    PROVE  WaitersOK(h \o jobs, q, w, sd)
<1> DEFINE g == h \o jobs
<1>1. WaitersOK(h, q, w, sd)
  BY WaitersOther
<1>2. /\ \A i \in 1..Len(h) : h[i].waiter # t
      /\ w.pc # "idle" => w.job.waiter # t
  <2>1. t # "none"
    BY DEF Threads
  <2> QED BY <2>1 DEF WaitersOK, Awaited
<1>3. /\ Len(h) \in Nat /\ Len(jobs) \in Nat /\ Len(g) = Len(h) + Len(jobs)
      /\ \A i \in 1..Len(h) : g[i] = h[i]
      /\ \A i \in 1..Len(jobs) : g[Len(h) + i] = jobs[i]
  OBVIOUS
<1>4. ASSUME NEW i \in 1..Len(g)
      PROVE  \/ i \in 1..Len(h) /\ g[i] = h[i]
             \/ i - Len(h) \in 1..Len(jobs) /\ g[i] = jobs[i - Len(h)]
  <2>1. CASE i <= Len(h)
    BY <1>3, <1>4, <2>1
  <2>2. CASE ~(i <= Len(h))
    <3>1. i - Len(h) \in 1..Len(jobs) /\ Len(h) + (i - Len(h)) = i
      BY <1>3, <1>4, <2>2
    <3> QED BY <1>3, <3>1
  <2> QED BY <2>1, <2>2
<1> HIDE DEF g
<1>5. t # "none"
  BY DEF Threads
<1>6. ASSUME NEW i \in 1..Len(g), g[i].waiter # "none"
      PROVE  /\ Awaited(g[i], sd[g[i].waiter])
             /\ \A j \in 1..Len(g) : g[j].waiter = g[i].waiter => j = i
  <2>1. CASE i \in 1..Len(h) /\ g[i] = h[i]
    <3>1. Awaited(g[i], sd[g[i].waiter]) /\ g[i].waiter # t
      BY <1>1, <1>2, <1>6, <2>1 DEF WaitersOK
    <3>2. ASSUME NEW j \in 1..Len(g), g[j].waiter = g[i].waiter PROVE j = i
      <4>1. j \in 1..Len(h) /\ g[j] = h[j]
        BY <1>4, <1>6, <3>1, <3>2
      <4> QED BY <1>1, <1>6, <2>1, <3>2, <4>1 DEF WaitersOK
    <3> QED BY <3>1, <3>2
  <2>2. CASE i - Len(h) \in 1..Len(jobs) /\ g[i] = jobs[i - Len(h)]
    <3>1. i - Len(h) = Len(jobs)
      BY <1>6, <2>2
    <3>2. g[i].waiter = t /\ Awaited(g[i], sd[t])
      BY <2>2, <3>1
    <3>3. ASSUME NEW j \in 1..Len(g), g[j].waiter = g[i].waiter PROVE j = i
      <4>1. j - Len(h) \in 1..Len(jobs) /\ g[j] = jobs[j - Len(h)]
        BY <1>2, <1>4, <3>2, <3>3
      <4>2. j - Len(h) = Len(jobs)
        BY <1>5, <3>2, <3>3, <4>1
      <4> QED BY <1>3, <1>6, <3>1, <3>3, <4>2
    <3> QED BY <3>2, <3>3
  <2> QED BY <1>4, <2>1, <2>2
<1>7. w.pc # "idle" /\ w.job.waiter # "none" =>
          /\ Awaited(w.job, sd[w.job.waiter])
          /\ \A j \in 1..Len(g) : g[j].waiter # w.job.waiter
  <2>1. ASSUME w.pc # "idle", w.job.waiter # "none", NEW j \in 1..Len(g)
        PROVE  g[j].waiter # w.job.waiter
    <3>1. CASE j \in 1..Len(h) /\ g[j] = h[j]
      BY <1>1, <2>1, <3>1 DEF WaitersOK
    <3>2. CASE j - Len(h) \in 1..Len(jobs) /\ g[j] = jobs[j - Len(h)]
      BY <1>2, <2>1, <3>2
    <3> QED BY <1>4, <3>1, <3>2
  <2> QED BY <1>1, <2>1 DEF WaitersOK
<1>8. \A i \in 1..Len(q) : q[i].waiter = "none"
  BY <1>1 DEF WaitersOK
<1> QED BY <1>6, <1>7, <1>8 DEF WaitersOK, g

(* What a node returned for a range, less what a partial cursor covers. *)
LEMMA FetchOK ==
    ASSUME CursorInv, NEW t \in Threads, scan[t].next <= scan[t].target,
           NEW r \in ThreadStates, r.next = scan[t].next, r.to = RangeEnd(t),
           r.todo = {l \in CanonicalLogs(scan[t].next, RangeEnd(t)) :
                         ~AlreadyCheckpointed(t, l)}
    PROVE  Fetched(r, ever, chain.forks)
<1> DEFINE c == scan[t].resume
<1>0. /\ TypeInv /\ EnvBounds /\ SoundCursor(c, ever)
      /\ scan[t].target <= chain.head
      /\ scan \in [Threads -> UsableThreads]
  BY DEF CursorInv, BoundsInv, ScanInv, ScanOK, ThreadBounds, TypeInv
<1>1. /\ RangeEnd(t) \in Blocks /\ scan[t].next \in Nat /\ RangeEnd(t) <= scan[t].target
      /\ scan[t].target \in Nat /\ chain.head \in Blocks /\ chain.head \in Nat
      /\ RangeEnd(t) \in Nat
  BY <1>0, RangeEndType, InvTypes, ConstantTypes
<1>2. RangeEnd(t) <= chain.head
  BY <1>0, <1>1
<1>3. CanonicalLogs(scan[t].next, RangeEnd(t)) =
        {LogAt(b, chain.fork[b], i) : b \in scan[t].next..RangeEnd(t), i \in Indexes}
  <2>1. Min2(RangeEnd(t), chain.head) = RangeEnd(t)
    BY <1>1, <1>2 DEF Min2
  <2> QED BY <2>1 DEF CanonicalLogs
<1>4. ASSUME NEW b \in r.next..r.to PROVE \E f \in 0..chain.forks : FetchedVersion(r, b, f, ever)
  <2>1. b \in scan[t].next..RangeEnd(t) /\ b \in Blocks
    BY <1>1, <1>2, <1>4, ConstantTypes DEF Blocks
  <2>2. chain.fork[b] \in 0..chain.forks
    BY <1>0, <2>1, InvTypes DEF EnvBounds
  <2>3. ASSUME NEW i \in Indexes
        PROVE  LogAt(b, chain.fork[b], i) \in ever \/ LogAt(b, chain.fork[b], i) \in r.todo
    <3> DEFINE l == LogAt(b, chain.fork[b], i)
    <3>1. l \in CanonicalLogs(scan[t].next, RangeEnd(t))
      BY <1>3, <2>1
    <3>2. CASE AlreadyCheckpointed(t, l)
      <4>1. /\ c.last # NoLog /\ b = c.block /\ chain.fork[b] = c.last.fork
            /\ i <= c.last.index
        BY <3>2 DEF AlreadyCheckpointed, LogAt
      <4>2. c.last.block = c.block /\ c.last \in ever /\ PrefixIn(c.last, ever)
        BY <1>0, <4>1 DEF SoundCursor
      <4>3. c.last \in LogRecords
        BY <1>0, <4>2 DEF TypeInv, TypeOK
      <4>4. c.last.index \in Indexes /\ c.last = LogAt(c.last.block, c.last.fork, c.last.index)
        BY <4>3 DEF LogRecords, LogAt
      <4>5. CASE i = c.last.index
        BY <4>1, <4>2, <4>4, <4>5
      <4>6. CASE i < c.last.index
        BY <4>1, <4>2, <4>6 DEF PrefixIn
      <4> QED BY <4>1, <4>4, <4>5, <4>6 DEF Indexes
    <3>3. CASE ~AlreadyCheckpointed(t, l)
      BY <3>1, <3>3
    <3> QED BY <3>2, <3>3
  <2>4. ASSUME NEW l \in r.todo, l.block = b PROVE l.fork = chain.fork[b]
    <3>1. l \in CanonicalLogs(scan[t].next, RangeEnd(t))
      BY <2>4
    <3> QED BY <1>3, <2>4, <3>1 DEF LogAt
  <2> QED BY <2>2, <2>3, <2>4 DEF FetchedVersion
<1>5. ASSUME NEW l \in r.todo PROVE l.block \in r.next..r.to
  <2>1. l \in CanonicalLogs(scan[t].next, RangeEnd(t))
    BY <1>5
  <2> QED BY <1>3, <2>1 DEF LogAt
<1> QED BY <1>4, <1>5 DEF Fetched

(* The next log in order: everything before it has been delivered. *)
LEMMA NextReady ==
    ASSUME TypeInv, NEW r \in ThreadStates, r.pc = "log", NEW l \in r.todo,
           NextInOrder(r.todo, l),
           ScanOK(r, ever, DoneBlocks, chain.forks, ls.generation)
    PROVE  PrefixIn(l, ever) /\ Below(l.block, DoneBlocks)
<1>0. /\ Fetched(r, ever, chain.forks) /\ ~AwaitsLog(r) /\ Below(r.next, DoneBlocks)
  BY DEF ScanOK, InRangeLoop, Scanning, AwaitsLog
<1>1. /\ r.next \in Nat /\ r.to \in Nat /\ StartBlock \in Nat /\ MaxBlock \in Nat
      /\ r.todo \subseteq LogRecords
  BY ConstantTypes DEF ThreadStates, Blocks
<1>2. l \in LogRecords /\ l.block \in r.next..r.to
  BY <1>0, <1>1 DEF Fetched
<1>3. l.block \in Nat /\ l.index \in Nat
  BY <1>2, ConstantTypes, ConfigAssumption DEF LogRecords, Indexes
<1>4. PrefixIn(l, ever)
  <2>1. PICK f \in 0..chain.forks : FetchedVersion(r, l.block, f, ever)
    BY <1>0, <1>2 DEF Fetched
  <2>2. l.fork = f
    BY <2>1 DEF FetchedVersion
  <2>3. ASSUME NEW i \in Indexes, i < l.index PROVE LogAt(l.block, l.fork, i) \in ever
    <3>1. LogAt(l.block, f, i) \in ever \/ LogAt(l.block, f, i) \in r.todo
      BY <1>0, <2>1 DEF FetchedVersion
    <3>2. evm_log_before(LogAt(l.block, f, i), l)
      BY <2>3 DEF evm_log_before, LogAt
    <3> QED BY <2>2, <3>1, <3>2 DEF NextInOrder
  <2> QED BY <2>3 DEF PrefixIn
<1>5. ASSUME NEW b \in StartBlock..MaxBlock, b < l.block PROVE b \in DoneBlocks
  <2>1. CASE b < r.next
    BY <1>0, <1>5, <2>1 DEF Below
  <2>2. CASE ~(b < r.next)
    <3>1. b \in r.next..r.to
      BY <1>1, <1>2, <1>3, <1>5, <2>2
    <3>2. PICK f \in 0..chain.forks : FetchedVersion(r, b, f, ever)
      BY <1>0, <3>1 DEF Fetched
    <3>3. ASSUME NEW i \in Indexes PROVE LogAt(b, f, i) \in ever
      <4>1. LogAt(b, f, i) \in ever \/ LogAt(b, f, i) \in r.todo
        BY <1>0, <3>2 DEF FetchedVersion
      <4>2. evm_log_before(LogAt(b, f, i), l)
        BY <1>5 DEF evm_log_before, LogAt
      <4> QED BY <4>1, <4>2 DEF NextInOrder
    <3> QED BY <1>5, <3>2, <3>3 DEF DoneBlocks, Covered
  <2> QED BY <2>1, <2>2
<1> QED BY <1>4, <1>5 DEF Below

(* The steps of a scan. *)
LEMMA ScanStepOK ==
    ASSUME CursorInv, TypeInv', NEW t \in Threads, ScanStep(t) \/ CallThrows(t)
    PROVE  CursorInv'
<1> DEFINE r == scan[t]
           s == scan'[t]
<1>0. /\ TypeInv /\ EnvBounds /\ WaitersOK(hist, liveq, worker, scan)
      /\ hist \in Seq(JobRecords) /\ cursor \in Cursors
      /\ (worker.pc # "idle" => worker.job \in JobRecords)
      /\ DeliveredOK(delivered, worker, ever) /\ CursorOK(cursor, ever, DoneBlocks)
      /\ scan \in [Threads -> ThreadStates] /\ scan \in [Threads -> UsableThreads]
      /\ r \in ThreadStates /\ r \in UsableThreads
  BY UsableScanType DEF CursorInv, BoundsInv, WaiterInv, DeliveredInv, TypeInv, TypeOK,
     UsableWorkers
<1>r. /\ ScanOK(r, ever, DoneBlocks, chain.forks, ls.generation)
      /\ ThreadBounds(r, chain.head, ls.generation)
  BY DEF CursorInv, ScanInv, BoundsInv
<1>n. /\ chain.forks \in Nat /\ chain.head \in Nat /\ ls.generation \in Nat
  BY <1>0, NumberTypes
<1>u. /\ UNCHANGED <<chain, link, ls, liveq, worker, ever>> /\ skipped \subseteq skipped'
  BY DEF ScanStep, CallThrows, LoadCursor, reconcile_gap, FetchRange, ComputeOrphans,
         NextLog, DispatchReturns, save_log_checkpoint, save_checkpoint, scanFrame,
         envVars, historyVars
<1>g. Grows
  BY <1>n, <1>u DEF Grows
<1>d. DoneBlocks \subseteq DoneBlocks'
  BY <1>0, <1>g, DoneGrows
<1>q. ASSUME ScanInv',
             (\A u \in Threads : ThreadBounds(scan[u], chain.head, ls.generation))',
             WaitersOK(hist', liveq, worker, scan'), delivered' \subseteq delivered,
             CursorOK(cursor', ever, DoneBlocks)
      PROVE  CursorInv'
  <2>1. EnvBounds'
    BY <1>0, <1>u DEF EnvBounds
  <2>2. DeliveredInv'
    BY <1>0, <1>q, <1>u DEF DeliveredInv, DeliveredOK
  <2>3. CursorOK(cursor', ever', DoneBlocks')
    BY <1>q, <1>u, <1>d, CursorGrows
  <2>4. WaiterInv'
    BY <1>q, <1>u DEF WaiterInv
  <2> QED BY <1>q, <2>1, <2>2, <2>3, <2>4 DEF CursorInv, BoundsInv
(* The thread moves on inside the scan and queues nothing. *)
<1>m. ASSUME NEW v, SetThread(t, v), ~Waits(r), UNCHANGED hist, delivered' \subseteq delivered,
             ScanOK(v, ever, DoneBlocks', chain.forks, ls.generation),
             ThreadBounds(v, chain.head, ls.generation),
             CursorOK(cursor', ever, DoneBlocks)
      PROVE  CursorInv'
  <2>1. scan'[t] = v /\ \A u \in Threads : u # t => scan'[u] = scan[u]
    BY <1>0, <1>m DEF SetThread
  <2>2. /\ ScanInv' /\ (\A u \in Threads : ThreadBounds(scan[u], chain.head, ls.generation))'
        /\ WaitersOK(hist, liveq, worker, scan')
    BY <1>g, <1>m, <1>u, <2>1, ThreadMoves
  <2> QED BY <1>m, <1>q, <2>2
(* The scan ends. *)
<1>l. ASSUME Leave(t, ReturnPc(t)) \/ Leave(t, ThrowPc(t)), ~Waits(r), UNCHANGED hist,
             delivered' \subseteq delivered, CursorOK(cursor', ever, DoneBlocks)
      PROVE  CursorInv'
  <2>1. ReturnPc(t) \in Pcs \ ScanPcs /\ ThrowPc(t) \in Pcs \ ScanPcs
    BY DEF ReturnPc, ThrowPc, Pcs, ScanPcs
  <2>2. /\ ScanInv' /\ (\A u \in Threads : ThreadBounds(scan[u], chain.head, ls.generation))'
        /\ WaitersOK(hist, liveq, worker, scan')
    BY <1>g, <1>l, <2>1, LeaveOK
  <2> QED BY <1>l, <1>q, <2>2
<1>w. ASSUME r.pc \notin {"wait", "drainwait"} \/ r.result # "none" PROVE ~Waits(r)
  BY <1>w DEF Waits
<1>1. CASE LoadCursor(t)
  <2> DEFINE n == IF cursor = NoCursor THEN StartBlock
                  ELSE cursor.block + (IF cursor.complete THEN 1 ELSE 0)
             v == [r EXCEPT !.pc = "range", !.resume = cursor, !.next = n]
  <2>1. /\ r.pc = "load" /\ SetThread(t, v) /\ UNCHANGED <<cursor, hist, delivered>>
    BY <1>1 DEF LoadCursor
  <2>2. /\ v.pc = "range" /\ v.resume = cursor /\ v.next = n
        /\ v.head = r.head /\ v.target = r.target /\ v.gen = r.gen
    BY <1>0 DEF ThreadStates
  <2>3. Below(n, DoneBlocks)
    <3>1. ASSUME NEW b \in StartBlock..MaxBlock, b < n PROVE b \in DoneBlocks
      <4>1. cursor.block \in Int /\ StartBlock \in Nat
        BY <1>0, MaybeHeadInt, ConstantTypes DEF Cursors
      <4>2. cursor # NoCursor => Passed(cursor, b)
        BY <3>1, <4>1 DEF Passed
      <4>3. cursor # NoCursor
        BY <3>1, <4>1
      <4> QED BY <1>0, <4>2, <4>3, <3>1 DEF CursorOK
    <3> QED BY <3>1 DEF Below
  <2> HIDE DEF v, n
  <2>4. ScanOK(v, ever, DoneBlocks, chain.forks, ls.generation)
    BY <1>0, <2>2, <2>3 DEF ScanOK, CursorOK, Scanning, InRangeLoop, AwaitsLog
  <2>5. ScanOK(v, ever, DoneBlocks', chain.forks, ls.generation)
    BY <2>2, <2>4, <1>0, <1>d, CursorGrows DEF ScanOK, Scanning, InRangeLoop, AwaitsLog
  <2>6. ThreadBounds(v, chain.head, ls.generation)
    BY <1>r, <2>2 DEF ThreadBounds, InRangeLoop
  <2> QED BY <1>0, <1>m, <1>w, <2>1, <2>5, <2>6
<1>2. CASE reconcile_gap(t)
  <2> DEFINE overlap == Lookback - 1
             window  == IF r.target > overlap THEN r.target - overlap ELSE 0
             from    == Max2(StartBlock, window)
             v == [r EXCEPT !.pc = "range", !.next = from]
  <2>1. /\ r.pc = "gap" /\ UNCHANGED <<hist, delivered>>
        /\ \/ Leave(t, ReturnPc(t)) /\ UNCHANGED cursor
           \/ /\ SetThread(t, v)
              /\ skipped' = skipped \cup {b \in StartBlock..(from - 1) : ~Passed(cursor, b)}
              /\ cursor' = RewindCursor(from) \/ UNCHANGED cursor
    BY <1>2 DEF reconcile_gap
  <2>2. from \in Blocks /\ from \in Nat
    <3>1. r.target \in Nat /\ r.target <= MaxBlock
      BY <1>0, ConstantTypes DEF ThreadStates, Blocks
    <3> QED BY <3>1, ConfigAssumption DEF Max2, Blocks
  <2>3. /\ v.pc = "range" /\ v.resume = r.resume /\ v.next = from
        /\ v.head = r.head /\ v.target = r.target /\ v.gen = r.gen
    BY <1>0 DEF ThreadStates
  <2> HIDE DEF v, from
  <2>4. CursorOK(cursor', ever, DoneBlocks)
    BY <1>0, <2>1, <2>2, StoreKeeps
  <2>5. CASE Leave(t, ReturnPc(t))
    BY <1>l, <1>w, <2>1, <2>4, <2>5
  <2>6. CASE /\ SetThread(t, v)
             /\ skipped' = skipped \cup {b \in StartBlock..(from - 1) : ~Passed(cursor, b)}
    <3>1. ASSUME NEW b \in StartBlock..MaxBlock, b < from PROVE b \in DoneBlocks'
      <4>1. CASE Passed(cursor, b)
        BY <1>0, <1>d, <3>1, <4>1 DEF CursorOK
      <4>2. CASE ~Passed(cursor, b)
        <5>1. b \in skipped'
          BY <2>2, <2>6, <3>1, <4>2, ConstantTypes
        <5> QED BY <3>1, <5>1 DEF DoneBlocks
      <4> QED BY <4>1, <4>2
    <3>2. Below(v.next, DoneBlocks')
      BY <2>3, <3>1 DEF Below
    <3>3. ScanOK(v, ever, DoneBlocks', chain.forks, ls.generation)
      BY <1>r, <2>3, <3>2 DEF ScanOK, Scanning, InRangeLoop, AwaitsLog
    <3>4. ThreadBounds(v, chain.head, ls.generation)
      BY <1>r, <2>3 DEF ThreadBounds, InRangeLoop
    <3> QED BY <1>m, <1>w, <2>1, <2>4, <2>6, <3>3, <3>4
  <2> QED BY <2>1, <2>5, <2>6
<1>k. ASSUME skipped' = skipped PROVE DoneBlocks' = DoneBlocks
  BY <1>u, <1>k DEF DoneBlocks, Covered
<1>3. CASE FetchRange(t)
  <2> DEFINE S == {l \in CanonicalLogs(r.next, RangeEnd(t)) : ~AlreadyCheckpointed(t, l)}
             e == RangeEnd(t)
             p == IF r.overlap THEN "orphans" ELSE "log"
             v == [r EXCEPT !.pc = p, !.to = e, !.todo = S]
  <2>1. /\ r.pc = "range" /\ UNCHANGED <<cursor, hist, delivered, skipped>>
        /\ \/ Leave(t, ReturnPc(t))
           \/ r.next <= r.target /\ SetThread(t, v)
    BY <1>3 DEF FetchRange, historyVars
  <2>2. CASE Leave(t, ReturnPc(t))
    BY <1>0, <1>l, <1>w, <2>1, <2>2
  <2>3. CASE r.next <= r.target /\ SetThread(t, v)
    <3>1. /\ v.pc = p /\ v.resume = r.resume /\ v.next = r.next /\ v.to = e /\ v.todo = S
          /\ v.head = r.head /\ v.target = r.target /\ v.gen = r.gen
      BY <1>0 DEF ThreadStates
    <3>2. e \in Blocks /\ r.next <= e
      BY <1>0, <2>3, RangeEndType
    <3>3. S \subseteq LogRecords
      <4>1. chain \in Chains /\ r.next \in Nat /\ e \in Int
        BY <1>0, RangeEndType DEF TypeInv, TypeOK
      <4> QED BY <4>1, CanonicalLogsType
    <3>4. p \in Pcs /\ p \in {"orphans", "log"}
      BY DEF Pcs, ScanPcs
    <3>5. v \in ThreadStates
      <4> HIDE DEF S, e, p
      <4> QED BY <1>0, <3>2, <3>3, <3>4 DEF ThreadStates
    <3>6. Fetched(v, ever, chain.forks)
      <4> HIDE DEF v
      <4> QED BY <2>3, <3>1, <3>5, FetchOK
    <3> HIDE DEF v, S, e, p
    <3>7. ScanOK(v, ever, DoneBlocks, chain.forks, ls.generation)
      BY <1>r, <2>1, <3>1, <3>4, <3>6 DEF ScanOK, Scanning, InRangeLoop, AwaitsLog
    <3>8. ThreadBounds(v, chain.head, ls.generation)
      BY <1>r, <3>1, <3>2 DEF ThreadBounds
    <3> QED BY <1>0, <1>k, <1>m, <1>w, <2>1, <2>3, <3>7, <3>8
  <2> QED BY <2>1, <2>2, <2>3
<1>f. ASSUME NEW v, r.pc \in InRangeLoop, v.pc \in {"log", "checkpoint"},
             v.resume = r.resume, v.next = r.next, v.to = r.to,
             v.todo = r.todo, v.head = r.head, v.target = r.target, v.gen = r.gen,
             AwaitsLog(r) => r.log \in ever, v.pc = "checkpoint" => r.todo = {}
      PROVE  /\ ScanOK(v, ever, DoneBlocks, chain.forks, ls.generation)
             /\ ThreadBounds(v, chain.head, ls.generation)
  <2>1. ASSUME NEW b, NEW f, FetchedVersion(r, b, f, ever) PROVE FetchedVersion(v, b, f, ever)
    BY <1>f, <2>1 DEF FetchedVersion
  <2>2. Fetched(v, ever, chain.forks)
    BY <1>f, <1>r, <2>1 DEF ScanOK, Fetched
  <2>3. ScanOK(v, ever, DoneBlocks, chain.forks, ls.generation)
    BY <1>f, <1>r, <2>2 DEF ScanOK, AwaitsLog, Scanning, InRangeLoop
  <2>4. ThreadBounds(v, chain.head, ls.generation)
    BY <1>f, <1>r DEF ThreadBounds
  <2> QED BY <2>3, <2>4
(* A jump back into the loop over the logs, or to its end. *)
<1>j. ASSUME NEW p \in {"log", "checkpoint"}, Goto(t, p), r.pc \in InRangeLoop, ~Waits(r),
             AwaitsLog(r) => r.log \in ever, p = "checkpoint" => r.todo = {},
             UNCHANGED <<hist, skipped>>, delivered' \subseteq delivered,
             CursorOK(cursor', ever, DoneBlocks)
      PROVE  CursorInv'
  <2> DEFINE v == [r EXCEPT !.pc = p]
  <2>1. /\ v.pc = p /\ v.resume = r.resume /\ v.next = r.next /\ v.to = r.to
        /\ v.todo = r.todo /\ v.head = r.head /\ v.target = r.target /\ v.gen = r.gen
    BY <1>0 DEF ThreadStates
  <2>2. SetThread(t, v)
    BY <1>j DEF Goto
  <2> HIDE DEF v
  <2>3. /\ ScanOK(v, ever, DoneBlocks, chain.forks, ls.generation)
        /\ ThreadBounds(v, chain.head, ls.generation)
    BY <1>f, <1>j, <2>1
  <2> QED BY <1>j, <1>k, <1>m, <2>2, <2>3
(* The end of a range. *)
<1>e. ASSUME SetThread(t, [r EXCEPT !.pc = "range", !.next = r.to + 1]), r.pc \in InRangeLoop,
             r.pc # "wait", r.todo = {}, UNCHANGED <<hist, skipped>>,
             delivered' \subseteq delivered, CursorOK(cursor', ever, DoneBlocks)
      PROVE  CursorInv'
  <2> DEFINE v == [r EXCEPT !.pc = "range", !.next = r.to + 1]
  <2>1. /\ v.pc = "range" /\ v.resume = r.resume /\ v.next = r.to + 1
        /\ v.head = r.head /\ v.target = r.target /\ v.gen = r.gen
    BY <1>0 DEF ThreadStates
  <2>2. Below(r.to + 1, DoneBlocks)
    BY <1>0, <1>r, <1>e, RangeDone DEF AwaitsLog
  <2>3. SetThread(t, v)
    BY <1>e
  <2> HIDE DEF v
  <2>4. ScanOK(v, ever, DoneBlocks, chain.forks, ls.generation)
    BY <1>r, <2>1, <2>2 DEF ScanOK, Scanning, InRangeLoop, AwaitsLog
  <2>5. ThreadBounds(v, chain.head, ls.generation)
    BY <1>r, <2>1 DEF ThreadBounds, InRangeLoop
  <2>6. ~Waits(r)
    BY <1>e DEF Waits, InRangeLoop
  <2> QED BY <1>e, <1>k, <1>m, <2>3, <2>4, <2>5, <2>6
<1>4. CASE ComputeOrphans(t)
  <2> DEFINE S == {l \in delivered : InRange(t, l)} \ r.todo
             v == [r EXCEPT !.pc = "log", !.orphans = S]
  <2>1. /\ r.pc = "orphans" /\ UNCHANGED <<cursor, hist, delivered, skipped>>
        /\ SetThread(t, v)
    BY <1>4 DEF ComputeOrphans
  <2>2. /\ v.pc = "log" /\ v.resume = r.resume /\ v.next = r.next /\ v.to = r.to
        /\ v.todo = r.todo /\ v.head = r.head /\ v.target = r.target /\ v.gen = r.gen
    BY <1>0 DEF ThreadStates
  <2>3. r.pc \in InRangeLoop /\ ~AwaitsLog(r) /\ ~Waits(r)
    BY <2>1 DEF InRangeLoop, AwaitsLog, Waits
  <2> HIDE DEF v
  <2>4. /\ ScanOK(v, ever, DoneBlocks, chain.forks, ls.generation)
        /\ ThreadBounds(v, chain.head, ls.generation)
    BY <1>f, <2>2, <2>3
  <2> QED BY <1>0, <1>k, <1>m, <2>1, <2>3, <2>4
<1>5. CASE NextLog(t)
  <2>1. /\ r.pc = "log" /\ UNCHANGED <<cursor, delivered, skipped>>
        /\ \/ Leave(t, ReturnPc(t)) /\ UNCHANGED hist
           \/ \E l \in r.orphans : Dispatch(t, l, TRUE)
           \/ \E l \in r.todo : NextInOrder(r.todo, l) /\ Dispatch(t, l, FALSE)
           \/ r.todo = {} /\ Goto(t, "checkpoint") /\ UNCHANGED hist
           \/ /\ r.todo = {} /\ SetThread(t, [r EXCEPT !.pc = "range", !.next = r.to + 1])
              /\ UNCHANGED hist
    BY <1>5 DEF NextLog, historyVars
  <2>2. r.pc \in InRangeLoop /\ ~AwaitsLog(r) /\ ~Waits(r) /\ r.pc # "wait"
    BY <2>1 DEF InRangeLoop, AwaitsLog, Waits
  <2>3. CASE Leave(t, ReturnPc(t)) /\ UNCHANGED hist
    BY <1>0, <1>l, <2>1, <2>2, <2>3
  <2>4. CASE r.todo = {} /\ Goto(t, "checkpoint") /\ UNCHANGED hist
    BY <1>0, <1>j, <2>1, <2>2, <2>4
  <2>5. CASE /\ r.todo = {} /\ SetThread(t, [r EXCEPT !.pc = "range", !.next = r.to + 1])
             /\ UNCHANGED hist
    BY <1>0, <1>e, <2>1, <2>2, <2>5
  <2>6. ASSUME NEW l \in LogRecords, NEW removed \in BOOLEAN, Dispatch(t, l, removed),
               ~removed => l \in r.todo /\ NextInOrder(r.todo, l)
        PROVE  CursorInv'
    <3> DEFINE o == IF removed THEN r.orphans \ {l} ELSE r.orphans
               d == IF removed THEN r.todo ELSE r.todo \ {l}
               v == [r EXCEPT !.pc = "wait", !.log = l, !.removed = removed,
                              !.result = "none", !.orphans = o, !.todo = d]
               job == [log |-> l, removed |-> removed, live |-> FALSE,
                       gen |-> r.gen, waiter |-> t]
    <3>1. SetThread(t, v) /\ hist' = Append(hist, job)
      <4>1. v = [r EXCEPT !.pc = "wait", !.log = l, !.removed = removed,
                            !.result = "none",
                            !.orphans = IF removed THEN @ \ {l} ELSE @,
                            !.todo = IF removed THEN @ ELSE @ \ {l}]
        BY <1>0 DEF ThreadStates
      <4> QED BY <2>6, <4>1 DEF Dispatch
    <3>2. /\ v.pc = "wait" /\ v.resume = r.resume /\ v.next = r.next /\ v.to = r.to
          /\ v.todo = d /\ v.head = r.head /\ v.target = r.target /\ v.gen = r.gen
          /\ v.log = l /\ v.removed = removed /\ v.result = "none"
      <4> HIDE DEF o, d
      <4> QED BY <1>0 DEF ThreadStates
    <3>3. job \in JobRecords /\ job.waiter = t /\ job.log = l /\ job.removed = removed
          /\ job.gen = r.gen
      <4>1. r.gen \in Nat
        BY <1>0 DEF ThreadStates
      <4> QED BY <2>6, <4>1 DEF JobRecords
    <3> HIDE DEF v, job
    <3>4. ASSUME NEW b, NEW f, FetchedVersion(r, b, f, ever) PROVE FetchedVersion(v, b, f, ever)
      <4>1. \A m : m \in r.todo => m \in v.todo \/ (AwaitsLog(v) /\ m = v.log)
        BY <3>2 DEF AwaitsLog
      <4>2. v.todo \subseteq r.todo
        BY <3>2
      <4> QED BY <2>2, <3>4, <4>1, <4>2 DEF FetchedVersion
    <3>5. Fetched(v, ever, chain.forks)
      <4>1. v.todo \subseteq r.todo
        BY <3>2
      <4> QED BY <1>r, <2>2, <3>2, <3>4, <4>1 DEF ScanOK, Fetched
    <3>6. ~removed => Ready(v, ever, DoneBlocks)
      BY <1>0, <1>r, <2>1, <2>6, <3>2, NextReady DEF Ready
    <3>7. ScanOK(v, ever, DoneBlocks, chain.forks, ls.generation)
      BY <1>r, <2>1, <3>2, <3>5, <3>6 DEF ScanOK, AwaitsLog, Scanning, InRangeLoop, Answered
    <3>8. ThreadBounds(v, chain.head, ls.generation)
      BY <1>r, <2>1, <3>2 DEF ThreadBounds, InRangeLoop
    <3>9. scan'[t] = v /\ \A u \in Threads : u # t => scan'[u] = scan[u]
      BY <1>0, <3>1 DEF SetThread
    <3>10. /\ ScanInv' /\ (\A u \in Threads : ThreadBounds(scan[u], chain.head, ls.generation))'
      BY <1>g, <1>k, <1>u, <2>1, <2>2, <3>7, <3>8, <3>9, ThreadMoves
    <3>11. WaitersOK(hist', liveq, worker, scan')
      <4>1. Awaited(job, v)
        BY <3>2, <3>3 DEF Awaited, Waits
      <4>2. <<job>> \in Seq(JobRecords) /\ Len(<<job>>) = 1 /\ <<job>>[1] = job
        BY <3>3
      <4>3. hist' = hist \o <<job>>
        BY <1>0, <3>1, <3>3
      <4>4. \A i \in 1..Len(<<job>>) :
               /\ i = Len(<<job>>) => <<job>>[i].waiter = t /\ Awaited(<<job>>[i], scan'[t])
               /\ i # Len(<<job>>) => <<job>>[i].waiter = "none"
        BY <3>3, <3>9, <4>1, <4>2
      <4>5. ~Waits(scan[t]) /\ \A u \in Threads : u # t => scan'[u] = scan[u]
        BY <2>2, <3>9
      <4>6. WaitersOK(hist \o <<job>>, liveq, worker, scan')
        BY <1>0, <4>2, <4>4, <4>5, ConcatWaiter
      <4> QED BY <4>3, <4>6
    <3> QED BY <1>0, <1>q, <2>1, <3>10, <3>11
  <2>7. r.orphans \subseteq LogRecords /\ r.todo \subseteq LogRecords
    BY <1>0 DEF ThreadStates
  <2> QED BY <2>1, <2>3, <2>4, <2>5, <2>6, <2>7
<1>6. CASE DispatchReturns(t)
  <2>1. /\ r.pc = "wait" /\ r.result # "none" /\ UNCHANGED <<cursor, hist, delivered, skipped>>
        /\ \/ Leave(t, ReturnPc(t)) \/ Leave(t, ThrowPc(t))
           \/ r.removed /\ Goto(t, "log")
           \/ /\ r.result # "failed" /\ ~r.removed /\ r.gen = ls.generation
              /\ Goto(t, "log") \/ Goto(t, "save")
    BY <1>6 DEF DispatchReturns, historyVars, Current
  <2>2. r.pc \in InRangeLoop /\ ~Waits(r)
    BY <2>1 DEF InRangeLoop, Waits
  <2>3. CASE Leave(t, ReturnPc(t)) \/ Leave(t, ThrowPc(t))
    BY <1>0, <1>l, <2>1, <2>2, <2>3
  <2>4. CASE r.removed /\ Goto(t, "log")
    BY <1>0, <1>j, <2>1, <2>2, <2>4 DEF AwaitsLog
  <2>5. ASSUME r.result # "failed", ~r.removed, r.gen = ls.generation
        PROVE  AwaitsLog(r) /\ r.log \in ever /\ Ready(r, ever, DoneBlocks)
    <3>1. r.result \in {"true", "false"} /\ ~(r.gen < ls.generation)
      BY <1>0, <1>n, <2>1, <2>5 DEF ThreadStates
    <3>2. AwaitsLog(r)
      BY <2>1, <2>5 DEF AwaitsLog
    <3>3. Answered(r, ever, ls.generation) /\ Ready(r, ever, DoneBlocks)
      BY <1>r, <3>2 DEF ScanOK
    <3> QED BY <3>1, <3>2, <3>3 DEF Answered
  <2>6. CASE r.result # "failed" /\ ~r.removed /\ r.gen = ls.generation /\ Goto(t, "log")
    BY <1>0, <1>j, <2>1, <2>2, <2>5, <2>6
  <2>7. CASE r.result # "failed" /\ ~r.removed /\ r.gen = ls.generation /\ Goto(t, "save")
    <3> DEFINE v == [r EXCEPT !.pc = "save"]
    <3>1. /\ v.pc = "save" /\ v.resume = r.resume /\ v.next = r.next /\ v.to = r.to
          /\ v.todo = r.todo /\ v.head = r.head /\ v.target = r.target /\ v.gen = r.gen
          /\ v.log = r.log
      BY <1>0 DEF ThreadStates
    <3>2. SetThread(t, v)
      BY <2>7 DEF Goto
    <3> HIDE DEF v
    <3>3. ASSUME NEW b, NEW f, FetchedVersion(r, b, f, ever) PROVE FetchedVersion(v, b, f, ever)
      BY <2>5, <2>7, <3>1, <3>3 DEF FetchedVersion
    <3>4. Fetched(v, ever, chain.forks)
      BY <1>r, <2>2, <3>1, <3>3 DEF ScanOK, Fetched
    <3>5. Ready(v, ever, DoneBlocks)
      BY <2>5, <2>7, <3>1 DEF Ready
    <3>6. ScanOK(v, ever, DoneBlocks, chain.forks, ls.generation)
      BY <1>r, <2>1, <2>5, <2>7, <3>1, <3>4, <3>5 DEF ScanOK, AwaitsLog, Scanning, InRangeLoop
    <3>7. ThreadBounds(v, chain.head, ls.generation)
      BY <1>r, <2>2, <3>1 DEF ThreadBounds
    <3> QED BY <1>0, <1>k, <1>m, <2>1, <2>2, <3>2, <3>6, <3>7
  <2> QED BY <2>1, <2>3, <2>4, <2>6, <2>7
<1>7. CASE save_log_checkpoint(t)
  <2> DEFINE c == [block |-> r.log.block, complete |-> FALSE, last |-> r.log]
  <2>1. /\ r.pc = "save" /\ UNCHANGED <<hist, delivered, skipped>> /\ Goto(t, "log")
        /\ cursor' = SaveCursor(c)
    BY <1>7 DEF save_log_checkpoint, historyVars
  <2>2. r.log \in ever /\ PrefixIn(r.log, ever) /\ Below(r.log.block, DoneBlocks)
    BY <1>r, <2>1 DEF ScanOK, Ready
  <2>3. SoundCursor(c, ever)
    BY <2>2 DEF SoundCursor
  <2>4. ASSUME NEW b \in StartBlock..MaxBlock, Passed(c, b) PROVE b \in DoneBlocks
    BY <2>2, <2>4 DEF Passed, Below
  <2>5. CursorOK(cursor', ever, DoneBlocks)
    <3>1. CursorOK(c, ever, DoneBlocks)
      BY <2>3, <2>4 DEF CursorOK
    <3> HIDE DEF c
    <3> QED BY <1>0, <2>1, <3>1, StoreKeeps
  <2>6. r.pc \in InRangeLoop /\ ~AwaitsLog(r) /\ ~Waits(r)
    BY <2>1 DEF InRangeLoop, AwaitsLog, Waits
  <2> QED BY <1>j, <2>1, <2>5, <2>6
<1>8. CASE save_checkpoint(t)
  <2> DEFINE c == [block |-> r.to, complete |-> TRUE, last |-> NoLog]
  <2>1. /\ r.pc = "checkpoint" /\ UNCHANGED <<hist, skipped>>
        /\ cursor' = SaveCursor(c) /\ delivered' \subseteq delivered
        /\ \/ SetThread(t, [r EXCEPT !.pc = "range", !.next = r.to + 1])
           \/ Leave(t, ThrowPc(t))
    BY <1>8 DEF save_checkpoint, historyVars, prune_delivered
  <2>2. r.pc \in InRangeLoop /\ ~AwaitsLog(r) /\ ~Waits(r) /\ r.todo = {} /\ r.pc # "wait"
    BY <1>r, <2>1 DEF InRangeLoop, AwaitsLog, Waits, ScanOK
  <2>3. Below(r.to + 1, DoneBlocks)
    BY <1>0, <1>r, <2>2, RangeDone
  <2>4. CursorOK(cursor', ever, DoneBlocks)
    <3>1. ASSUME NEW b \in StartBlock..MaxBlock, Passed(c, b) PROVE b \in DoneBlocks
      <4>1. r.to \in Nat /\ StartBlock \in Nat
        BY <1>0, ConstantTypes DEF ThreadStates
      <4>2. b < r.to + 1
        BY <3>1, <4>1 DEF Passed
      <4> QED BY <2>3, <3>1, <4>2 DEF Below
    <3>2. CursorOK(c, ever, DoneBlocks)
      BY <3>1 DEF CursorOK, SoundCursor
    <3> HIDE DEF c
    <3> QED BY <1>0, <2>1, <3>2, StoreKeeps
  <2> QED BY <1>e, <1>l, <2>1, <2>2, <2>4
<1>9. CASE CallThrows(t)
  <2>1. /\ r.pc \notin {"wait", "drainwait"} /\ UNCHANGED <<cursor, hist, delivered>>
        /\ Leave(t, ThrowPc(t))
    BY <1>9 DEF CallThrows
  <2> QED BY <1>0, <1>l, <1>w, <2>1
<1> QED BY <1>1, <1>2, <1>3, <1>4, <1>5, <1>6, <1>7, <1>8, <1>9 DEF ScanStep

(* A step of thread t outside the range loops that queues no delivery. *)
LEMMA OutsideMove ==
    ASSUME CursorInv, TypeInv', EnvBounds', NEW t \in Threads, NEW v, SetThread(t, v),
           ~Waits(scan[t]), v.pc \notin Scanning, SoundCursor(v.resume, ever),
           v.head <= chain.head, v.target <= chain.head, v.gen <= ls'.generation,
           ls.generation <= ls'.generation,
           UNCHANGED <<chain, cursor, hist, liveq, worker, delivered, ever, skipped>>
    PROVE  CursorInv'
<1>0. TypeInv /\ scan \in [Threads -> ThreadStates]
  BY UsableScanType DEF CursorInv, TypeInv
<1>1. Grows
  BY <1>0, NumberTypes DEF Grows
<1>2. DoneBlocks' = DoneBlocks
  BY DEF DoneBlocks, Covered
<1>3. scan'[t] = v /\ \A u \in Threads : u # t => scan'[u] = scan[u]
  BY <1>0 DEF SetThread
<1>4. ScanOK(v, ever', DoneBlocks', chain'.forks, ls'.generation)
  BY ScanIdle
<1>5. ThreadBounds(v, chain'.head, ls'.generation)
  BY DEF ThreadBounds, InRangeLoop, Scanning
<1>6. /\ ScanInv' /\ (\A u \in Threads : ThreadBounds(scan[u], chain.head, ls.generation))'
      /\ WaitersOK(hist, liveq, worker, scan')
  BY <1>1, <1>3, <1>4, <1>5, ThreadMoves
<1> QED BY <1>2, <1>6 DEF CursorInv, BoundsInv, WaiterInv, DeliveredInv

(* The session's bounds survive a step that only lowers heads. *)
LEMMA EnvKeeps ==
    ASSUME TypeInv, EnvBounds, chain' = chain, link'.heads \subseteq link.heads,
           ls'.bufferedHead \in {ls.bufferedHead, NoHead},
           ls'.pendingHead \in {ls.pendingHead, NoHead},
           ls'.pendingGen = ls.pendingGen, ls'.generation \in Nat,
           ls.generation <= ls'.generation
    PROVE  EnvBounds'
<1>1. /\ ls.pendingGen \in Nat /\ ls.generation \in Nat /\ chain.head \in Nat
  BY InvTypes
<1> QED BY <1>1 DEF EnvBounds, NoHead

(* The reconciliation worker. *)
LEMMA ReconcileStepOK ==
    ASSUME CursorInv, TypeInv', ReconcileStep PROVE CursorInv'
<1> DEFINE r == scan["reconcile"]
<1>0. /\ TypeInv /\ EnvBounds /\ ls \in LiveStates /\ "reconcile" \in Threads
      /\ scan \in [Threads -> ThreadStates] /\ r \in ThreadStates /\ r \in UsableThreads
  BY UsableScanType, InvTypes DEF CursorInv, BoundsInv, TypeInv, TypeOK, Threads
<1>r. /\ SoundCursor(r.resume, ever) /\ r.head <= chain.head /\ r.target <= chain.head
      /\ r.gen <= ls.generation
  BY <1>0 DEF CursorInv, ScanInv, ScanOK, BoundsInv, ThreadBounds
<1>n. /\ chain.head \in Blocks /\ chain.head \in Nat /\ ls.generation \in Nat
      /\ ls.pendingGen \in Nat /\ r.head \in MaybeHead
      /\ ls.pendingHead <= chain.head /\ ls.pendingGen <= ls.generation
  BY <1>0, InvTypes DEF EnvBounds, ThreadStates
<1>u. /\ UNCHANGED <<chain, link, cursor, hist, liveq, worker, delivered, ever, skipped>>
  BY DEF ReconcileStep, ReconcileWake, RefreshHead, reconcile_confirmed,
         report_reconciliation_failure, ReconcileRelease, envVars, queueVars, historyVars
<1>l. /\ ls'.generation = ls.generation /\ ls'.bufferedHead = ls.bufferedHead
      /\ ls'.pendingHead \in {ls.pendingHead, NoHead} /\ ls'.pendingGen = ls.pendingGen
  BY <1>0 DEF ReconcileStep, ReconcileWake, RefreshHead, reconcile_confirmed,
         report_reconciliation_failure, ReconcileRelease, LiveStates
<1>e. EnvBounds'
  BY <1>0, <1>l, <1>n, <1>u, EnvKeeps
<1>g. ls.generation <= ls'.generation
  BY <1>l, <1>n
<1>w. ~Waits(r)
  BY DEF ReconcileStep, ReconcileWake, RefreshHead, reconcile_confirmed,
         report_reconciliation_failure, ReconcileRelease, Waits
<1>v. ASSUME NEW p \in {"release", "idle"}, Leave("reconcile", p) PROVE CursorInv'
  <2>1. p \in Pcs \ ScanPcs
    BY DEF Pcs, ScanPcs
  <2>2. Grows
    BY <1>0, <1>g, <1>u, NumberTypes DEF Grows
  <2>3. /\ ScanInv' /\ (\A u \in Threads : ThreadBounds(scan[u], chain.head, ls.generation))'
        /\ WaitersOK(hist, liveq, worker, scan')
    BY <1>0, <1>v, <1>w, <2>1, <2>2, LeaveOK
  <2>4. DoneBlocks' = DoneBlocks
    BY <1>u DEF DoneBlocks, Covered
  <2> QED BY <1>e, <1>u, <2>3, <2>4 DEF CursorInv, BoundsInv, WaiterInv, DeliveredInv
<1>1. CASE ReconcileWake
  <2> DEFINE p == IF ls.refresh THEN "refresh" ELSE "confirm"
             v == [IdleThread EXCEPT !.pc = p, !.gen = ls.pendingGen, !.head = ls.pendingHead,
                             !.refresh = ls.refresh, !.overlap = ls.overlap]
  <2>1. SetThread("reconcile", v)
    BY <1>1 DEF ReconcileWake
  <2>2. /\ v.pc = p /\ v.resume = NoCursor /\ v.head = ls.pendingHead /\ v.target = 0
        /\ v.gen = ls.pendingGen
    BY DEF IdleThread
  <2>3. p \notin Scanning
    BY DEF Scanning
  <2> HIDE DEF v, p
  <2>4. /\ v.pc \notin Scanning /\ SoundCursor(v.resume, ever)
        /\ v.head <= chain.head /\ v.target <= chain.head /\ v.gen <= ls'.generation
    BY <1>l, <1>n, <2>2, <2>3, NoCursorSound
  <2> QED BY <1>0, <1>e, <1>g, <1>u, <1>w, <2>1, <2>4, OutsideMove
<1>2. CASE RefreshHead
  <2> DEFINE h == Max2(r.head, chain.head)
             v == [r EXCEPT !.pc = "confirm", !.head = h]
  <2>1. SetThread("reconcile", v)
    <3>1. v = [r EXCEPT !.pc = "confirm", !.head = Max2(@, chain.head)]
      BY <1>0 DEF ThreadStates
    <3> QED BY <1>2, <3>1 DEF RefreshHead
  <2>2. /\ v.pc = "confirm" /\ v.resume = r.resume /\ v.head = h /\ v.target = r.target
        /\ v.gen = r.gen
    BY <1>0 DEF ThreadStates
  <2>3. h <= chain.head
    BY <1>n, <1>r DEF Max2
  <2> HIDE DEF v, h
  <2>4. /\ v.pc \notin Scanning /\ SoundCursor(v.resume, ever)
        /\ v.head <= chain.head /\ v.target <= chain.head /\ v.gen <= ls'.generation
    BY <1>l, <1>n, <1>r, <2>2, <2>3 DEF Scanning
  <2> QED BY <1>0, <1>e, <1>g, <1>u, <1>w, <2>1, <2>4, OutsideMove
<1>3. CASE reconcile_confirmed
  <2> DEFINE d == DurableHead(r.head)
             g == IF r.refresh THEN r.head ELSE DurableHead(r.head)
             p == IF r.overlap THEN "gap" ELSE "load"
             v == [r EXCEPT !.pc = p, !.durable = d, !.target = g]
  <2>1. r.head \in Blocks
    BY <1>0, <1>3, <1>n DEF reconcile_confirmed, UsableThreads, MaybeHead
  <2>2. g <= chain.head
    <3>1. DurableHead(r.head) \in Nat /\ DurableHead(r.head) <= r.head /\ r.head \in Nat
      BY <2>1, DurableHeadType, ConstantTypes
    <3> QED BY <1>n, <1>r, <3>1
  <2>3. /\ v.pc = p /\ v.resume = r.resume /\ v.head = r.head /\ v.target = g
        /\ v.gen = r.gen
    <3> HIDE DEF d, g, p
    <3> QED BY <1>0 DEF ThreadStates
  <2>4. p \notin Scanning
    BY DEF Scanning
  <2>5. SetThread("reconcile", v) \/ Leave("reconcile", "release")
    BY <1>3 DEF reconcile_confirmed
  <2> HIDE DEF v, g, p
  <2>6. /\ v.pc \notin Scanning /\ SoundCursor(v.resume, ever)
        /\ v.head <= chain.head /\ v.target <= chain.head /\ v.gen <= ls'.generation
    BY <1>l, <1>n, <1>r, <2>2, <2>3, <2>4
  <2>7. CASE SetThread("reconcile", v)
    BY <1>0, <1>e, <1>g, <1>u, <1>w, <2>7, <2>6, OutsideMove
  <2> QED BY <1>v, <2>5, <2>7
<1>4. CASE report_reconciliation_failure
  <2> DEFINE v == [r EXCEPT !.pc = "release"]
  <2>1. SetThread("reconcile", v)
    BY <1>4 DEF report_reconciliation_failure, Goto
  <2>2. /\ v.pc = "release" /\ v.resume = r.resume /\ v.head = r.head /\ v.target = r.target
        /\ v.gen = r.gen
    BY <1>0 DEF ThreadStates
  <2> HIDE DEF v
  <2>3. /\ v.pc \notin Scanning /\ SoundCursor(v.resume, ever)
        /\ v.head <= chain.head /\ v.target <= chain.head /\ v.gen <= ls'.generation
    BY <1>l, <1>n, <1>r, <2>2 DEF Scanning
  <2> QED BY <1>0, <1>e, <1>g, <1>u, <1>w, <2>1, <2>3, OutsideMove
<1>5. CASE ReconcileRelease
  BY <1>5, <1>v DEF ReconcileRelease
<1> QED BY <1>1, <1>2, <1>3, <1>4, <1>5 DEF ReconcileStep

(* start_live after its first step, and the calls that begin a scan. *)
LEMMA StartStepOK ==
    ASSUME CursorInv, TypeInv', StartStep \/ catch_up \/ start_live PROVE CursorInv'
<1> DEFINE r == scan["user"]
<1>0. /\ TypeInv /\ EnvBounds /\ ls \in LiveStates /\ link \in Links /\ "user" \in Threads
      /\ scan \in [Threads -> ThreadStates] /\ r \in ThreadStates
      /\ WaitersOK(hist, liveq, worker, scan) /\ hist \in Seq(JobRecords)
      /\ (worker.pc # "idle" => worker.job \in JobRecords)
  BY UsableScanType, InvTypes DEF CursorInv, BoundsInv, WaiterInv, TypeInv, TypeOK,
     Threads, UsableWorkers
<1>r. /\ SoundCursor(r.resume, ever) /\ r.head <= chain.head /\ r.target <= chain.head
      /\ r.gen <= ls.generation
  BY <1>0 DEF CursorInv, ScanInv, ScanOK, BoundsInv, ThreadBounds
<1>n. /\ chain.head \in Blocks /\ chain.head \in Nat /\ ls.generation \in Nat
      /\ r.gen \in Nat /\ r.head \in MaybeHead /\ ls.bufferedHead <= chain.head
      /\ DurableHead(chain.head) <= chain.head /\ ls.buffered \in Seq(NoteRecords)
  BY <1>0, InvTypes, DurableHeadType DEF EnvBounds, ThreadStates, LiveStates
<1>w. ~Waits(r)
  BY DEF StartStep, Subscribe, CaptureBoundary, Handoff, drain_live_buffer, DrainGap,
         DrainWait, ReplayHead, StartLiveReturns, StartLiveAborts, catch_up, start_live, Waits
<1>u. /\ UNCHANGED <<chain, cursor, liveq, worker, delivered, ever, skipped>>
      /\ ~drain_live_buffer => hist' = hist
  BY DEF StartStep, Subscribe, CaptureBoundary, Handoff, drain_live_buffer, DrainGap,
         DrainWait, ReplayHead, StartLiveReturns, StartLiveAborts, catch_up, start_live,
         envVars, queueVars, historyVars
<1>k. DoneBlocks' = DoneBlocks
  BY <1>u DEF DoneBlocks, Covered
<1>o. ASSUME NEW v, SetThread("user", v), UNCHANGED hist, EnvBounds', v.pc \notin Scanning,
             SoundCursor(v.resume, ever), v.head <= chain.head, v.target <= chain.head,
             v.gen <= ls'.generation, ls.generation <= ls'.generation
      PROVE  CursorInv'
  BY <1>0, <1>u, <1>w, <1>o, OutsideMove
<1>v. ASSUME Leave("user", "idle"), UNCHANGED hist, EnvBounds',
             ls.generation <= ls'.generation
      PROVE  CursorInv'
  <2>1. "idle" \in Pcs \ ScanPcs
    BY DEF Pcs, ScanPcs
  <2>2. Grows
    BY <1>0, <1>v, <1>u, NumberTypes DEF Grows
  <2>3. /\ ScanInv' /\ (\A u \in Threads : ThreadBounds(scan[u], chain.head, ls.generation))'
        /\ WaitersOK(hist, liveq, worker, scan')
    BY <1>0, <1>v, <1>w, <2>1, <2>2, LeaveOK
  <2> QED BY <1>v, <1>k, <1>u, <2>3 DEF CursorInv, BoundsInv, WaiterInv, DeliveredInv
<1>j. ASSUME NEW p \in {"boundary", "abort", "drain", "gaphead", "finish"}, Goto("user", p),
             UNCHANGED hist, EnvBounds', ls.generation <= ls'.generation
      PROVE  CursorInv'
  <2> DEFINE v == [r EXCEPT !.pc = p]
  <2>1. SetThread("user", v)
    BY <1>j DEF Goto
  <2>2. /\ v.pc = p /\ v.resume = r.resume /\ v.head = r.head /\ v.target = r.target
        /\ v.gen = r.gen
    BY <1>0 DEF ThreadStates
  <2>3. p \notin Scanning /\ ls'.generation \in Nat
    BY <1>0, NumberTypes DEF Scanning
  <2> HIDE DEF v
  <2> QED BY <1>j, <1>n, <1>o, <1>r, <2>1, <2>2, <2>3
<1>1. CASE Subscribe
  <2>1. link'.heads \subseteq link.heads /\ ls' = ls
    BY <1>1, <1>0 DEF Subscribe
  <2>2. EnvBounds'
    BY <1>0, <1>n, <1>u, <2>1, EnvKeeps
  <2>3. Goto("user", "boundary") \/ Goto("user", "abort")
    BY <1>1 DEF Subscribe
  <2>4. UNCHANGED hist /\ ls.generation <= ls'.generation
    BY <1>1, <1>n, <2>1 DEF Subscribe, queueVars
  <2> QED BY <1>j, <2>2, <2>3, <2>4
<1>e. ASSUME UNCHANGED <<ls, link>> PROVE EnvBounds' /\ ls.generation <= ls'.generation
  BY <1>0, <1>e, <1>n, <1>u, EnvKeeps
<1>2. CASE CaptureBoundary
  <2> DEFINE v == [r EXCEPT !.pc = "load", !.target = chain.head,
                            !.durable = DurableHead(chain.head)]
  <2>1. SetThread("user", v) /\ UNCHANGED <<ls, link, hist>>
    BY <1>2 DEF CaptureBoundary, envVars, queueVars
  <2>2. /\ v.pc = "load" /\ v.resume = r.resume /\ v.head = r.head /\ v.target = chain.head
        /\ v.gen = r.gen
    BY <1>0 DEF ThreadStates
  <2>3. "load" \notin Scanning
    BY DEF Scanning
  <2> HIDE DEF v
  <2> QED BY <1>e, <1>n, <1>o, <1>r, <2>1, <2>2, <2>3
<1>3. CASE Handoff
  <2>1. UNCHANGED <<ls, link, hist>> /\ (Goto("user", "drain") \/ Leave("user", "idle"))
    BY <1>3 DEF Handoff, envVars, queueVars
  <2> QED BY <1>e, <1>j, <1>v, <2>1
<1>4. CASE drain_live_buffer
  <2>e. EnvBounds' /\ ls.generation <= ls'.generation
    <3>1. /\ ls'.bufferedHead \in {ls.bufferedHead, NoHead} /\ ls'.pendingHead = ls.pendingHead
          /\ ls'.pendingGen = ls.pendingGen /\ ls'.generation = ls.generation
      BY <1>0, <1>4 DEF drain_live_buffer, LiveStates
    <3>2. link' = link
      BY <1>4 DEF drain_live_buffer, envVars
    <3> QED BY <1>0, <1>n, <1>u, <3>1, <3>2, EnvKeeps
  <2>1. CASE ls.handoffGap
    <3>1. Goto("user", "gaphead") /\ UNCHANGED hist
      BY <1>4, <2>1 DEF drain_live_buffer
    <3> QED BY <1>j, <2>e, <3>1
  <2>2. CASE ~ls.handoffGap /\ ls.buffered # <<>>
    <3> DEFINE n == Len(ls.buffered)
               jobs == [i \in 1..n |->
                [log |-> ls.buffered[i].log, removed |-> ls.buffered[i].removed,
                 live |-> TRUE, gen |-> r.gen,
                 waiter |-> IF i = n THEN "user" ELSE "none"]]
               v == [r EXCEPT !.pc = "drainwait", !.result = "none"]
    <3>1. jobs \in Seq(JobRecords) /\ Len(jobs) = n /\ n \in Nat
      <4>1. n \in Nat
        BY <1>n
      <4> QED BY <1>n, <4>1, BufferedJobsType
    <3>2. hist' = hist \o jobs /\ SetThread("user", v)
      BY <1>4, <2>2 DEF drain_live_buffer
    <3>3. /\ v.pc = "drainwait" /\ v.resume = r.resume /\ v.head = r.head
          /\ v.target = r.target /\ v.gen = r.gen /\ v.result = "none"
      BY <1>0 DEF ThreadStates
    <3>4. scan'["user"] = v /\ \A u \in Threads : u # "user" => scan'[u] = scan[u]
      BY <1>0, <3>2 DEF SetThread
    <3> HIDE DEF v
    <3>5. \A job : Awaited(job, scan'["user"])
      BY <3>3, <3>4 DEF Awaited, Waits
    <3>6. \A i \in 1..Len(jobs) :
             /\ i = Len(jobs) => jobs[i].waiter = "user" /\ Awaited(jobs[i], scan'["user"])
             /\ i # Len(jobs) => jobs[i].waiter = "none"
      BY <3>1, <3>5
    <3> HIDE DEF jobs
    <3>7. WaitersOK(hist \o jobs, liveq, worker, scan')
      BY <1>0, <1>w, <3>1, <3>4, <3>6, ConcatWaiter
    <3>8. Grows
      BY <1>0, <1>u, <2>e, NumberTypes DEF Grows
    <3>9. ScanOK(v, ever', DoneBlocks', chain'.forks, ls'.generation)
      BY <1>r, <1>u, <3>3, ScanIdle DEF Scanning
    <3>10. ThreadBounds(v, chain'.head, ls'.generation)
      <4>1. ls'.generation \in Nat
        BY <1>0, NumberTypes
      <4> QED BY <1>n, <1>r, <1>u, <2>e, <3>3, <4>1 DEF ThreadBounds, InRangeLoop
    <3>11. /\ ScanInv' /\ (\A u \in Threads : ThreadBounds(scan[u], chain.head, ls.generation))'
      BY <1>0, <1>w, <3>4, <3>8, <3>9, <3>10, ThreadMoves
    <3> QED BY <1>k, <1>u, <2>e, <3>2, <3>7, <3>11
            DEF CursorInv, BoundsInv, WaiterInv, DeliveredInv
  <2>3. CASE ~ls.handoffGap /\ ls.buffered = <<>>
    <3> DEFINE v == [r EXCEPT !.pc = "head", !.head = ls.bufferedHead]
    <3>1. SetThread("user", v) /\ UNCHANGED hist
      BY <1>4, <2>3 DEF drain_live_buffer
    <3>2. /\ v.pc = "head" /\ v.resume = r.resume /\ v.head = ls.bufferedHead
          /\ v.target = r.target /\ v.gen = r.gen
      BY <1>0 DEF ThreadStates
    <3>3. "head" \notin Scanning /\ ls'.generation \in Nat
      BY <1>0, NumberTypes DEF Scanning
    <3> HIDE DEF v
    <3> QED BY <1>n, <1>o, <1>r, <2>e, <3>1, <3>2, <3>3
  <2> QED BY <2>1, <2>2, <2>3
<1>5. CASE DrainGap
  <2> DEFINE v == [r EXCEPT !.pc = "gap", !.call = "drain", !.overlap = TRUE,
                            !.target = chain.head, !.durable = DurableHead(chain.head)]
  <2>1. SetThread("user", v) /\ UNCHANGED <<ls, link, hist>>
    BY <1>5 DEF DrainGap, envVars, queueVars
  <2>2. /\ v.pc = "gap" /\ v.resume = r.resume /\ v.head = r.head /\ v.target = chain.head
        /\ v.gen = r.gen
    BY <1>0 DEF ThreadStates
  <2>3. "gap" \notin Scanning
    BY DEF Scanning
  <2> HIDE DEF v
  <2> QED BY <1>e, <1>n, <1>o, <1>r, <2>1, <2>2, <2>3
<1>6. CASE DrainWait
  <2>1. UNCHANGED <<ls, link, hist>> /\ (Goto("user", "drain") \/ Goto("user", "abort"))
    BY <1>6 DEF DrainWait, envVars, queueVars
  <2> QED BY <1>e, <1>j, <2>1
<1>7. CASE ReplayHead
  <2>1. UNCHANGED <<link, hist>> /\ Goto("user", "finish")
    BY <1>7 DEF ReplayHead, envVars, queueVars
  <2>2. EnvBounds' /\ ls.generation <= ls'.generation
    <3>1. CASE r.head = NoHead
      BY <1>7, <1>e, <2>1, <3>1 DEF ReplayHead
    <3>2. CASE r.head # NoHead
      <4>1. r.head \in Blocks
        BY <1>n, <3>2 DEF MaybeHead
      <4>2. ls' = HeadNoted(ls, r.head, r.gen)
        BY <1>7, <3>2 DEF ReplayHead
      <4>3. /\ ls'.bufferedHead <= chain.head /\ ls'.pendingHead <= chain.head
            /\ ls'.pendingGen <= ls'.generation /\ ls'.generation = ls.generation
        BY <1>0, <1>n, <1>r, <4>1, <4>2, NotedBounds
      <4> QED BY <1>0, <1>n, <1>u, <2>1, <4>3 DEF EnvBounds
    <3> QED BY <3>1, <3>2
  <2> QED BY <1>j, <2>1, <2>2
<1>8. CASE StartLiveReturns
  <2>1. UNCHANGED <<link, hist>> /\ Leave("user", "idle")
        /\ ls' = [ls EXCEPT !.started = @ \/ (ls.accepting /\ Current("user"))]
    BY <1>8 DEF StartLiveReturns, envVars, queueVars
  <2>2. /\ ls'.bufferedHead = ls.bufferedHead /\ ls'.pendingHead = ls.pendingHead
        /\ ls'.pendingGen = ls.pendingGen /\ ls'.generation = ls.generation
    BY <1>0, <2>1 DEF LiveStates
  <2>3. EnvBounds' /\ ls.generation <= ls'.generation
    BY <1>0, <1>n, <1>u, <2>1, <2>2, EnvKeeps
  <2> QED BY <1>v, <2>1, <2>3
<1>9. CASE StartLiveAborts
  <2>1. UNCHANGED hist /\ Leave("user", "idle") /\ ls' = Idled(ls)
        /\ link'.heads \subseteq link.heads
    BY <1>0, <1>9 DEF StartLiveAborts, queueVars, Links
  <2>2. /\ ls'.bufferedHead = NoHead /\ ls'.pendingHead = NoHead
        /\ ls'.pendingGen = ls.pendingGen /\ ls'.generation = ls.generation
    BY <1>0, <2>1 DEF Idled, LiveStates
  <2>3. EnvBounds' /\ ls.generation <= ls'.generation
    BY <1>0, <1>n, <1>u, <2>1, <2>2, EnvKeeps
  <2> QED BY <1>v, <2>1, <2>3
<1>10. CASE catch_up
  <2> DEFINE v == [IdleThread EXCEPT !.pc = "load", !.call = "catch_up",
                       !.gen = ls.generation, !.target = DurableHead(chain.head),
                       !.durable = DurableHead(chain.head)]
  <2>1. SetThread("user", v) /\ UNCHANGED <<ls, link, hist>>
    BY <1>10 DEF catch_up, envVars, queueVars
  <2>2. /\ v.pc = "load" /\ v.resume = NoCursor /\ v.head = NoHead
        /\ v.target = DurableHead(chain.head) /\ v.gen = ls.generation
    BY DEF IdleThread
  <2>3. "load" \notin Scanning /\ NoHead <= chain.head
    BY <1>n DEF Scanning, NoHead
  <2> HIDE DEF v
  <2> QED BY <1>e, <1>n, <1>o, <2>1, <2>2, <2>3, NoCursorSound
<1>11. CASE start_live
  <2> DEFINE v == [IdleThread EXCEPT !.pc = "subscribe", !.call = "start_live",
                                     !.gen = ls.generation + 1]
  <2>1. SetThread("user", v) /\ UNCHANGED <<link, hist>>
    BY <1>11 DEF start_live, envVars, queueVars
  <2>2. /\ v.pc = "subscribe" /\ v.resume = NoCursor /\ v.head = NoHead /\ v.target = 0
        /\ v.gen = ls.generation + 1
    BY DEF IdleThread
  <2>3. /\ ls'.bufferedHead = NoHead /\ ls'.pendingHead = ls.pendingHead
        /\ ls'.pendingGen = ls.pendingGen /\ ls'.generation = ls.generation + 1
    BY <1>0, <1>11 DEF start_live, LiveStates
  <2>4. EnvBounds' /\ ls.generation <= ls'.generation
    BY <1>0, <1>n, <1>u, <2>1, <2>3, EnvKeeps
  <2>5. "subscribe" \notin Scanning /\ NoHead <= chain.head
    BY <1>n DEF Scanning, NoHead
  <2> HIDE DEF v
  <2> QED BY <1>n, <1>o, <2>1, <2>2, <2>3, <2>4, <2>5, NoCursorSound
<1> QED BY <1>1, <1>2, <1>3, <1>4, <1>5, <1>6, <1>7, <1>8, <1>9, <1>10, <1>11 DEF StartStep

(* stop. *)
LEMMA StopStepOK ==
    ASSUME CursorInv, TypeInv', StopSignal \/ StopTransport \/ StopReturn
    PROVE  CursorInv'
<1>0. /\ TypeInv /\ EnvBounds /\ ls \in LiveStates /\ link \in Links
  BY DEF CursorInv, BoundsInv, TypeInv, TypeOK
<1>n. ls.generation \in Nat /\ ls'.generation \in Nat
  BY <1>0, NumberTypes
<1>u. /\ UNCHANGED <<chain, cursor, hist, liveq, worker, delivered, scan, ever, skipped>>
      /\ link'.heads \subseteq link.heads
  BY <1>0 DEF StopSignal, StopTransport, StopReturn, envVars, queueVars, historyVars, Links
<1>1. /\ ls'.bufferedHead \in {ls.bufferedHead, NoHead}
      /\ ls'.pendingHead \in {ls.pendingHead, NoHead}
      /\ ls'.pendingGen = ls.pendingGen /\ ls.generation <= ls'.generation
  <2>1. CASE StopSignal
    <3>1. Idled(ls) \in LiveStates /\ ls' = [Idled(ls) EXCEPT !.generation = @ + 1]
      BY <1>0, <2>1, IdledType DEF StopSignal
    <3>2. /\ Idled(ls).bufferedHead = NoHead /\ Idled(ls).pendingHead = NoHead
          /\ Idled(ls).pendingGen = ls.pendingGen /\ Idled(ls).generation = ls.generation
      BY <1>0 DEF Idled, LiveStates
    <3>3. /\ ls'.bufferedHead = NoHead /\ ls'.pendingHead = NoHead
          /\ ls'.pendingGen = ls.pendingGen /\ ls'.generation = ls.generation + 1
      BY <3>1, <3>2 DEF LiveStates
    <3> QED BY <1>n, <3>3
  <2>2. CASE StopTransport \/ StopReturn
    BY <1>n, <2>2 DEF StopTransport, StopReturn
  <2> QED BY <2>1, <2>2
<1>2. EnvBounds'
  BY <1>0, <1>n, <1>u, <1>1, EnvKeeps
<1>3. Grows
  BY <1>0, <1>u, <1>1, NumberTypes DEF Grows
<1>4. /\ ScanInv' /\ (\A t \in Threads : ThreadBounds(scan[t], chain.head, ls.generation))'
  BY <1>u, <1>3, NobodyMoves
<1>5. DoneBlocks' = DoneBlocks
  BY <1>u DEF DoneBlocks, Covered
<1> QED BY <1>2, <1>4, <1>5, <1>u DEF CursorInv, BoundsInv, WaiterInv, DeliveredInv

(* A fresh process satisfies everything but what the cursor claims. *)
LEMMA FreshProcess ==
    ASSUME NEW g \in Nat, NEW h \in Nat, NEW E, NEW D, NEW k
    PROVE  /\ ScanOK(IdleThread, E, D, k, g) /\ ThreadBounds(IdleThread, h, g)
           /\ \A sc : WaitersOK(<<>>, <<>>, IdleWorker, sc)
           /\ DeliveredOK({}, IdleWorker, E)
<1>1. /\ IdleThread.pc = "idle" /\ IdleThread.resume = NoCursor /\ IdleThread.head = NoHead
      /\ IdleThread.target = 0 /\ IdleThread.gen = 0
  BY DEF IdleThread
<1>2. ScanOK(IdleThread, E, D, k, g)
  BY <1>1, ScanIdle, NoCursorSound DEF Scanning
<1>3. ThreadBounds(IdleThread, h, g)
  BY <1>1 DEF ThreadBounds, InRangeLoop, NoHead
<1>4. \A sc : WaitersOK(<<>>, <<>>, IdleWorker, sc)
  BY DEF WaitersOK, IdleWorker
<1>5. DeliveredOK({}, IdleWorker, E)
  BY DEF DeliveredOK, IdleWorker
<1> QED BY <1>2, <1>3, <1>4, <1>5

(* The initial state. *)
LEMMA CursorInit == Init => CursorInv
<1> SUFFICES ASSUME Init PROVE CursorInv
  OBVIOUS
<1>0. TypeInv
  BY TypeInit
<1>1. /\ chain = [head |-> StartBlock, fork |-> [b \in Blocks |-> 0], forks |-> 0]
      /\ link = NoLink /\ ls = InitialLiveState /\ cursor = NoCursor
      /\ hist = <<>> /\ liveq = <<>> /\ delivered = {} /\ worker = IdleWorker
      /\ scan = [t \in Threads |-> IdleThread]
  BY DEF Init
<1>2. EnvBounds
  BY <1>1, ConstantTypes DEF EnvBounds, NoLink, InitialLiveState, NoHead
<1>3. /\ chain.head \in Nat /\ ls.generation \in Nat
  BY <1>0, InvTypes
<1>4. ScanInv /\ BoundsInv
  BY <1>1, <1>2, <1>3, FreshProcess DEF ScanInv, BoundsInv
<1>5. WaiterInv /\ DeliveredInv
  BY <1>1, <1>3, FreshProcess DEF WaiterInv, DeliveredInv
<1>6. CursorOK(cursor, ever, DoneBlocks)
  <2>1. ASSUME NEW b \in StartBlock..MaxBlock PROVE ~Passed(NoCursor, b)
    BY <2>1, ConstantTypes DEF Passed, NoCursor
  <2> QED BY <1>1, <2>1, NoCursorSound DEF CursorOK
<1> QED BY <1>0, <1>4, <1>5, <1>6 DEF CursorInv

(* A crash forgets everything but the cursor and what callbacks did. *)
LEMMA CrashOK ==
    ASSUME CursorInv, TypeInv', Crash PROVE CursorInv'
<1>0. TypeInv /\ EnvBounds /\ CursorOK(cursor, ever, DoneBlocks)
  BY DEF CursorInv, BoundsInv
<1>1. /\ UNCHANGED <<chain, cursor, ever, skipped>>
      /\ link' = NoLink /\ ls' = InitialLiveState
      /\ hist' = <<>> /\ liveq' = <<>> /\ delivered' = {} /\ worker' = IdleWorker
      /\ scan' = [t \in Threads |-> IdleThread]
  BY DEF Crash
<1>2. chain.head \in Nat /\ chain'.head \in Nat /\ ls'.generation \in Nat
  BY <1>0, NumberTypes
<1>3. EnvBounds'
  BY <1>0, <1>1, <1>2 DEF EnvBounds, NoLink, InitialLiveState, NoHead
<1>4. ScanInv' /\ BoundsInv'
  BY <1>1, <1>2, <1>3, FreshProcess DEF ScanInv, BoundsInv
<1>5. WaiterInv' /\ DeliveredInv'
  BY <1>1, <1>2, FreshProcess DEF WaiterInv, DeliveredInv
<1>6. DoneBlocks' = DoneBlocks
  BY <1>1 DEF DoneBlocks, Covered
<1> QED BY <1>0, <1>1, <1>4, <1>5, <1>6 DEF CursorInv

(* Every step preserves the invariant. *)
LEMMA CursorStep ==
    ASSUME CursorInv, [Next]_vars PROVE CursorInv'
<1>0. TypeInv'
  BY TypeStep DEF CursorInv
<1>1. CASE Environment
  BY <1>0, <1>1, EnvironmentStep
<1>2. CASE WorkerStep \/ CallbackThrows
  BY <1>0, <1>2, WorkerStepOK
<1>3. ASSUME NEW t \in Threads, ScanStep(t) \/ CallThrows(t) PROVE CursorInv'
  BY <1>0, <1>3, ScanStepOK
<1>4. CASE ReconcileStep
  BY <1>0, <1>4, ReconcileStepOK
<1>5. CASE StartStep \/ catch_up \/ start_live
  BY <1>0, <1>5, StartStepOK
<1>6. CASE StopSignal \/ StopTransport \/ StopReturn
  BY <1>0, <1>6, StopStepOK
<1>7. CASE Crash
  BY <1>0, <1>7, CrashOK
<1>8. CASE UNCHANGED vars
  BY <1>0, <1>8 DEF vars, CursorInv, BoundsInv, EnvBounds, ScanInv, WaiterInv, DeliveredInv,
     DoneBlocks, Covered
<1> QED BY <1>1, <1>2, <1>3, <1>4, <1>5, <1>6, <1>7, <1>8 DEF Next

(* The invariant says what CursorCovers says. *)
LEMMA CursorInvCovers == CursorInv => CursorCovers
<1> SUFFICES ASSUME CursorInv PROVE CursorCovers
  OBVIOUS
<1>1. CursorOK(cursor, ever, DoneBlocks) /\ ever \subseteq LogRecords
  BY DEF CursorInv, TypeInv, TypeOK
<1>2. ASSUME NEW b \in StartBlock..MaxBlock, Passed(cursor, b)
      PROVE  Covered(b) \/ b \in skipped
  BY <1>1, <1>2 DEF CursorOK, DoneBlocks
<1>3. ASSUME cursor.last # NoLog, NEW i \in 1..cursor.last.index
      PROVE  LogAt(cursor.last.block, cursor.last.fork, i) \in ever
  <2> DEFINE l == cursor.last
  <2>1. l \in ever /\ PrefixIn(l, ever)
    BY <1>1, <1>3 DEF CursorOK, SoundCursor
  <2>2. l \in LogRecords
    BY <1>1, <2>1
  <2>3. l = LogAt(l.block, l.fork, l.index) /\ l.index \in Indexes
    BY <2>2 DEF LogRecords, LogAt
  <2>4. CASE i = l.index
    BY <2>1, <2>3, <2>4
  <2>5. CASE i # l.index
    <3>1. i \in Indexes /\ i < l.index
      BY <1>3, <2>3, <2>5, ConfigAssumption DEF Indexes
    <3> QED BY <2>1, <3>1 DEF PrefixIn
  <2> QED BY <2>4, <2>5
<1> QED BY <1>2, <1>3 DEF CursorCovers

(* The cursor file never claims a block whose logs no callback accepted, except
   below the window of a gap recovery: for every chain length, batch size,
   confirmation depth, lookback and queue limit, and in every interleaving of
   catch_up, start_live, the reconciliation and delivery workers, stop,
   reorganisations, crashes, and failures of the node, the store and the
   callback. *)
THEOREM CursorNeverOverclaims == Spec => []CursorCovers
<1>1. Init => CursorInv
  BY CursorInit
<1>2. CursorInv /\ [Next]_vars => CursorInv'
  BY CursorStep
<1>3. CursorInv => CursorCovers
  BY CursorInvCovers
<1> QED BY <1>1, <1>2, <1>3, PTL DEF Spec

=============================================================================
