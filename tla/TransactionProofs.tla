-------------------------- MODULE TransactionProofs --------------------------
(***************************************************************************)
(* Safety of PositionTransactions inside RestComponents, for every value   *)
(* of the constants: any number of threads, operations, retries and        *)
(* faults.  The inductive invariant ties each operation to the             *)
(* transactions it has sent: which of its calls they carry, which of them  *)
(* have to be mined by now, and what it may report of them.                *)
(***************************************************************************)
EXTENDS RestComponents, FiniteSetTheorems, TLAPS

(* The types. *)
TxBudgetType ==
    [wallet : {"eoa", "safe"}, tasks : SUBSET STRING, calls : Nat, faults : Nat,
     closed : SUBSET STRING, listed : 0..2]
TxMarkets == {"a", "b"}
TxSpenders == {"adapter", "router"}
TxTasks == {"none", "split", "merge", "merges", "redeem", "setup", "approve", "revoke",
            "transfer"}
TxSteps == {"idle", "resolve", "nonce", "send", "landing", "submit", "handle", "receipt",
            "relayer"}
TxStates == {"pending", "ok", "reverted", "failed"}
TxResults == {"none", "approved", "sent", "ok", "invalid", "error", "partial", "timeout",
              "reverted", "failed"}
TxKinds == {"split", "merge", "redeem", "outcome", "approve", "revoke", "transfer"}
TxCalls == [kind : TxKinds, m : TxMarkets \cup TxSpenders, n : Int, o : 0..2]
TxRequests == [m : TxMarkets, form : 0..2, n : Int]
TxItems == TxRequests \cup TxSpenders
TxIds == (TxMarkets \X (0..2)) \cup TxSpenders
TxOps ==
    [task : TxTasks, step : TxSteps, todo : Seq(TxItems), calls : Seq(TxCalls),
     seen : SUBSET TxIds, sent : Seq(Nat), nonce : Nat, tries : Nat, id : Nat,
     late : BOOLEAN, result : TxResults, names : Nat, run : Nat]
TxRecords ==
    [by : Threads, run : Nat, at : Nat \ {0}, calls : Seq(TxCalls), nonce : Nat, hash : Nat,
     state : TxStates]
TxChains == [held : [TxMarkets -> [1..2 -> Int]], approved : SUBSET (TxMarkets \cup TxSpenders)]

TxTypeOK ==
    /\ t_chain \in TxChains
    /\ t_txs \in Seq(TxRecords)
    /\ t_lock \in Threads \cup {"free"}
    /\ t_op \in [Threads -> TxOps]
    /\ budget \in TxBudgetType

(* What an operation still has to look up is of its kind, and needs two calls at most;
   past the look-up it has its calls. *)
TodoOK(o) ==
    /\ \A i \in DOMAIN o.todo :
          o.todo[i] \in IF o.task = "setup" THEN TxSpenders ELSE TxRequests
    /\ o.task \notin {"split", "merge", "merges", "redeem", "setup"} => o.todo = <<>>
    /\ IF o.task = "redeem" THEN Len(o.calls) + 2 * Len(o.todo) <= 2
       ELSE Len(o.calls) + Len(o.todo) <= 2
    /\ o.step \notin {"idle", "resolve"} => o.todo = <<>> /\ o.calls # <<>>

(* The transactions of an operation carry its calls: one each from an EOA, all at once
   from a Safe. *)
OfRun(t, o, i) == t_txs[i].by = t /\ t_txs[i].run = o.run
ContentsOK(t, o) ==
    \A i \in DOMAIN t_txs : OfRun(t, o, i) =>
        IF Txs!Eoa THEN /\ t_txs[i].at \in DOMAIN o.calls
                        /\ t_txs[i].calls = <<o.calls[t_txs[i].at]>>
        ELSE t_txs[i].calls = o.calls

(* An EOA sends a call when the ones before it were mined with success. *)
Landed(t, o, j) ==
    \E k \in DOMAIN t_txs : OfRun(t, o, k) /\ t_txs[k].at = j /\ t_txs[k].state = "ok"
EoaPhase(t, o) ==
    /\ o.step \notin {"submit", "relayer"}
    /\ o.step # "idle" =>
          \A i \in DOMAIN t_txs : OfRun(t, o, i) => t_txs[i].at <= Len(o.sent)
    /\ \A i \in DOMAIN t_txs : OfRun(t, o, i) => t_txs[i].at <= Len(o.sent) + 1
    /\ o.step = "resolve" => o.sent = <<>>
    /\ o.step \in {"nonce", "send"} =>
          Len(o.sent) < Len(o.calls) /\ \A j \in 1..Len(o.sent) : Landed(t, o, j)
    /\ o.step \in {"landing", "handle", "receipt"} =>
          /\ \A j \in 1..(Len(o.sent) - 1) : Landed(t, o, j)
          /\ o.id \in DOMAIN t_txs /\ OfRun(t, o, o.id) /\ t_txs[o.id].at = Len(o.sent)
    /\ o.step = "landing" => Len(o.sent) < Len(o.calls)
    /\ o.step \in {"handle", "receipt"} => Len(o.sent) = Len(o.calls)

(* A Safe's operation has one transaction, none before its submission was taken. *)
SafePhase(t, o) ==
    /\ o.step \notin {"send", "landing"}
    /\ o.step \in {"resolve", "nonce", "submit"} =>
          o.sent = <<>> /\ \A i \in DOMAIN t_txs : ~OfRun(t, o, i)
    /\ o.step \in {"handle", "relayer"} => o.id \in DOMAIN t_txs /\ OfRun(t, o, o.id)
    /\ o.step = "receipt" =>
          \E i \in DOMAIN t_txs : OfRun(t, o, i) /\ t_txs[i].state = "ok"

(* A merge's condition, under the id Gamma lists it by, is among those seen. *)
Listing(m) == IF m = "a" THEN 1 ELSE budget.listed
MergesOK(o) ==
    /\ \A i \in DOMAIN o.calls : o.calls[i].kind = "merge" =>
          /\ o.task \in {"merge", "merges"}
          /\ <<o.calls[i].m, Listing(o.calls[i].m)>> \in o.seen
    /\ o.task \in {"merge", "merges"} => \A i \in DOMAIN o.calls : o.calls[i].kind = "merge"
    /\ \A i, j \in DOMAIN o.calls : i # j /\ o.calls[i].kind = "merge"
          => o.calls[i].m # o.calls[j].m

(* An approval found or mined stands unless a withdrawal was sent. *)
Revoked ==
    \E i \in DOMAIN t_txs : \E k \in DOMAIN t_txs[i].calls : t_txs[i].calls[k].kind = "revoke"
Granted(s) == s \in t_chain.approved \/ Revoked
SetupOK(o) ==
    o.task = "setup" => \A s \in TxSpenders :
        \/ \E i \in DOMAIN o.todo : o.todo[i] = s
        \/ Granted(s)
        \/ \E i \in DOMAIN o.calls : o.calls[i].kind = "approve" /\ o.calls[i].m = s

(* What an operation that is over has reported. *)
ReportOK(t, o) ==
    o.step = "idle" =>
      /\ o.result = "ok" =>
           /\ o.todo = <<>>
           /\ \E i \in DOMAIN t_txs : t_txs[i].hash = o.names /\ t_txs[i].state = "ok"
           /\ IF Txs!Eoa THEN \A j \in DOMAIN o.calls : Landed(t, o, j)
              ELSE \E i \in DOMAIN t_txs : OfRun(t, o, i) /\ t_txs[i].state = "ok"
      /\ o.result = "reverted" =>
           \E i \in DOMAIN t_txs : t_txs[i].hash = o.names /\ t_txs[i].state = "reverted"
      /\ o.result = "invalid" => \A i \in DOMAIN t_txs : ~OfRun(t, o, i)

ThreadOK(t, o) ==
    /\ TodoOK(o) /\ ContentsOK(t, o)
    /\ (Txs!Eoa => EoaPhase(t, o)) /\ (~Txs!Eoa => SafePhase(t, o))
    /\ MergesOK(o) /\ SetupOK(o) /\ ReportOK(t, o)

(* send_mutex is held from the nonce to the last call. *)
TxLocked ==
    \A t \in Threads : (t_op[t].step \in {"nonce", "send", "landing", "submit"}) <=> (t_lock = t)
NonceFresh ==
    Txs!Eoa => \A t \in Threads : t_op[t].step = "send" => t_op[t].nonce = Len(t_txs)

(* The transactions themselves. *)
RunsBegun == \A i \in DOMAIN t_txs : t_txs[i].run <= t_op[t_txs[i].by].run
OneEach ==
    \A i, j \in DOMAIN t_txs :
        t_txs[i].by = t_txs[j].by /\ t_txs[i].run = t_txs[j].run /\ t_txs[i].at = t_txs[j].at
            => i = j
FewCalls == \A i \in DOMAIN t_txs : Len(t_txs[i].calls) \in 1..2
EoaTxs ==
    /\ \A i \in DOMAIN t_txs : t_txs[i].nonce = i - 1 /\ t_txs[i].hash = i
    /\ Txs!BatchInOrder
SafeTxs ==
    /\ \A i \in DOMAIN t_txs : t_txs[i].at = 1
    /\ \A i, j \in DOMAIN t_txs :
          t_txs[i].state = "pending" /\ t_txs[j].state = "pending" => i = j
    /\ \A i \in DOMAIN t_txs : t_txs[i].state = "pending" => t_txs[i].nonce = Txs!Executed
    /\ \A i \in DOMAIN t_txs : t_txs[i].state = "ok" => t_txs[i].nonce < Txs!Executed
    /\ \A i, j \in DOMAIN t_txs :
          t_txs[i].state = "ok" /\ t_txs[j].state = "ok" /\ i # j
              => t_txs[i].nonce # t_txs[j].nonce
    /\ \A i \in DOMAIN t_txs : t_txs[i].state = "ok" => t_txs[i].hash # 0
GrantsKept ==
    \A i \in DOMAIN t_txs : t_txs[i].state = "ok" =>
        \A k \in DOMAIN t_txs[i].calls :
            t_txs[i].calls[k].kind = "approve" => Granted(t_txs[i].calls[k].m)

TxsOK ==
    /\ RunsBegun /\ OneEach /\ FewCalls /\ GrantsKept
    /\ (Txs!Eoa => EoaTxs) /\ (~Txs!Eoa => SafeTxs)
TxInv ==
    /\ TxTypeOK /\ TxLocked /\ NonceFresh /\ TxsOK
    /\ \A t \in Threads : ThreadOK(t, t_op[t])

-----------------------------------------------------------------------------
(* What a call does to the outcome of the ones before it. *)
After(s, call) ==
    IF s.failed \/ Txs!Reverts(call, s.c) THEN [s EXCEPT !.failed = TRUE]
    ELSE [s EXCEPT !.c = Txs!Does(call, @)]
Before(c) == [failed |-> FALSE, c |-> c]

(* FoldLeft walks its sequence by the greatest index left. *)
LEMMA MaxOfFew ==
  /\ Txs!Max({1}) = 1 /\ Txs!Max({2}) = 2 /\ Txs!Max({1, 2}) = 2
<1>1. Txs!Max({1}) = 1
  BY DEF Txs!Max
<1>2. Txs!Max({2}) = 2
  BY DEF Txs!Max
<1>3. Txs!Max({1, 2}) = 2
  <2>1. \A x : (x \in {1, 2} /\ \A y \in {1, 2} : x >= y) <=> x = 2
    OBVIOUS
  <2>. QED  BY <2>1 DEF Txs!Max
<1>. QED  BY <1>1, <1>2, <1>3

(* Execute, unfolded for one call and for two: no operation has more. *)
LEMMA ExecuteOne ==
  ASSUME NEW x, NEW c
  PROVE  Txs!Execute(<<x>>, c) = After(Before(c), x)
<1> DEFINE F(g) == [s \in SUBSET {1} |->
                      IF s = {} THEN Before(c) ELSE After(g[s \ {Txs!Max(s)}], <<x>>[Txs!Max(s)])]
           f == CHOOSE g : g = F(g)
           w == [s \in SUBSET {1} |-> IF s = {} THEN Before(c) ELSE After(Before(c), x)]
<1>1. Txs!Execute(<<x>>, c) = f[{1}]
  BY DEF Txs!Execute, Txs!FoldLeft, Txs!MapThenFoldSet, Before, After
<1>2. w = F(w)
  <2>1. \A s \in SUBSET {1} : s = {} \/ s = {1}
    OBVIOUS
  <2>2. {1} \ {1} = {} /\ <<x>>[1] = x
    OBVIOUS
  <2>3. w[{}] = Before(c)
    OBVIOUS
  <2>. HIDE DEF w
  <2>4. \A s \in SUBSET {1} : F(w)[s] = IF s = {} THEN Before(c) ELSE After(Before(c), x)
    BY <2>1, <2>2, <2>3, MaxOfFew
  <2>. QED  BY <2>4 DEF w
<1>3. f = F(f)
  <2>. HIDE DEF F, w
  <2>. QED  BY <1>2
<1>4. f[{}] = Before(c)
  <2>. HIDE DEF f
  <2>. QED  BY <1>3
<1>5. f[{1}] = After(f[{1} \ {1}], <<x>>[1])
  <2>. HIDE DEF f
  <2>. QED  BY <1>3, MaxOfFew
<1>. QED  BY <1>1, <1>4, <1>5

LEMMA ExecuteTwo ==
  ASSUME NEW x, NEW y, NEW c
  PROVE  Txs!Execute(<<x, y>>, c) = After(After(Before(c), x), y)
<1> DEFINE F(g) == [s \in SUBSET {1, 2} |->
                      IF s = {} THEN Before(c)
                      ELSE After(g[s \ {Txs!Max(s)}], <<x, y>>[Txs!Max(s)])]
           f == CHOOSE g : g = F(g)
           w == [s \in SUBSET {1, 2} |->
                   IF s = {} THEN Before(c)
                   ELSE IF s = {1} THEN After(Before(c), x)
                   ELSE IF s = {2} THEN After(Before(c), y)
                   ELSE After(After(Before(c), x), y)]
<1>1. Txs!Execute(<<x, y>>, c) = f[{1, 2}]
  <2>1. DOMAIN <<x, y>> = {1, 2}
    OBVIOUS
  <2>. QED  BY <2>1, Zenon DEF Txs!Execute, Txs!FoldLeft, Txs!MapThenFoldSet, Before, After
<1>2. w = F(w)
  <2>1. \A s \in SUBSET {1, 2} : s = {} \/ s = {1} \/ s = {2} \/ s = {1, 2}
    OBVIOUS
  <2>2. /\ {1} \ {1} = {} /\ {2} \ {2} = {} /\ {1, 2} \ {2} = {1}
        /\ <<x, y>>[1] = x /\ <<x, y>>[2] = y
        /\ {1, 2} # {} /\ {1, 2} # {1} /\ {1, 2} # {2} /\ {2} # {1} /\ {1} # {} /\ {2} # {}
    OBVIOUS
  <2>3. w[{}] = Before(c) /\ w[{1}] = After(Before(c), x)
    OBVIOUS
  <2>. HIDE DEF w
  <2>4. /\ F(w)[{}] = Before(c) /\ F(w)[{1}] = After(Before(c), x)
        /\ F(w)[{2}] = After(Before(c), y) /\ F(w)[{1, 2}] = After(After(Before(c), x), y)
    BY <2>2, <2>3, MaxOfFew
  <2>5. \A s \in SUBSET {1, 2} : F(w)[s] = w[s]
    <3>1. /\ w[{}] = Before(c) /\ w[{1}] = After(Before(c), x)
          /\ w[{2}] = After(Before(c), y) /\ w[{1, 2}] = After(After(Before(c), x), y)
      BY <2>2 DEF w
    <3>. TAKE s \in SUBSET {1, 2}
    <3>. HIDE DEF F
    <3>2. CASE s = {}
      BY <2>4, <3>1, <3>2, Zenon
    <3>3. CASE s = {1}
      BY <2>4, <3>1, <3>3, Zenon
    <3>4. CASE s = {2}
      BY <2>4, <3>1, <3>4, Zenon
    <3>5. CASE s = {1, 2}
      BY <2>4, <3>1, <3>5, Zenon
    <3>. QED  BY <2>1, <3>2, <3>3, <3>4, <3>5, Zenon
  <2>6. w = [s \in SUBSET {1, 2} |-> w[s]]
    BY Zenon DEF w
  <2>7. F(w) = [s \in SUBSET {1, 2} |-> F(w)[s]]
    BY Zenon
  <2>. HIDE DEF F
  <2>. QED  BY <2>5, <2>6, <2>7
<1>3. f = F(f)
  <2>. HIDE DEF F, w
  <2>. QED  BY <1>2
<1>4. f[{}] = Before(c)
  <2>. HIDE DEF f
  <2>. QED  BY <1>3
<1>5. f[{1}] = After(f[{1} \ {1}], <<x, y>>[1])
  <2>. HIDE DEF f
  <2>. QED  BY <1>3, MaxOfFew
<1>6. f[{1, 2}] = After(f[{1, 2} \ {2}], <<x, y>>[2])
  <2>. HIDE DEF f
  <2>. QED  BY <1>3, MaxOfFew
<1>. QED
  <2>. HIDE DEF f
  <2>1. {1} \ {1} = {} /\ {1, 2} \ {2} = {1} /\ <<x, y>>[1] = x /\ <<x, y>>[2] = y
    OBVIOUS
  <2>. QED  BY <1>1, <1>4, <1>5, <1>6, <2>1

(* What one call does to the chain. *)
LEMMA DoesEffect ==
  ASSUME NEW c \in TxChains, NEW x \in TxCalls
  PROVE  /\ Txs!Does(x, c) \in TxChains
         /\ x.kind # "revoke" => c.approved \subseteq Txs!Does(x, c).approved
         /\ x.kind = "approve" => x.m \in Txs!Does(x, c).approved
<1> DEFINE D == Txs!Does(x, c)
<1>0. /\ x.kind \in TxKinds /\ x.m \in TxMarkets \cup TxSpenders /\ x.n \in Int /\ x.o \in 0..2
      /\ c.held \in [TxMarkets -> [1..2 -> Int]]
           /\ c.approved \in SUBSET (TxMarkets \cup TxSpenders)
  BY DEF TxCalls, TxChains
<1>1. CASE x.kind = "split"
  <2>1. D = [c EXCEPT !.held[x.m] = <<@[1] + x.n, @[2] + x.n>>]
    BY <1>1 DEF Txs!Does
  <2>2. CASE x.m \in TxMarkets
    <3>1. <<c.held[x.m][1] + x.n, c.held[x.m][2] + x.n>> \in [1..2 -> Int]
      BY <1>0, <2>2
    <3>. QED  BY <1>1, <2>1, <2>2, <3>1 DEF TxChains
  <2>3. CASE x.m \notin TxMarkets
    BY <1>1, <2>1, <2>3 DEF TxChains
  <2>. QED  BY <2>2, <2>3
<1>2. CASE x.kind = "merge"
  <2>1. D = [c EXCEPT !.held[x.m] = <<@[1] - x.n, @[2] - x.n>>]
    BY <1>2 DEF Txs!Does
  <2>2. CASE x.m \in TxMarkets
    <3>1. <<c.held[x.m][1] - x.n, c.held[x.m][2] - x.n>> \in [1..2 -> Int]
      BY <1>0, <2>2
    <3>. QED  BY <1>2, <2>1, <2>2, <3>1 DEF TxChains
  <2>3. CASE x.m \notin TxMarkets
    BY <1>2, <2>1, <2>3 DEF TxChains
  <2>. QED  BY <2>2, <2>3
<1>3. CASE x.kind = "redeem"
  <2>1. D = [c EXCEPT !.held[x.m] = <<0, 0>>]
    BY <1>3 DEF Txs!Does
  <2>2. <<0, 0>> \in [1..2 -> Int]
    OBVIOUS
  <2>. QED  BY <1>3, <2>1, <2>2 DEF TxChains
<1>4. CASE x.kind = "outcome"
  <2>1. D = [c EXCEPT !.held[x.m][x.o] = @ - x.n]
    BY <1>4 DEF Txs!Does
  <2>2. [c.held EXCEPT ![x.m][x.o] = @ - x.n] \in [TxMarkets -> [1..2 -> Int]]
    <3>1. CASE x.m \in TxMarkets
      <4> DEFINE h == c.held[x.m]
      <4>1. h \in [1..2 -> Int]
        BY <1>0, <3>1
      <4>2. [h EXCEPT ![x.o] = @ - x.n] \in [1..2 -> Int]
        <5>. HIDE DEF h
        <5>1. x.o \in 1..2 => h[x.o] - x.n \in Int
          BY <1>0, <4>1
        <5>. QED  BY <4>1, <5>1
      <4>. QED  BY <1>0, <3>1, <4>2
    <3>2. CASE x.m \notin TxMarkets
      BY <1>0, <3>2
    <3>. QED  BY <3>1, <3>2
  <2>3. D = [c EXCEPT !.held = [c.held EXCEPT ![x.m][x.o] = @ - x.n]]
    BY <2>1
  <2>. QED  BY <1>0, <1>4, <2>2, <2>3 DEF TxChains
<1>5. CASE x.kind = "approve"
  <2>1. D = [c EXCEPT !.approved = @ \cup {x.m}]
    BY <1>5 DEF Txs!Does
  <2>. QED  BY <1>0, <1>5, <2>1 DEF TxChains
<1>6. CASE x.kind = "revoke"
  <2>1. D = [c EXCEPT !.approved = @ \ {x.m}]
    BY <1>6 DEF Txs!Does
  <2>. QED  BY <1>0, <1>6, <2>1 DEF TxChains
<1>7. CASE x.kind = "transfer"
  <2>1. D = c
    BY <1>7 DEF Txs!Does
  <2>. QED  BY <1>7, <2>1
<1>. QED  BY <1>0, <1>1, <1>2, <1>3, <1>4, <1>5, <1>6, <1>7 DEF TxKinds

(* What a transaction that succeeds leaves: its approvals, and the earlier ones unless it
   withdraws one. *)
LEMMA ExecuteEffect ==
  ASSUME NEW c \in TxChains, NEW q \in Seq(TxCalls), Len(q) \in 1..2,
         ~Txs!Execute(q, c).failed
  PROVE  LET d == Txs!Execute(q, c).c IN
         /\ d \in TxChains
         /\ (\A k \in DOMAIN q : q[k].kind # "revoke") =>
               /\ c.approved \subseteq d.approved
               /\ \A k \in DOMAIN q : q[k].kind = "approve" => q[k].m \in d.approved
<1>1. CASE Len(q) = 1
  <2>1. q = <<q[1]>> /\ q[1] \in TxCalls /\ DOMAIN q = {1}
    BY <1>1
  <2>2. Txs!Execute(q, c) = After(Before(c), q[1])
    BY <2>1, ExecuteOne
  <2>3. Txs!Execute(q, c).c = Txs!Does(q[1], c)
    BY <2>2 DEF After, Before
  <2>. QED  BY <2>1, <2>3, DoesEffect
<1>2. CASE Len(q) = 2
  <2>1. q = <<q[1], q[2]>> /\ q[1] \in TxCalls /\ q[2] \in TxCalls /\ DOMAIN q = {1, 2}
    BY <1>2
  <2> DEFINE s == After(Before(c), q[1])
  <2>2. Txs!Execute(q, c) = After(s, q[2])
    BY <2>1, ExecuteTwo
  <2>3. ~s.failed /\ s.c = Txs!Does(q[1], c) /\ s = [failed |-> FALSE, c |-> s.c]
    BY <2>2 DEF After, Before
  <2>4. Txs!Execute(q, c).c = Txs!Does(q[2], s.c)
    BY <2>2, <2>3 DEF After, Before
  <2>5. /\ s.c \in TxChains
        /\ q[1].kind # "revoke" => c.approved \subseteq s.c.approved
        /\ q[1].kind = "approve" => q[1].m \in s.c.approved
    BY <2>1, <2>3, DoesEffect
  <2>6. /\ Txs!Does(q[2], s.c) \in TxChains
        /\ q[2].kind # "revoke" => s.c.approved \subseteq Txs!Does(q[2], s.c).approved
        /\ q[2].kind = "approve" => q[2].m \in Txs!Does(q[2], s.c).approved
    BY <2>1, <2>5, DoesEffect
  <2>. HIDE DEF s
  <2>. QED  BY <2>1, <2>4, <2>5, <2>6
<1>. QED  BY <1>1, <1>2

(* Events only use up the budget: the wallet and the listing stay. *)
SameWorld ==
    budget' \in TxBudgetType /\ budget'.wallet = budget.wallet /\ budget'.listed = budget.listed

LEMMA TxSpend ==
  ASSUME TxTypeOK
  PROVE  /\ Txs!Spend("calls") => SameWorld
         /\ Txs!Spend("faults") => SameWorld
         /\ budget' = budget => SameWorld
BY DEF TxTypeOK, TxBudgetType, Txs!Spend, SameWorld

(* The fields of a transaction and of an operation. *)
LEMMA TxFields ==
  ASSUME TxTypeOK, NEW i \in DOMAIN t_txs
  PROVE  /\ t_txs[i] \in TxRecords /\ i \in 1..Len(t_txs) /\ i \in Nat
         /\ t_txs[i].by \in Threads /\ t_txs[i].run \in Nat /\ t_txs[i].at \in Nat \ {0}
         /\ t_txs[i].calls \in Seq(TxCalls) /\ t_txs[i].nonce \in Nat /\ t_txs[i].hash \in Nat
         /\ t_txs[i].state \in TxStates
<1>1. t_txs[i] \in TxRecords /\ i \in 1..Len(t_txs) /\ i \in Nat
  BY DEF TxTypeOK
<1>. QED  BY <1>1 DEF TxRecords

LEMMA OpFields ==
  ASSUME NEW o \in TxOps
  PROVE  /\ o.task \in TxTasks /\ o.step \in TxSteps /\ o.todo \in Seq(TxItems)
         /\ o.calls \in Seq(TxCalls) /\ o.seen \in SUBSET TxIds /\ o.sent \in Seq(Nat)
         /\ o.nonce \in Nat /\ o.tries \in Nat /\ o.id \in Nat /\ o.late \in BOOLEAN
         /\ o.result \in TxResults /\ o.names \in Nat /\ o.run \in Nat
         /\ Len(o.calls) \in Nat /\ Len(o.todo) \in Nat /\ Len(o.sent) \in Nat
BY DEF TxOps

Locking == {"nonce", "send", "landing", "submit"}

(* A step of one thread that sends and mines nothing: it is enough that the thread's new
   operation is in order and the mutex is its own. *)
LEMMA QuietStep ==
  ASSUME TxInv, SameWorld, UNCHANGED <<t_chain, t_txs>>,
         NEW t \in Threads, NEW o \in TxOps, t_op' = [t_op EXCEPT ![t] = o],
         ThreadOK(t, o), t_op[t].run <= o.run,
         t_lock' \in Threads \cup {"free"},
         (o.step \in Locking) <=> (t_lock' = t),
         \A u \in Threads \ {t} : (t_lock' = u) <=> (t_lock = u),
         Txs!Eoa /\ o.step = "send" => o.nonce = Len(t_txs)
  PROVE  TxInv'
<1>1. TxTypeOK'
  BY DEF TxInv, TxTypeOK, SameWorld
<1>2. /\ t_op'[t] = o /\ \A u \in Threads \ {t} : t_op'[u] = t_op[u]
      /\ t_txs' = t_txs /\ t_chain' = t_chain
      /\ (Txs!Eoa)' <=> Txs!Eoa
  BY DEF TxInv, TxTypeOK, SameWorld, Txs!Eoa
<1>3. TxLocked'
  BY <1>2 DEF TxInv, TxLocked, Locking
<1>4. NonceFresh'
  BY <1>2 DEF TxInv, NonceFresh
<1>5. TxsOK'
  <2>1. RunsBegun'
    <3>. SUFFICES ASSUME NEW i \in DOMAIN t_txs
                  PROVE  t_txs[i].run <= t_op'[t_txs[i].by].run
      BY <1>2 DEF RunsBegun
    <3>1. t_txs[i].by \in Threads /\ t_txs[i].run \in Nat /\ t_op[t].run \in Nat /\ o.run \in Nat
      <4>1. t_op[t] \in TxOps
        BY DEF TxInv, TxTypeOK
      <4>. QED  BY <4>1, TxFields, OpFields DEF TxInv
    <3>2. t_txs[i].run <= t_op[t_txs[i].by].run
      BY DEF TxInv, TxsOK, RunsBegun
    <3>. QED  BY <1>2, <3>1, <3>2
  <2>2. OneEach' /\ FewCalls'
    BY <1>2 DEF TxInv, TxsOK, OneEach, FewCalls
  <2>3. GrantsKept'
    BY <1>2 DEF TxInv, TxsOK, GrantsKept, Granted, Revoked
  <2>4. Txs!Eoa => EoaTxs'
    BY <1>2 DEF TxInv, TxsOK, EoaTxs, Txs!BatchInOrder
  <2>5. ~Txs!Eoa => SafeTxs'
    BY <1>2 DEF TxInv, TxsOK, SafeTxs, Txs!Executed
  <2>. QED  BY <1>2, <2>1, <2>2, <2>3, <2>4, <2>5 DEF TxsOK
<1>6. ASSUME NEW u \in Threads PROVE ThreadOK(u, t_op[u])'
  <2>1. PICK x : x = t_op'[u] /\ ThreadOK(u, x)
    BY <1>2 DEF TxInv
  <2>2. \A i : OfRun(u, t_op[u], i)' <=> OfRun(u, x, i)
    BY <1>2, <2>1 DEF OfRun
  <2>3. \A j : Landed(u, t_op[u], j)' <=> Landed(u, x, j)
    BY <1>2, <2>2 DEF Landed
  <2>4. TodoOK(t_op[u])' /\ ContentsOK(u, t_op[u])'
    BY <1>2, <2>1, <2>2 DEF ThreadOK, TodoOK, ContentsOK
  <2>5. Txs!Eoa => EoaPhase(u, t_op[u])'
    <3>. HIDE DEF OfRun
    <3>1. OfRun(u, t_op[u], t_op[u].id)' <=> OfRun(u, x, x.id)
      BY <1>2, <2>1 DEF OfRun
    <3>. QED  BY <1>2, <2>1, <2>2, <2>3, <3>1 DEF ThreadOK, EoaPhase
  <2>6. ~Txs!Eoa => SafePhase(u, t_op[u])'
    <3>1. OfRun(u, t_op[u], t_op[u].id)' <=> OfRun(u, x, x.id)
      BY <1>2, <2>1 DEF OfRun
    <3>. QED  BY <1>2, <2>1, <2>2, <3>1 DEF ThreadOK, SafePhase
  <2>7. MergesOK(t_op[u])'
    BY <2>1 DEF ThreadOK, MergesOK, Listing, SameWorld
  <2>8. SetupOK(t_op[u])'
    BY <1>2, <2>1 DEF ThreadOK, SetupOK, Granted, Revoked
  <2>9. ReportOK(u, t_op[u])'
    BY <1>2, <2>1, <2>2, <2>3 DEF ThreadOK, ReportOK
  <2>. QED  BY <1>2, <2>4, <2>5, <2>6, <2>7, <2>8, <2>9 DEF ThreadOK
<1>. QED  BY <1>1, <1>3, <1>4, <1>5, <1>6 DEF TxInv

(* Most steps leave an operation's calls and what it has sent. *)
SameCalls(o, p) ==
    /\ o.calls = p.calls /\ o.run = p.run /\ o.task = p.task /\ o.todo = p.todo
    /\ o.seen = p.seen /\ o.sent = p.sent
LEMMA KeepsCalls ==
  ASSUME NEW t \in Threads, NEW o, NEW p, ThreadOK(t, p), SameCalls(o, p)
  PROVE  ContentsOK(t, o) /\ MergesOK(o) /\ SetupOK(o)
BY DEF ThreadOK, SameCalls, ContentsOK, OfRun, MergesOK, SetupOK

(* A step that goes on with the same calls. *)
LEMMA MoveStep ==
  ASSUME TxInv, SameWorld, UNCHANGED <<t_chain, t_txs>>,
         NEW t \in Threads, NEW o \in TxOps, t_op' = [t_op EXCEPT ![t] = o],
         SameCalls(o, t_op[t]), o.step # "idle", TodoOK(o),
         Txs!Eoa => EoaPhase(t, o), ~Txs!Eoa => SafePhase(t, o),
         t_lock' \in Threads \cup {"free"},
         (o.step \in Locking) <=> (t_lock' = t),
         \A u \in Threads \ {t} : (t_lock' = u) <=> (t_lock = u),
         Txs!Eoa /\ o.step = "send" => o.nonce = Len(t_txs)
  PROVE  TxInv'
<1>1. ThreadOK(t, t_op[t])
  BY DEF TxInv
<1>2. ContentsOK(t, o) /\ MergesOK(o) /\ SetupOK(o)
  BY <1>1, KeepsCalls
<1>3. ReportOK(t, o)
  BY DEF ReportOK
<1>4. ThreadOK(t, o)
  BY <1>2, <1>3 DEF ThreadOK
<1>5. t_op[t] \in TxOps
  BY DEF TxInv, TxTypeOK
<1>6. t_op[t].run <= o.run
  BY <1>5, OpFields DEF SameCalls
<1>. QED  BY <1>4, <1>6, QuietStep

(* A step that ends an operation: what it reports has to be true. *)
LEMMA EndStep ==
  ASSUME TxInv, SameWorld, UNCHANGED <<t_chain, t_txs>>,
         NEW t \in Threads, NEW r \in TxResults, NEW h \in Nat,
         t_op' = [t_op EXCEPT ![t] = Txs!Ends(t_op[t], r, h)],
         ReportOK(t, Txs!Ends(t_op[t], r, h)),
         t_lock' = IF t_lock = t THEN "free" ELSE t_lock
  PROVE  TxInv'
<1>0. PICK p \in TxOps : p = t_op[t] /\ ThreadOK(t, p)
  BY DEF TxInv, TxTypeOK
<1>1. PICK o : o = Txs!Ends(p, r, h)
  OBVIOUS
<1>2. o = [p EXCEPT !.step = "idle", !.result = r, !.names = h]
  BY <1>1 DEF Txs!Ends
<1>3. o \in TxOps
  BY <1>2 DEF TxOps, TxSteps
<1>4. SameCalls(o, p) /\ o.step = "idle"
  BY <1>2 DEF SameCalls, TxOps
<1>5. ContentsOK(t, o) /\ MergesOK(o) /\ SetupOK(o)
  BY <1>0, <1>4, KeepsCalls
<1>6. TodoOK(o)
  BY <1>0, <1>4 DEF ThreadOK, TodoOK, SameCalls
<1>7. Txs!Eoa => EoaPhase(t, o)
  BY <1>0, <1>4 DEF ThreadOK, EoaPhase, OfRun, SameCalls
<1>8. ~Txs!Eoa => SafePhase(t, o)
  BY <1>4 DEF SafePhase
<1>9. ReportOK(t, o)
  BY <1>0, <1>1
<1>10. ThreadOK(t, o)
  BY <1>5, <1>6, <1>7, <1>8, <1>9 DEF ThreadOK
<1>11. t_op[t].run <= o.run
  BY <1>0, <1>3, <1>4, OpFields DEF SameCalls
<1>12. "free" \notin Threads
  BY HttpAssumption
<1>13. /\ t_lock' \in Threads \cup {"free"} /\ ((o.step \in Locking) <=> (t_lock' = t))
       /\ \A u \in Threads \ {t} : (t_lock' = u) <=> (t_lock = u)
  BY <1>4, <1>12 DEF TxInv, TxTypeOK, Locking
<1>. QED  BY <1>0, <1>1, <1>3, <1>4, <1>10, <1>11, <1>13, QuietStep

(* An exception reports nothing that could be false. *)
LEMMA ThrowStep ==
  ASSUME TxInv, SameWorld, UNCHANGED <<t_chain, t_txs>>, NEW t \in Threads,
         t_op' = [t_op EXCEPT ![t] = Txs!Thrown(t_op[t])],
         t_lock' = IF t_lock = t THEN "free" ELSE t_lock
  PROVE  TxInv'
<1>1. PICK r \in {"partial", "error"} : Txs!Thrown(t_op[t]) = Txs!Ends(t_op[t], r, 0)
  BY DEF Txs!Thrown
<1>2. t_op[t] \in TxOps
  BY DEF TxInv, TxTypeOK
<1>3. Txs!Ends(t_op[t], r, 0).result = r
  BY <1>2 DEF Txs!Ends, TxOps
<1>4. ReportOK(t, Txs!Ends(t_op[t], r, 0))
  BY <1>1, <1>3 DEF ReportOK
<1>5. r \in TxResults
  BY DEF TxResults
<1>. QED  BY <1>1, <1>4, <1>5, EndStep

(* One lemma per action: the exceptions of every phase. *)
LEMMA TxThrows ==
  ASSUME TxInv, NEW t \in Threads, Txs!Throws(t)
  PROVE  TxInv'
<1>1. SameWorld
  BY TxSpend DEF TxInv, Txs!Throws
<1>. QED  BY <1>1, ThrowStep DEF Txs!Throws, Txs!Goes, Txs!Free

(* execute_calls takes the mutex, or there is nothing to send. *)
LEMMA TxExecution ==
  ASSUME TxInv, NEW t \in Threads, Txs!Execution(t)
  PROVE  TxInv'
<1>0. PICK p \in TxOps : p = t_op[t] /\ ThreadOK(t, p)
  BY DEF TxInv, TxTypeOK
<1>1. SameWorld /\ UNCHANGED <<t_chain, t_txs>> /\ p.step = "resolve" /\ p.todo = <<>>
  BY <1>0, TxSpend DEF TxInv, Txs!Execution
<1>2. t_lock # t
  BY <1>0, <1>1 DEF TxInv, TxLocked
<1>3. CASE p.calls = <<>>
  <2>1. /\ t_op' = [t_op EXCEPT ![t] = Txs!Ends(t_op[t], "approved", 0)]
        /\ t_lock' = t_lock
    BY <1>0, <1>3 DEF Txs!Execution, Txs!Goes
  <2>2. Txs!Ends(t_op[t], "approved", 0).result = "approved"
    BY <1>0 DEF Txs!Ends, TxOps
  <2>3. ReportOK(t, Txs!Ends(t_op[t], "approved", 0))
    BY <2>2 DEF ReportOK
  <2>4. "approved" \in TxResults /\ 0 \in Nat
    BY DEF TxResults
  <2>. QED  BY <1>1, <1>2, <2>1, <2>3, <2>4, EndStep
<1>4. CASE p.calls # <<>>
  <2> DEFINE o == [p EXCEPT !.step = "nonce"]
  <2>1. t_lock = "free" /\ t_lock' = t /\ t_op' = [t_op EXCEPT ![t] = o]
    BY <1>0, <1>4 DEF Txs!Execution, Txs!Goes, Txs!Free
  <2>2. o \in TxOps /\ o.step = "nonce" /\ SameCalls(o, t_op[t]) /\ o.sent = p.sent
    BY <1>0 DEF TxOps, TxSteps, SameCalls
  <2>. HIDE DEF o
  <2>3. TodoOK(o)
    BY <1>0, <1>1, <1>4, <2>2 DEF ThreadOK, TodoOK, SameCalls
  <2>4. Len(p.calls) > 0
    BY <1>4, OpFields
  <2>5. Txs!Eoa => EoaPhase(t, o)
    <3>1. ASSUME Txs!Eoa PROVE Len(o.sent) = 0 /\ 1..Len(o.sent) = {}
      BY <1>0, <1>1, <2>2, <3>1 DEF ThreadOK, EoaPhase
    <3>. QED  BY <1>0, <1>1, <2>2, <2>4, <3>1 DEF ThreadOK, EoaPhase, SameCalls, OfRun
  <2>6. ~Txs!Eoa => SafePhase(t, o)
    BY <1>0, <1>1, <2>2 DEF ThreadOK, SafePhase, SameCalls, OfRun
  <2>7. "free" \notin Threads
    BY HttpAssumption
  <2>8. /\ t_lock' \in Threads \cup {"free"} /\ ((o.step \in Locking) <=> (t_lock' = t))
        /\ \A u \in Threads \ {t} : (t_lock' = u) <=> (t_lock = u)
    BY <2>1, <2>2, <2>7 DEF Locking
  <2>. QED  BY <1>1, <2>1, <2>2, <2>3, <2>5, <2>6, <2>8, MoveStep
<1>. QED  BY <1>3, <1>4

(* The mutex stays with its owner, or with nobody. *)
LEMMA LockStays ==
  ASSUME TxInv, NEW t \in Threads, NEW o, t_lock' = t_lock,
         (o.step \in Locking) <=> (t_op[t].step \in Locking)
  PROVE  /\ t_lock' \in Threads \cup {"free"} /\ ((o.step \in Locking) <=> (t_lock' = t))
         /\ \A u \in Threads \ {t} : (t_lock' = u) <=> (t_lock = u)
BY DEF TxInv, TxTypeOK, TxLocked, Locking

(* The nonce of an EOA's next call is the number of transactions the node has. *)
LEMMA TxSign ==
  ASSUME TxInv, NEW t \in Threads, Txs!Sign(t)
  PROVE  TxInv'
<1>0. PICK p \in TxOps : p = t_op[t] /\ ThreadOK(t, p)
  BY DEF TxInv, TxTypeOK
<1>1. SameWorld /\ UNCHANGED <<t_chain, t_txs>> /\ p.step = "nonce" /\ Txs!Eoa
  BY <1>0, TxSpend DEF TxInv, Txs!Sign
<1>2. t_lock = t
  BY <1>0, <1>1 DEF TxInv, TxLocked
<1>3. CASE t_op' = [t_op EXCEPT ![t] = Txs!Thrown(t_op[t])] /\ t_lock' = "free"
  BY <1>1, <1>2, <1>3, ThrowStep
<1> DEFINE o == [p EXCEPT !.step = "send", !.nonce = Len(t_txs)]
<1>4. CASE t_op' = [t_op EXCEPT ![t] = o] /\ t_lock' = t_lock
  <2>1. Len(t_txs) \in Nat
    BY DEF TxInv, TxTypeOK
  <2>2. /\ o \in TxOps /\ o.step = "send" /\ SameCalls(o, t_op[t]) /\ SameCalls(o, p)
        /\ o.nonce = Len(t_txs)
    BY <1>0, <2>1 DEF TxOps, TxSteps, SameCalls
  <2>. HIDE DEF o
  <2>3. TodoOK(o)
    BY <1>0, <1>1, <2>2 DEF ThreadOK, TodoOK, SameCalls
  <2>4. EoaPhase(t, o)
    BY <1>0, <1>1, <2>2 DEF ThreadOK, EoaPhase, SameCalls, OfRun, Landed
  <2>5. /\ t_lock' \in Threads \cup {"free"} /\ ((o.step \in Locking) <=> (t_lock' = t))
        /\ \A u \in Threads \ {t} : (t_lock' = u) <=> (t_lock = u)
    BY <1>0, <1>1, <1>4, <2>2, LockStays DEF Locking
  <2>6. o.step # "idle"
    BY <2>2
  <2>7. t_op' = [t_op EXCEPT ![t] = o]
    BY <1>4
  <2>. QED  BY <1>1, <2>2, <2>3, <2>4, <2>5, <2>6, <2>7, MoveStep
<1>. QED  BY <1>0, <1>3, <1>4 DEF Txs!Sign, Txs!Goes, Txs!Free, Txs!PendingCount

(* The transactions that succeeded are counted by a number. *)
LEMMA ExecutedNat ==
  ASSUME TxTypeOK
  PROVE  /\ Txs!Executed \in Nat
         /\ IsFiniteSet({i \in DOMAIN t_txs : t_txs[i].state = "ok"})
         /\ Txs!Executed = Cardinality({i \in DOMAIN t_txs : t_txs[i].state = "ok"})
<1> DEFINE S == {i \in DOMAIN t_txs : t_txs[i].state = "ok"}
<1>1. Len(t_txs) \in Nat /\ DOMAIN t_txs = 1..Len(t_txs)
  BY DEF TxTypeOK
<1>2. IsFiniteSet(1..Len(t_txs))
  BY <1>1, FS_Interval
<1>3. S \in SUBSET (1..Len(t_txs))
  BY <1>1
<1>4. IsFiniteSet(S)
  BY <1>2, <1>3, FS_Subset
<1>5. Cardinality(S) \in Nat
  BY <1>4, FS_CardinalityType
<1>6. Txs!Executed = Cardinality(S)
  BY DEF Txs!Executed, Txs!Cardinality, Cardinality
<1>. QED  BY <1>4, <1>5, <1>6

(* The nonce of a Safe's transaction is the number of those that succeeded. *)
LEMMA TxSafeNonce ==
  ASSUME TxInv, NEW t \in Threads, Txs!SafeNonce(t)
  PROVE  TxInv'
<1>0. PICK p \in TxOps : p = t_op[t] /\ ThreadOK(t, p)
  BY DEF TxInv, TxTypeOK
<1>1. /\ SameWorld /\ UNCHANGED <<t_chain, t_txs>> /\ p.step = "nonce" /\ ~Txs!Eoa
      /\ t_lock' = t_lock
  BY <1>0, TxSpend DEF TxInv, Txs!SafeNonce
<1> DEFINE o == [p EXCEPT !.step = "submit", !.nonce = Txs!Executed]
<1>2. t_op' = [t_op EXCEPT ![t] = o]
  BY <1>0 DEF Txs!SafeNonce, Txs!Goes
<1>3. Txs!Executed \in Nat
  BY ExecutedNat DEF TxInv
<1>4. o \in TxOps /\ o.step = "submit" /\ SameCalls(o, t_op[t]) /\ SameCalls(o, p)
  BY <1>0, <1>3 DEF TxOps, TxSteps, SameCalls
<1>. HIDE DEF o
<1>5. TodoOK(o)
  BY <1>0, <1>1, <1>4 DEF ThreadOK, TodoOK, SameCalls
<1>6. SafePhase(t, o)
  BY <1>0, <1>1, <1>4 DEF ThreadOK, SafePhase, SameCalls, OfRun
<1>7. /\ t_lock' \in Threads \cup {"free"} /\ ((o.step \in Locking) <=> (t_lock' = t))
      /\ \A u \in Threads \ {t} : (t_lock' = u) <=> (t_lock = u)
  BY <1>0, <1>1, <1>4, LockStays DEF Locking
<1>8. o.step # "idle"
  BY <1>4
<1>. QED  BY <1>1, <1>2, <1>4, <1>5, <1>6, <1>7, <1>8, MoveStep

(* The caller waits on its handle, or drops it. *)
LEMMA TxHandle ==
  ASSUME TxInv, NEW t \in Threads, Txs!Handle(t)
  PROVE  TxInv'
<1>0. PICK p \in TxOps : p = t_op[t] /\ ThreadOK(t, p)
  BY DEF TxInv, TxTypeOK
<1>1. /\ SameWorld /\ UNCHANGED <<t_chain, t_txs>> /\ p.step = "handle" /\ t_lock' = t_lock
  BY <1>0, TxSpend DEF TxInv, Txs!Handle
<1>2. CASE t_op' = [t_op EXCEPT ![t] = Txs!Ends(t_op[t], "sent", 0)]
  <2>1. Txs!Ends(t_op[t], "sent", 0).result = "sent"
    BY <1>0 DEF Txs!Ends, TxOps
  <2>2. ReportOK(t, Txs!Ends(t_op[t], "sent", 0))
    BY <2>1 DEF ReportOK
  <2>3. "sent" \in TxResults /\ 0 \in Nat
    BY DEF TxResults
  <2>4. t_lock # t
    BY <1>0, <1>1 DEF TxInv, TxLocked
  <2>. QED  BY <1>1, <1>2, <2>2, <2>3, <2>4, EndStep
<1> DEFINE o == [p EXCEPT !.step = IF Txs!Eoa THEN "receipt" ELSE "relayer"]
<1>3. CASE t_op' = [t_op EXCEPT ![t] = o]
  <2>1. /\ o \in TxOps /\ o.step = (IF Txs!Eoa THEN "receipt" ELSE "relayer")
        /\ SameCalls(o, t_op[t]) /\ SameCalls(o, p) /\ o.id = p.id
    BY <1>0 DEF TxOps, TxSteps, SameCalls
  <2>. HIDE DEF o
  <2>2. TodoOK(o)
    BY <1>0, <1>1, <2>1 DEF ThreadOK, TodoOK, SameCalls
  <2>3. Txs!Eoa => EoaPhase(t, o)
    BY <1>0, <1>1, <2>1 DEF ThreadOK, EoaPhase, SameCalls, OfRun, Landed
  <2>4. ~Txs!Eoa => SafePhase(t, o)
    BY <1>0, <1>1, <2>1 DEF ThreadOK, SafePhase, SameCalls, OfRun
  <2>5. /\ t_lock' \in Threads \cup {"free"} /\ ((o.step \in Locking) <=> (t_lock' = t))
        /\ \A u \in Threads \ {t} : (t_lock' = u) <=> (t_lock = u)
    BY <1>0, <1>1, <2>1, LockStays DEF Locking
  <2>6. o.step # "idle" /\ o.step # "send"
    BY <2>1
  <2>7. t_op' = [t_op EXCEPT ![t] = o]
    BY <1>3
  <2>. QED  BY <1>1, <2>1, <2>2, <2>3, <2>4, <2>5, <2>6, <2>7, MoveStep
<1>. QED  BY <1>0, <1>2, <1>3 DEF Txs!Handle, Txs!Goes

(* The deadline of a wait passes. *)
LEMMA TxDeadline ==
  ASSUME TxInv, NEW t \in Threads, Txs!Deadline(t)
  PROVE  TxInv'
<1>0. PICK p \in TxOps : p = t_op[t] /\ ThreadOK(t, p)
  BY DEF TxInv, TxTypeOK
<1>1. /\ SameWorld /\ UNCHANGED <<t_chain, t_txs>> /\ t_lock' = t_lock
      /\ p.step \in {"landing", "relayer", "receipt"}
  BY <1>0, TxSpend DEF TxInv, Txs!Deadline
<1> DEFINE o == [p EXCEPT !.late = TRUE]
<1>2. t_op' = [t_op EXCEPT ![t] = o]
  BY <1>0 DEF Txs!Deadline, Txs!Goes
<1>3. /\ o \in TxOps /\ o.step = p.step /\ SameCalls(o, t_op[t]) /\ SameCalls(o, p)
      /\ o.id = p.id
  BY <1>0 DEF TxOps, SameCalls
<1>. HIDE DEF o
<1>4. TodoOK(o)
  BY <1>0, <1>1, <1>3 DEF ThreadOK, TodoOK, SameCalls
<1>5. Txs!Eoa => EoaPhase(t, o)
  BY <1>0, <1>1, <1>3 DEF ThreadOK, EoaPhase, SameCalls, OfRun, Landed
<1>6. ~Txs!Eoa => SafePhase(t, o)
  BY <1>0, <1>1, <1>3 DEF ThreadOK, SafePhase, SameCalls, OfRun
<1>7. /\ t_lock' \in Threads \cup {"free"} /\ ((o.step \in Locking) <=> (t_lock' = t))
      /\ \A u \in Threads \ {t} : (t_lock' = u) <=> (t_lock = u)
  BY <1>0, <1>1, <1>3, LockStays DEF Locking
<1>8. o.step # "idle" /\ o.step # "send"
  BY <1>1, <1>3
<1>. QED  BY <1>1, <1>2, <1>3, <1>4, <1>5, <1>6, <1>7, <1>8, MoveStep

(* A poll for a receipt: what it reports is in the chain. *)
LEMMA TxPollReceipt ==
  ASSUME TxInv, NEW t \in Threads, Txs!PollReceipt(t)
  PROVE  TxInv'
<1>0. PICK p \in TxOps : p = t_op[t] /\ ThreadOK(t, p)
  BY DEF TxInv, TxTypeOK
<1>1. /\ SameWorld /\ UNCHANGED <<t_chain, t_txs>> /\ p.step \in {"landing", "receipt"}
      /\ t_lock' = IF t_lock = t /\ t_op'[t].step = "idle" THEN "free" ELSE t_lock
  BY <1>0, TxSpend DEF TxInv, Txs!PollReceipt, Txs!Free
<1>2. p.id \in Nat
  BY <1>0, OpFields
<1>3. ASSUME NEW r \in TxResults, t_op' = [t_op EXCEPT ![t] = Txs!Ends(p, r, p.id)],
             ReportOK(t, Txs!Ends(p, r, p.id))
      PROVE  TxInv'
  <2>1. t_op'[t] = Txs!Ends(p, r, p.id)
    BY <1>3 DEF TxInv, TxTypeOK
  <2>2. t_op'[t].step = "idle"
    BY <2>1 DEF Txs!Ends, TxOps
  <2>3. t_lock' = IF t_lock = t THEN "free" ELSE t_lock
    BY <1>1, <2>2
  <2>. QED  BY <1>0, <1>1, <1>2, <1>3, <2>3, EndStep
<1>4. \A r \in TxResults :
         LET o == Txs!Ends(p, r, p.id) IN
         /\ o.result = r /\ o.names = p.id /\ o.step = "idle" /\ SameCalls(o, p)
  BY DEF Txs!Ends, TxOps, SameCalls
<1>5. {"timeout", "partial", "reverted", "ok"} \subseteq TxResults
  BY DEF TxResults
<1>6. CASE t_op' = [t_op EXCEPT ![t] = Txs!Waited(p, "timeout")]
  <2>1. PICK r \in {"timeout", "partial"} : Txs!Waited(p, "timeout") = Txs!Ends(p, r, p.id)
    BY DEF Txs!Waited
  <2>2. r \in TxResults
    BY <1>5
  <2>3. ReportOK(t, Txs!Ends(p, r, p.id))
    BY <1>4, <2>1, <2>2 DEF ReportOK
  <2>. QED  BY <1>3, <1>6, <2>1, <2>2, <2>3
<1>7. ASSUME NEW i \in Txs!Receipt(p.id), t_txs[i].state = "reverted",
             t_op' = [t_op EXCEPT ![t] = Txs!Waited(p, "reverted")]
      PROVE  TxInv'
  <2>1. PICK r \in {"reverted", "partial"} : Txs!Waited(p, "reverted") = Txs!Ends(p, r, p.id)
    BY DEF Txs!Waited
  <2>2. r \in TxResults
    BY <1>5
  <2>3. i \in DOMAIN t_txs /\ t_txs[i].hash = p.id
    BY <1>7 DEF Txs!Receipt
  <2>4. ReportOK(t, Txs!Ends(p, r, p.id))
    BY <1>4, <1>7, <2>1, <2>2, <2>3 DEF ReportOK
  <2>. QED  BY <1>3, <1>7, <2>1, <2>2, <2>4
<1>8. ASSUME NEW i \in Txs!Receipt(p.id), t_txs[i].state # "reverted"
      PROVE  /\ i \in DOMAIN t_txs /\ t_txs[i].hash = p.id /\ t_txs[i].state = "ok"
             /\ Txs!Eoa => \A j \in 1..Len(p.sent) : Landed(t, p, j)
  <2>1. i \in DOMAIN t_txs /\ t_txs[i].hash = p.id /\ t_txs[i].state = "ok"
    BY <1>8 DEF Txs!Receipt
  <2>2. ASSUME Txs!Eoa, NEW j \in 1..Len(p.sent) PROVE Landed(t, p, j)
    <3>1. Len(p.sent) \in Nat /\ j \in Int
      BY OpFields
    <3>2. CASE j \in 1..(Len(p.sent) - 1)
      BY <1>0, <1>1, <2>2, <3>2 DEF ThreadOK, EoaPhase
    <3>3. CASE j = Len(p.sent)
      <4>1. i = p.id
        BY <2>1, <2>2 DEF TxInv, TxsOK, EoaTxs
      <4>. QED  BY <1>0, <1>1, <2>1, <2>2, <3>3, <4>1 DEF ThreadOK, EoaPhase, Landed
    <3>. QED  BY <2>2, <3>1, <3>2, <3>3
  <2>. QED  BY <2>1, <2>2
<1>9. ASSUME NEW i \in Txs!Receipt(p.id), t_txs[i].state # "reverted", p.step = "receipt",
             t_op' = [t_op EXCEPT ![t] = Txs!Ends(p, "ok", p.id)]
      PROVE  TxInv'
  <2> DEFINE o == Txs!Ends(p, "ok", p.id)
  <2>1. /\ o.result = "ok" /\ o.names = p.id /\ o.step = "idle" /\ SameCalls(o, p)
    BY <1>4, <1>5
  <2>. HIDE DEF o
  <2>2. o.todo = <<>>
    BY <1>0, <1>9, <2>1 DEF ThreadOK, TodoOK, SameCalls
  <2>3. \E k \in DOMAIN t_txs : t_txs[k].hash = o.names /\ t_txs[k].state = "ok"
    BY <1>8, <1>9, <2>1
  <2>4. ASSUME Txs!Eoa, NEW j \in DOMAIN o.calls PROVE Landed(t, o, j)
    <3>1. p.calls \in Seq(TxCalls) /\ Len(p.sent) = Len(p.calls) /\ DOMAIN o.calls = DOMAIN p.calls
      BY <1>0, <1>9, <2>1, <2>4, OpFields DEF ThreadOK, EoaPhase, SameCalls
    <3>2. j \in 1..Len(p.sent)
      BY <2>4, <3>1
    <3>. QED  BY <1>8, <1>9, <2>1, <2>4, <3>2 DEF Landed, OfRun, SameCalls
  <2>5. ASSUME ~Txs!Eoa PROVE \E k \in DOMAIN t_txs : OfRun(t, o, k) /\ t_txs[k].state = "ok"
    BY <1>0, <1>9, <2>1, <2>5 DEF ThreadOK, SafePhase, OfRun, SameCalls
  <2>6. ReportOK(t, o)
    BY <2>1, <2>2, <2>3, <2>4, <2>5 DEF ReportOK
  <2>. QED  BY <1>3, <1>5, <1>9, <2>6 DEF o
<1>10. ASSUME NEW i \in Txs!Receipt(p.id), t_txs[i].state # "reverted", p.step = "landing",
              t_op' = [t_op EXCEPT ![t] = [p EXCEPT !.step = "nonce"]]
       PROVE  TxInv'
  <2> DEFINE o == [p EXCEPT !.step = "nonce"]
  <2>1. o \in TxOps /\ o.step = "nonce" /\ SameCalls(o, t_op[t]) /\ SameCalls(o, p)
    BY <1>0 DEF TxOps, TxSteps, SameCalls
  <2>2. t_op' = [t_op EXCEPT ![t] = o]
    BY <1>10
  <2>. HIDE DEF o
  <2>3. t_lock' = t_lock
    BY <1>1, <2>1, <2>2 DEF TxInv, TxTypeOK
  <2>4. TodoOK(o)
    BY <1>0, <1>10, <2>1 DEF ThreadOK, TodoOK, SameCalls
  <2>5. Txs!Eoa
    BY <1>0, <1>10 DEF ThreadOK, SafePhase
  <2>6. EoaPhase(t, o)
    BY <1>0, <1>8, <1>10, <2>1, <2>5 DEF ThreadOK, EoaPhase, SameCalls, OfRun, Landed
  <2>7. /\ t_lock' \in Threads \cup {"free"} /\ ((o.step \in Locking) <=> (t_lock' = t))
        /\ \A u \in Threads \ {t} : (t_lock' = u) <=> (t_lock = u)
    BY <1>0, <1>10, <2>1, <2>3, LockStays DEF Locking
  <2>8. o.step # "idle" /\ o.step # "send"
    BY <2>1
  <2>. QED  BY <1>1, <2>1, <2>2, <2>4, <2>5, <2>6, <2>7, <2>8, MoveStep
<1>11. \/ t_op' = [t_op EXCEPT ![t] = Txs!Waited(p, "timeout")]
       \/ \E i \in Txs!Receipt(p.id) :
            t_op' = [t_op EXCEPT ![t] =
                       IF t_txs[i].state = "reverted" THEN Txs!Waited(p, "reverted")
                       ELSE IF p.step = "landing" THEN [p EXCEPT !.step = "nonce"]
                       ELSE Txs!Ends(p, "ok", p.id)]
  BY <1>0 DEF Txs!PollReceipt, Txs!Goes
<1>. QED  BY <1>1, <1>6, <1>7, <1>9, <1>10, <1>11

(* A poll of the relayer goes on to the receipt only of what was mined. *)
LEMMA TxPollRelayer ==
  ASSUME TxInv, NEW t \in Threads, Txs!PollRelayer(t)
  PROVE  TxInv'
<1>0. PICK p \in TxOps : p = t_op[t] /\ ThreadOK(t, p)
  BY DEF TxInv, TxTypeOK
<1>1. /\ SameWorld /\ UNCHANGED <<t_chain, t_txs>> /\ p.step = "relayer" /\ t_lock' = t_lock
  BY <1>0, TxSpend DEF TxInv, Txs!PollRelayer
<1>2. ~Txs!Eoa
  BY <1>0, <1>1 DEF ThreadOK, EoaPhase
<1>3. p.id \in DOMAIN t_txs /\ OfRun(t, p, p.id)
  BY <1>0, <1>1, <1>2 DEF ThreadOK, SafePhase
<1>4. t_txs[p.id].hash \in Nat
  BY <1>3, TxFields DEF TxInv
<1>5. t_lock # t
  BY <1>0, <1>1 DEF TxInv, TxLocked
<1>6. ASSUME NEW r \in {"failed", "timeout"},
             t_op' = [t_op EXCEPT ![t] = Txs!Ends(p, r, t_txs[p.id].hash)]
      PROVE  TxInv'
  <2>1. Txs!Ends(p, r, t_txs[p.id].hash).result = r
    BY DEF Txs!Ends, TxOps
  <2>2. ReportOK(t, Txs!Ends(p, r, t_txs[p.id].hash))
    BY <2>1 DEF ReportOK
  <2>3. r \in TxResults
    BY DEF TxResults
  <2>. QED  BY <1>0, <1>1, <1>4, <1>5, <1>6, <2>2, <2>3, EndStep
<1>7. ASSUME t_txs[p.id].state = "ok",
             t_op' = [t_op EXCEPT ![t] = [p EXCEPT !.step = "receipt", !.id = Txs!ConfirmedHash(p)]]
      PROVE  TxInv'
  <2>1. t_txs[p.id].hash # 0
    BY <1>2, <1>3, <1>7 DEF TxInv, TxsOK, SafeTxs
  <2>2. Txs!ConfirmedHash(p) \in Nat
    BY <1>4, <2>1 DEF Txs!ConfirmedHash, Txs!Relayed
  <2> DEFINE o == [p EXCEPT !.step = "receipt", !.id = Txs!ConfirmedHash(p)]
  <2>3. o \in TxOps /\ o.step = "receipt" /\ SameCalls(o, t_op[t]) /\ SameCalls(o, p)
    BY <1>0, <2>2 DEF TxOps, TxSteps, SameCalls
  <2>4. t_op' = [t_op EXCEPT ![t] = o]
    BY <1>7
  <2>. HIDE DEF o
  <2>5. TodoOK(o)
    BY <1>0, <1>1, <2>3 DEF ThreadOK, TodoOK, SameCalls
  <2>6. SafePhase(t, o)
    BY <1>3, <1>7, <2>3 DEF SafePhase, SameCalls, OfRun
  <2>7. /\ t_lock' \in Threads \cup {"free"} /\ ((o.step \in Locking) <=> (t_lock' = t))
        /\ \A u \in Threads \ {t} : (t_lock' = u) <=> (t_lock = u)
    BY <1>0, <1>1, <2>3, LockStays DEF Locking
  <2>8. o.step # "idle" /\ o.step # "send"
    BY <2>3
  <2>. QED  BY <1>1, <1>2, <2>3, <2>4, <2>5, <2>6, <2>7, <2>8, MoveStep
<1>. QED  BY <1>0, <1>6, <1>7 DEF Txs!PollRelayer, Txs!Goes, Txs!Relayed

(* The requests an operation begins with, and the calls it needs no request for. *)
LEMMA OrderShape ==
  ASSUME NEW task \in TxTasks \ {"none"}, NEW todo \in Txs!Orders(task)
  PROVE  /\ todo \in Seq(TxItems) /\ Txs!Direct(task) \in Seq(TxCalls)
         /\ \A i \in DOMAIN todo : todo[i] \in IF task = "setup" THEN TxSpenders ELSE TxRequests
         /\ task \notin {"split", "merge", "merges", "redeem", "setup"} => todo = <<>>
         /\ IF task = "redeem" THEN Len(Txs!Direct(task)) + 2 * Len(todo) <= 2
            ELSE Len(Txs!Direct(task)) + Len(todo) <= 2
         /\ \A i \in DOMAIN Txs!Direct(task) : Txs!Direct(task)[i].kind # "merge"
         /\ task \in {"merge", "merges"} => Txs!Direct(task) = <<>>
         /\ task = "setup" => todo = <<"adapter", "router">>
<1>1. \A n \in Int : Txs!With(n) \subseteq TxRequests
  BY DEF Txs!With, Txs!Ids, Txs!Request, TxRequests, TxMarkets
<1>2. Txs!Ids \subseteq TxRequests
  BY DEF Txs!Ids, Txs!Request, TxRequests, TxMarkets
<1>3. Txs!All \in Int
  BY DEF Txs!All
<1>4. CASE task \in {"split", "merge", "redeem"}
  <2>1. PICK r \in TxRequests : todo = <<r>>
    BY <1>1, <1>2, <1>3, <1>4 DEF Txs!Orders
  <2>2. Txs!Direct(task) = <<>>
    BY <1>4 DEF Txs!Direct
  <2>. QED  BY <1>4, <2>1, <2>2 DEF TxItems
<1>5. CASE task = "merges"
  <2>1. PICK q \in TxRequests, r \in TxRequests : todo = <<q, r>>
    BY <1>1, <1>3, <1>5 DEF Txs!Orders
  <2>2. Txs!Direct(task) = <<>>
    BY <1>5 DEF Txs!Direct
  <2>3. todo \in Seq(TxItems) /\ Len(todo) = 2 /\ DOMAIN todo = 1..2 /\ todo[1] = q /\ todo[2] = r
    BY <2>1 DEF TxItems
  <2>4. \A i \in DOMAIN todo : todo[i] \in TxRequests
    BY <2>3
  <2>5. Txs!Direct(task) \in Seq(TxCalls) /\ Len(Txs!Direct(task)) = 0
          /\ DOMAIN Txs!Direct(task) = {}
    BY <2>2
  <2>. QED  BY <1>5, <2>2, <2>3, <2>4, <2>5
<1>6. CASE task = "setup"
  <2>1. todo = <<"adapter", "router">>
    BY <1>6 DEF Txs!Orders, Txs!Spenders
  <2>2. Txs!Direct(task) = <<>>
    BY <1>6 DEF Txs!Direct
  <2>3. todo \in Seq(TxItems) /\ Len(todo) = 2 /\ DOMAIN todo = 1..2
    BY <2>1 DEF TxItems, TxSpenders
  <2>4. todo[1] = "adapter" /\ todo[2] = "router"
    BY <2>1
  <2>5. \A i \in DOMAIN todo : todo[i] \in TxSpenders
    BY <2>3, <2>4 DEF TxSpenders
  <2>6. Txs!Direct(task) \in Seq(TxCalls) /\ Len(Txs!Direct(task)) = 0
          /\ DOMAIN Txs!Direct(task) = {}
    BY <2>2
  <2>. QED  BY <1>6, <2>1, <2>2, <2>3, <2>5, <2>6
<1>7. CASE task \in {"approve", "revoke", "transfer"}
  <2>1. todo = <<>>
    BY <1>7 DEF Txs!Orders
  <2>2. PICK c \in TxCalls : Txs!Direct(task) = <<c>> /\ c.kind = task
    BY <1>7 DEF Txs!Direct, Txs!TokenCall, TxCalls, TxKinds, TxSpenders
  <2>. QED  BY <1>7, <2>1, <2>2
<1>. QED  BY <1>4, <1>5, <1>6, <1>7 DEF TxTasks

(* A new operation: a run with no transaction yet. *)
LEMMA TxBegin ==
  ASSUME TxInv, NEW t \in Threads, NEW task \in TxTasks \ {"none"},
         NEW todo \in Txs!Orders(task), Txs!Begin(t, task, todo)
  PROVE  TxInv'
<1>0. PICK p \in TxOps : p = t_op[t] /\ ThreadOK(t, p)
  BY DEF TxInv, TxTypeOK
<1>1. SameWorld /\ UNCHANGED <<t_chain, t_txs>> /\ p.step = "idle" /\ t_lock' = t_lock
  BY <1>0, TxSpend DEF TxInv, Txs!Begin
<1> DEFINE o == [Txs!Idle EXCEPT !.task = task, !.step = "resolve", !.todo = todo,
                                 !.calls = Txs!Direct(task), !.run = p.run + 1]
<1>2. t_op' = [t_op EXCEPT ![t] = o]
  BY <1>0 DEF Txs!Begin, Txs!Goes
<1>3. /\ o.task = task /\ o.step = "resolve" /\ o.todo = todo /\ o.calls = Txs!Direct(task)
      /\ o.run = p.run + 1 /\ o.sent = <<>>
  BY DEF Txs!Idle
<1>4. p.run \in Nat
  BY OpFields
<1>5. o \in TxOps
  <2>1. /\ todo \in Seq(TxItems) /\ Txs!Direct(task) \in Seq(TxCalls) /\ <<>> \in Seq(Nat)
        /\ "none" \in TxResults /\ "resolve" \in TxSteps
    BY OrderShape DEF TxResults, TxSteps
  <2>2. Txs!Idle \in TxOps
    BY DEF Txs!Idle, TxOps, TxTasks, TxSteps, TxResults
  <2>3. PICK e \in TxOps : e = Txs!Idle
    BY <2>2
  <2>4. p.run + 1 \in Nat /\ task \in TxTasks
    BY <1>4
  <2>5. [e EXCEPT !.task = task, !.step = "resolve", !.todo = todo,
                  !.calls = Txs!Direct(task), !.run = p.run + 1] \in TxOps
    BY <2>1, <2>4 DEF TxOps
  <2>. QED  BY <2>3, <2>5
<1>. HIDE DEF o
<1>6. \A i \in DOMAIN t_txs : ~OfRun(t, o, i)
  <2>. SUFFICES ASSUME NEW i \in DOMAIN t_txs, OfRun(t, o, i) PROVE FALSE
    OBVIOUS
  <2>1. t_txs[i].run <= p.run /\ t_txs[i].run = p.run + 1
    BY <1>0, <1>3 DEF OfRun, TxInv, TxsOK, RunsBegun
  <2>. QED  BY <1>4, <2>1
<1>7. TodoOK(o)
  BY <1>3, OrderShape DEF TodoOK
<1>8. ContentsOK(t, o)
  BY <1>6 DEF ContentsOK
<1>9. EoaPhase(t, o)
  BY <1>3, <1>6 DEF EoaPhase
<1>10. SafePhase(t, o)
  BY <1>3, <1>6 DEF SafePhase
<1>11. MergesOK(o)
  <2>1. /\ \A i \in DOMAIN o.calls : o.calls[i].kind # "merge"
        /\ o.task \in {"merge", "merges"} => DOMAIN o.calls = {}
    BY <1>3, OrderShape
  <2>. QED  BY <2>1 DEF MergesOK
<1>12. SetupOK(o)
  <2>1. ASSUME task = "setup" PROVE DOMAIN todo = 1..2 /\ todo[1] = "adapter" /\ todo[2] = "router"
    BY <2>1, OrderShape
  <2>. QED  BY <1>3, <2>1 DEF SetupOK, TxSpenders
<1>13. ReportOK(t, o)
  BY <1>3 DEF ReportOK
<1>14. ThreadOK(t, o)
  BY <1>7, <1>8, <1>9, <1>10, <1>11, <1>12, <1>13 DEF ThreadOK
<1>15. t_op[t].run <= o.run
  BY <1>0, <1>3, <1>4
<1>16. /\ t_lock' \in Threads \cup {"free"} /\ ((o.step \in Locking) <=> (t_lock' = t))
       /\ \A u \in Threads \ {t} : (t_lock' = u) <=> (t_lock = u)
  BY <1>0, <1>1, <1>3, LockStays DEF Locking
<1>17. o.step # "send"
  BY <1>3
<1>. QED  BY <1>1, <1>2, <1>5, <1>14, <1>15, <1>16, <1>17, QuietStep

(* What one request adds. *)
AddsOK(task, r, seen, a) ==
    /\ a.calls \in Seq(TxCalls) /\ a.id \in TxIds
    /\ Len(a.calls) <= IF task = "redeem" THEN 2 ELSE 1
    /\ task = "setup" =>
          \/ r \in t_chain.approved
          \/ \E c \in TxCalls : a.calls = <<c>> /\ c.kind = "approve" /\ c.m = r
    /\ task \in {"merge", "merges"} =>
          \E c \in TxCalls : /\ a.calls = <<c>> /\ c.kind = "merge"
                             /\ a.id = <<c.m, Listing(c.m)>> /\ a.id \notin seen
    /\ task \notin {"merge", "merges"} =>
          \A k \in DOMAIN a.calls : a.calls[k].kind # "merge"
ItemTasks == {"split", "merge", "merges", "redeem", "setup"}
LEMMA ItemShape ==
  ASSUME TxTypeOK, NEW task \in ItemTasks,
         NEW r \in IF task = "setup" THEN TxSpenders ELSE TxRequests, NEW seen,
         Txs!Item(task, r, seen).ok
  PROVE  AddsOK(task, r, seen, Txs!Item(task, r, seen))
<1>0. PICK a : a = Txs!Item(task, r, seen) /\ a.ok
  OBVIOUS
<1>. SUFFICES AddsOK(task, r, seen, a)
  BY <1>0
<1>1. CASE task = "setup"
  <2>0. r \in TxSpenders
    BY <1>1
  <2>1. a = Txs!Approvals(r)
    BY <1>0, <1>1 DEF Txs!Item
  <2>2. /\ a.id = r
        /\ a.calls = IF r \in t_chain.approved THEN <<>> ELSE <<Txs!TokenCall("approve", r)>>
    BY <2>1 DEF Txs!Approvals, Txs!Approved
  <2>3. Txs!TokenCall("approve", r) \in TxCalls /\ Txs!TokenCall("approve", r).kind = "approve"
        /\ Txs!TokenCall("approve", r).m = r
    BY <2>0 DEF Txs!TokenCall, TxCalls, TxKinds
  <2>4. r \in TxIds
    BY <2>0 DEF TxIds
  <2>5. CASE r \in t_chain.approved
    BY <1>1, <2>2, <2>4, <2>5 DEF AddsOK
  <2>6. CASE r \notin t_chain.approved
    BY <1>1, <2>2, <2>3, <2>4, <2>6 DEF AddsOK
  <2>. QED  BY <2>5, <2>6
<1>2. CASE task # "setup"
  <2>0. r \in TxRequests /\ r.m \in TxMarkets /\ r.n \in Int /\ r.form \in 0..2
    BY <1>2 DEF TxRequests
  <2> DEFINE ctx == Txs!ResolveMarket(r, task = "redeem")
             m == Txs!MergeAmount(Txs!Balances(r.m), r.n)
  <2>1. a = Txs!Adds(task, r, seen)
    BY <1>0, <1>2 DEF Txs!Item
  <2>2. ctx.ok /\ ctx.id \notin seen
    BY <1>0, <2>1 DEF Txs!Adds, Txs!Invalid
  <2>3. ctx.id = <<r.m, Listing(r.m)>>
    BY <2>0, <2>2 DEF Txs!ResolveMarket, Txs!Context, Txs!Invalid, Txs!Protocol, Listing, TxMarkets
  <2>4. Listing(r.m) \in 0..2
    BY DEF Listing, TxTypeOK, TxBudgetType
  <2>5. ctx.id \in TxIds
    BY <2>0, <2>3, <2>4 DEF TxIds
  <2>6. t_chain.held[r.m] \in [1..2 -> Int]
    BY <2>0 DEF TxTypeOK, TxChains
  <2>. HIDE DEF ctx, m
  <2>7. CASE task = "split"
    <3>1. a.calls = <<Txs!Call("split", r.m, r.n)>> /\ a.id = ctx.id
      BY <1>0, <2>1, <2>2, <2>7 DEF Txs!Adds, ctx, Txs!Invalid
    <3>2. Txs!Call("split", r.m, r.n) \in TxCalls /\ Txs!Call("split", r.m, r.n).kind = "split"
      BY <2>0 DEF Txs!Call, TxCalls, TxKinds
    <3>. QED  BY <2>5, <2>7, <3>1, <3>2 DEF AddsOK
  <2>8. CASE task \in {"merge", "merges"}
    <3>1. m.ok /\ a.calls = <<Txs!Call("merge", r.m, m.n)>> /\ a.id = ctx.id
      BY <1>0, <2>1, <2>2, <2>8 DEF Txs!Adds, ctx, m, Txs!Invalid
    <3>2. m.n \in Int
      BY <2>0, <2>6, <3>1 DEF m, Txs!MergeAmount, Txs!Invalid, Txs!Least, Txs!Balances
    <3>3. /\ Txs!Call("merge", r.m, m.n) \in TxCalls
          /\ Txs!Call("merge", r.m, m.n).kind = "merge" /\ Txs!Call("merge", r.m, m.n).m = r.m
      BY <2>0, <3>2 DEF Txs!Call, TxCalls, TxKinds
    <3>. QED  BY <2>2, <2>3, <2>5, <2>8, <3>1, <3>3 DEF AddsOK
  <2>9. CASE task = "redeem"
    <3>1. a.calls = Txs!RedeemCalls(r.m, Txs!Balances(r.m)) /\ a.id = ctx.id
      BY <1>0, <2>1, <2>2, <2>9 DEF Txs!Adds, ctx, Txs!Invalid
    <3>2. CASE r.m = "a"
      <4>1. a.calls = <<Txs!Call("redeem", r.m, 0)>>
        BY <3>1, <3>2 DEF Txs!RedeemCalls, Txs!Protocol
      <4>2. Txs!Call("redeem", r.m, 0) \in TxCalls /\ Txs!Call("redeem", r.m, 0).kind = "redeem"
        BY <2>0 DEF Txs!Call, TxCalls, TxKinds
      <4>. QED  BY <2>5, <2>9, <3>1, <4>1, <4>2 DEF AddsOK
    <3>3. CASE r.m # "a"
      <4> DEFINE h == t_chain.held[r.m]
                 out(i) == [Txs!Call("outcome", r.m, h[i]) EXCEPT !.o = i]
                 one(i) == IF Txs!Positive(h[i]) THEN <<out(i)>> ELSE <<>>
      <4>1. r.m = "b"
        BY <2>0, <3>3 DEF TxMarkets
      <4>2. a.calls = one(1) \o one(2)
        BY <3>1, <4>1 DEF Txs!RedeemCalls, Txs!Protocol, Txs!Balances
      <4>3. \A i \in 1..2 : out(i) \in TxCalls /\ out(i).kind = "outcome"
        BY <2>0, <2>6 DEF Txs!Call, TxCalls, TxKinds
      <4>. HIDE DEF out, h
      <4>4. /\ one(1) \in Seq({out(1), out(2)}) /\ Len(one(1)) <= 1
            /\ one(2) \in Seq({out(1), out(2)}) /\ Len(one(2)) <= 1
        <5>1. one(1) \in {<<>>, <<out(1)>>} /\ one(2) \in {<<>>, <<out(2)>>}
          OBVIOUS
        <5>2. PICK x, y : x = out(1) /\ y = out(2)
          OBVIOUS
        <5>. HIDE DEF one
        <5>3. /\ <<>> \in Seq({x, y}) /\ Len(<<>>) <= 1
              /\ <<x>> \in Seq({x, y}) /\ Len(<<x>>) <= 1
              /\ <<y>> \in Seq({x, y}) /\ Len(<<y>>) <= 1
          OBVIOUS
        <5>4. one(1) \in Seq({x, y}) /\ Len(one(1)) <= 1
          BY <5>1, <5>2, <5>3, Zenon
        <5>5. one(2) \in Seq({x, y}) /\ Len(one(2)) <= 1
          BY <5>1, <5>2, <5>3, Zenon
        <5>. QED  BY <5>2, <5>4, <5>5, Zenon
      <4>. HIDE DEF one
      <4>5. a.calls \in Seq({out(1), out(2)}) /\ Len(a.calls) <= 2
        BY <4>2, <4>4
      <4>6. out(1) \in TxCalls /\ out(2) \in TxCalls /\ out(1).kind = "outcome"
              /\ out(2).kind = "outcome"
        BY <4>3
      <4>7. \A k \in DOMAIN a.calls : a.calls[k] \in {out(1), out(2)}
        BY <4>5
      <4>8. a.calls \in Seq(TxCalls) /\ \A k \in DOMAIN a.calls : a.calls[k].kind # "merge"
        BY <4>5, <4>6, <4>7
      <4>. QED  BY <2>5, <2>9, <3>1, <4>5, <4>8 DEF AddsOK
    <3>. QED  BY <3>2, <3>3
  <2>. QED  BY <1>2, <2>7, <2>8, <2>9 DEF ItemTasks
<1>. QED  BY <1>0, <1>1, <1>2

(* A request is looked up and its calls are added; a merge's condition is new. *)
LEMMA TxResolve ==
  ASSUME TxInv, NEW t \in Threads, Txs!Resolve(t)
  PROVE  TxInv'
<1>0. PICK p \in TxOps : p = t_op[t] /\ ThreadOK(t, p)
  BY DEF TxInv, TxTypeOK
<1>1. /\ SameWorld /\ UNCHANGED <<t_chain, t_txs>> /\ p.step = "resolve" /\ p.todo # <<>>
      /\ t_lock' = t_lock
  BY <1>0, TxSpend DEF TxInv, Txs!Resolve
<1>2. PICK a : a = Txs!Item(p.task, Head(p.todo), p.seen)
  OBVIOUS
<1>3. p.todo \in Seq(TxItems) /\ Len(p.todo) \in Nat \ {0} /\ 1 \in DOMAIN p.todo
      /\ Head(p.todo) = p.todo[1]
  BY <1>1, OpFields
<1>4. \A i \in DOMAIN t_txs : ~OfRun(t, p, i)
  <2>1. CASE Txs!Eoa
    <3>1. \A i \in DOMAIN t_txs : OfRun(t, p, i) => t_txs[i].at <= Len(p.sent)
      BY <1>0, <1>1, <2>1 DEF ThreadOK, EoaPhase
    <3>2. Len(p.sent) = 0
      BY <1>0, <1>1, <2>1 DEF ThreadOK, EoaPhase
    <3>3. \A i \in DOMAIN t_txs : t_txs[i].at \in Nat \ {0}
      BY TxFields DEF TxInv
    <3>. QED  BY <3>1, <3>2, <3>3
  <2>2. CASE ~Txs!Eoa
    BY <1>0, <1>1, <2>2 DEF ThreadOK, SafePhase
  <2>. QED  BY <2>1, <2>2
<1>5. CASE ~a.ok
  <2>1. t_op' = [t_op EXCEPT ![t] = Txs!Ends(t_op[t], "invalid", 0)]
    BY <1>0, <1>2, <1>5 DEF Txs!Resolve, Txs!Goes
  <2>2. /\ Txs!Ends(t_op[t], "invalid", 0).result = "invalid"
        /\ Txs!Ends(t_op[t], "invalid", 0).run = p.run
    BY <1>0 DEF Txs!Ends, TxOps
  <2>3. ReportOK(t, Txs!Ends(t_op[t], "invalid", 0))
    BY <1>4, <2>2 DEF ReportOK, OfRun
  <2>4. "invalid" \in TxResults /\ 0 \in Nat
    BY DEF TxResults
  <2>5. t_lock # t
    BY <1>0, <1>1 DEF TxInv, TxLocked
  <2>. QED  BY <1>1, <2>1, <2>3, <2>4, <2>5, EndStep
<1>6. CASE a.ok
  <2> DEFINE o == [p EXCEPT !.todo = Tail(@), !.calls = @ \o a.calls, !.seen = @ \cup {a.id}]
  <2>1. t_op' = [t_op EXCEPT ![t] = o]
    BY <1>0, <1>2, <1>6 DEF Txs!Resolve, Txs!Goes
  <2>2. p.task \in ItemTasks
    BY <1>0, <1>1 DEF ThreadOK, TodoOK, ItemTasks
  <2>3. Head(p.todo) \in IF p.task = "setup" THEN TxSpenders ELSE TxRequests
    BY <1>0, <1>3 DEF ThreadOK, TodoOK
  <2>4. AddsOK(p.task, Head(p.todo), p.seen, a)
    BY <1>2, <1>6, <2>2, <2>3, ItemShape DEF TxInv
  <2>5. /\ a.calls \in Seq(TxCalls) /\ a.id \in TxIds
        /\ Len(a.calls) <= IF p.task = "redeem" THEN 2 ELSE 1
    BY <2>4 DEF AddsOK
  <2>6. p.calls \in Seq(TxCalls) /\ p.seen \in SUBSET TxIds /\ p.task \in TxTasks
    BY OpFields
  <2>7. p.calls \o a.calls \in Seq(TxCalls) /\ Tail(p.todo) \in Seq(TxItems)
    BY <1>3, <2>5, <2>6
  <2>8. p.seen \cup {a.id} \in SUBSET TxIds
    BY <2>5, <2>6
  <2>9. o \in TxOps
    BY <2>7, <2>8 DEF TxOps
  <2>10. /\ o.task = p.task /\ o.step = "resolve" /\ o.todo = Tail(p.todo) /\ o.run = p.run
         /\ o.calls = p.calls \o a.calls /\ o.seen = p.seen \cup {a.id} /\ o.sent = p.sent
    BY <1>1 DEF TxOps
  <2>. HIDE DEF o
  <2>11. /\ Len(o.todo) = Len(p.todo) - 1 /\ \A i \in DOMAIN o.todo : o.todo[i] = p.todo[i + 1]
         /\ \A i \in DOMAIN o.todo : i + 1 \in DOMAIN p.todo
    BY <1>3, <2>10
  <2>12. /\ DOMAIN o.calls = 1..(Len(p.calls) + Len(a.calls))
         /\ Len(o.calls) = Len(p.calls) + Len(a.calls)
         /\ \A i \in DOMAIN p.calls : i \in DOMAIN o.calls /\ o.calls[i] = p.calls[i]
         /\ \A i \in DOMAIN a.calls : Len(p.calls) + i \in DOMAIN o.calls
                                      /\ o.calls[Len(p.calls) + i] = a.calls[i]
         /\ \A i \in DOMAIN o.calls :
               \/ i \in DOMAIN p.calls
               \/ i - Len(p.calls) \in DOMAIN a.calls /\ o.calls[i] = a.calls[i - Len(p.calls)]
    <3>1. \A c, d \in Seq(TxCalls) :
            /\ DOMAIN (c \o d) = 1..(Len(c) + Len(d)) /\ Len(c \o d) = Len(c) + Len(d)
            /\ \A i \in DOMAIN c : i \in DOMAIN (c \o d) /\ (c \o d)[i] = c[i]
            /\ \A i \in DOMAIN d : Len(c) + i \in DOMAIN (c \o d) /\ (c \o d)[Len(c) + i] = d[i]
            /\ \A i \in DOMAIN (c \o d) :
                  \/ i \in DOMAIN c
                  \/ i - Len(c) \in DOMAIN d /\ (c \o d)[i] = d[i - Len(c)]
      OBVIOUS
    <3>2. PICK c \in Seq(TxCalls), d \in Seq(TxCalls) : c = p.calls /\ d = a.calls
      BY <2>5, <2>6
    <3>3. PICK e : e = o.calls /\ e = c \o d
      BY <2>10, <3>2
    <3>4. /\ DOMAIN e = 1..(Len(c) + Len(d)) /\ Len(e) = Len(c) + Len(d)
          /\ \A i \in DOMAIN c : i \in DOMAIN e /\ e[i] = c[i]
          /\ \A i \in DOMAIN d : Len(c) + i \in DOMAIN e /\ e[Len(c) + i] = d[i]
          /\ \A i \in DOMAIN e :
                \/ i \in DOMAIN c
                \/ i - Len(c) \in DOMAIN d /\ e[i] = d[i - Len(c)]
      BY <3>1, <3>3
    <3>. QED  BY <3>2, <3>3, <3>4, Zenon
  <2>13. TodoOK(o)
    <3>1. \A i \in DOMAIN o.todo :
             o.todo[i] \in IF o.task = "setup" THEN TxSpenders ELSE TxRequests
      BY <1>0, <2>10, <2>11 DEF ThreadOK, TodoOK
    <3>2. IF o.task = "redeem" THEN Len(o.calls) + 2 * Len(o.todo) <= 2
          ELSE Len(o.calls) + Len(o.todo) <= 2
      <4>1. IF p.task = "redeem" THEN Len(p.calls) + 2 * Len(p.todo) <= 2
            ELSE Len(p.calls) + Len(p.todo) <= 2
        BY <1>0 DEF ThreadOK, TodoOK
      <4>2. Len(p.calls) \in Nat /\ Len(a.calls) \in Nat
        BY <2>5, <2>6
      <4>3. PICK x \in Nat, y \in Nat, z \in Nat \ {0} :
               x = Len(p.calls) /\ y = Len(a.calls) /\ z = Len(p.todo)
        BY <1>3, <4>2
      <4>4. Len(o.calls) = x + y /\ Len(o.todo) = z - 1
        BY <2>11, <2>12, <4>3
      <4>5. CASE p.task = "redeem"
        <5>1. x + 2 * z <= 2 /\ y <= 2 /\ o.task = "redeem"
          BY <2>5, <2>10, <4>1, <4>3, <4>5
        <5>2. (x + y) + 2 * (z - 1) <= 2
          BY <5>1
        <5>. QED  BY <4>4, <5>1, <5>2
      <4>6. CASE p.task # "redeem"
        <5>1. x + z <= 2 /\ y <= 1 /\ o.task # "redeem"
          BY <2>5, <2>10, <4>1, <4>3, <4>6
        <5>2. (x + y) + (z - 1) <= 2
          BY <5>1
        <5>. QED  BY <4>4, <5>1, <5>2
      <4>. QED  BY <4>5, <4>6
    <3>. QED  BY <2>2, <2>10, <3>1, <3>2 DEF TodoOK, ItemTasks
  <2>14. \A i \in DOMAIN t_txs : ~OfRun(t, o, i)
    BY <1>4, <2>10 DEF OfRun
  <2>15. ContentsOK(t, o)
    BY <2>14 DEF ContentsOK
  <2>16. Txs!Eoa => EoaPhase(t, o)
    BY <1>0, <1>1, <2>10, <2>14 DEF ThreadOK, EoaPhase
  <2>17. ~Txs!Eoa => SafePhase(t, o)
    BY <1>0, <1>1, <2>10, <2>14 DEF ThreadOK, SafePhase
  <2>18. MergesOK(o)
    <3>1. CASE p.task \notin {"merge", "merges"}
      <4>1. \A i \in DOMAIN p.calls : p.calls[i].kind # "merge"
        BY <1>0, <3>1 DEF ThreadOK, MergesOK
      <4>2. \A i \in DOMAIN a.calls : a.calls[i].kind # "merge"
        BY <2>4, <3>1 DEF AddsOK
      <4>3. \A i \in DOMAIN o.calls : o.calls[i].kind # "merge"
        BY <2>12, <4>1, <4>2
      <4>. QED  BY <2>10, <3>1, <4>3 DEF MergesOK
    <3>2. CASE p.task \in {"merge", "merges"}
      <4>1. PICK c \in TxCalls : /\ a.calls = <<c>> /\ c.kind = "merge"
                                 /\ a.id = <<c.m, Listing(c.m)>> /\ a.id \notin p.seen
        BY <2>4, <3>2 DEF AddsOK
      <4>2. /\ DOMAIN o.calls = 1..(Len(p.calls) + 1) /\ o.calls[Len(p.calls) + 1] = c
            /\ \A i \in DOMAIN o.calls : i # Len(p.calls) + 1 =>
                  i \in DOMAIN p.calls /\ o.calls[i] = p.calls[i]
        BY <2>6, <2>12, <4>1
      <4>3. \A i \in DOMAIN p.calls :
               /\ p.calls[i].kind = "merge"
               /\ <<p.calls[i].m, Listing(p.calls[i].m)>> \in p.seen
        BY <1>0, <3>2 DEF ThreadOK, MergesOK
      <4>4. \A i \in DOMAIN p.calls : p.calls[i].m # c.m
        BY <4>1, <4>3
      <4>5. \A i, j \in DOMAIN p.calls : i # j => p.calls[i].m # p.calls[j].m
        BY <1>0, <4>3 DEF ThreadOK, MergesOK
      <4>6. \A i, j \in DOMAIN o.calls : i # j => o.calls[i].m # o.calls[j].m
        BY <4>2, <4>4, <4>5
      <4>7. \A i \in DOMAIN o.calls : /\ o.calls[i].kind = "merge"
                                      /\ <<o.calls[i].m, Listing(o.calls[i].m)>> \in o.seen
        BY <2>10, <4>1, <4>2, <4>3
      <4>. QED  BY <2>10, <3>2, <4>6, <4>7 DEF MergesOK
    <3>. QED  BY <3>1, <3>2
  <2>19. SetupOK(o)
    <3>. SUFFICES ASSUME o.task = "setup", NEW s \in TxSpenders
                  PROVE  \/ \E i \in DOMAIN o.todo : o.todo[i] = s
                         \/ Granted(s)
                         \/ \E i \in DOMAIN o.calls :
                               o.calls[i].kind = "approve" /\ o.calls[i].m = s
      BY DEF SetupOK
    <3>0. p.task = "setup"
      BY <2>10
    <3>1. CASE \E i \in DOMAIN p.calls : p.calls[i].kind = "approve" /\ p.calls[i].m = s
      BY <2>12, <3>1
    <3>2. CASE Granted(s)
      BY <3>2
    <3>3. CASE \E i \in DOMAIN p.todo : p.todo[i] = s
      <4>1. PICK i \in DOMAIN p.todo : p.todo[i] = s
        BY <3>3
      <4>2. CASE i = 1
        <5>1. \/ s \in t_chain.approved
              \/ \E c \in TxCalls : a.calls = <<c>> /\ c.kind = "approve" /\ c.m = s
          BY <1>3, <2>4, <3>0, <4>1, <4>2 DEF AddsOK
        <5>2. CASE s \in t_chain.approved
          BY <5>2 DEF Granted
        <5>3. ASSUME NEW c \in TxCalls, a.calls = <<c>>, c.kind = "approve", c.m = s
              PROVE  \E k \in DOMAIN o.calls : o.calls[k].kind = "approve" /\ o.calls[k].m = s
          <6>1. 1 \in DOMAIN a.calls /\ a.calls[1] = c
            BY <5>3
          <6>2. Len(p.calls) + 1 \in DOMAIN o.calls /\ o.calls[Len(p.calls) + 1] = c
            BY <2>12, <6>1
          <6>. QED  BY <5>3, <6>2
        <5>. QED  BY <5>1, <5>2, <5>3
      <4>3. CASE i # 1
        <5>1. i \in 1..Len(p.todo) /\ Len(p.todo) \in Nat
          BY <1>3
        <5>2. o.todo \in Seq(TxItems)
          BY <2>9, OpFields
        <5>3. i - 1 \in DOMAIN o.todo /\ (i - 1) + 1 = i
          BY <2>11, <4>3, <5>1, <5>2
        <5>. QED  BY <2>11, <4>1, <5>3
      <4>. QED  BY <4>2, <4>3
    <3>. QED  BY <1>0, <3>0, <3>1, <3>2, <3>3 DEF ThreadOK, SetupOK
  <2>20. ReportOK(t, o)
    BY <2>10 DEF ReportOK
  <2>21. ThreadOK(t, o)
    BY <2>13, <2>15, <2>16, <2>17, <2>18, <2>19, <2>20 DEF ThreadOK
  <2>22. t_op[t].run <= o.run
    BY <1>0, <2>9, <2>10, OpFields
  <2>23. /\ t_lock' \in Threads \cup {"free"} /\ ((o.step \in Locking) <=> (t_lock' = t))
         /\ \A u \in Threads \ {t} : (t_lock' = u) <=> (t_lock = u)
    BY <1>0, <1>1, <2>10, LockStays DEF Locking
  <2>24. o.step # "send"
    BY <2>10
  <2>. QED  BY <1>1, <2>1, <2>9, <2>21, <2>22, <2>23, <2>24, QuietStep
<1>. QED  BY <1>5, <1>6

(* The node or the relayer has taken a transaction: the ones before it stay. *)
LEMMA AppendFacts ==
  ASSUME TxTypeOK, NEW x \in TxRecords, t_txs' = Append(t_txs, x)
  PROVE  /\ t_txs' \in Seq(TxRecords) /\ Len(t_txs) \in Nat /\ Len(t_txs') = Len(t_txs) + 1
         /\ \A i : (i \in DOMAIN t_txs') <=> (i \in DOMAIN t_txs \/ i = Len(t_txs) + 1)
         /\ \A i \in DOMAIN t_txs : t_txs'[i] = t_txs[i] /\ i # Len(t_txs) + 1 /\ i \in Nat
         /\ t_txs'[Len(t_txs) + 1] = x
BY DEF TxTypeOK

(* What depends on the operation alone. *)
LEMMA TodoPrimed ==
  ASSUME NEW u, NEW y, t_op'[u] = y, TodoOK(y)
  PROVE  TodoOK(t_op[u])'
BY DEF TodoOK

LEMMA MergesPrimed ==
  ASSUME SameWorld, NEW u, NEW y, MergesOK(y),
         t_op'[u].calls = y.calls, t_op'[u].task = y.task, t_op'[u].seen = y.seen
  PROVE  MergesOK(t_op[u])'
<1>1. \A m : Listing(m)' = Listing(m)
  BY DEF Listing, SameWorld
<1>. QED  BY <1>1 DEF MergesOK

(* A step in which the node or the relayer takes a transaction of the thread that holds
   the mutex: it is new to the operation, and next in the nonce sequence. *)
LEMMA AcceptStep ==
  ASSUME TxInv, SameWorld, t_chain' = t_chain,
         NEW t \in Threads, NEW x \in TxRecords, t_txs' = Append(t_txs, x),
         x.by = t, x.run = t_op[t].run, x.state = "pending", Len(x.calls) \in 1..2,
         \A i \in DOMAIN t_txs : OfRun(t, t_op[t], i) => t_txs[i].at # x.at,
         Txs!Eoa => /\ x.nonce = Len(t_txs) /\ x.hash = Len(t_txs) + 1
                    /\ x.at \in DOMAIN t_op[t].calls /\ x.calls = <<t_op[t].calls[x.at]>>
                    /\ \A j \in 1..(x.at - 1) : Landed(t, t_op[t], j),
         ~Txs!Eoa => /\ x.at = 1 /\ ~Txs!InFlight /\ x.nonce = Txs!Executed
                     /\ x.calls = t_op[t].calls,
         NEW o \in TxOps, t_op' = [t_op EXCEPT ![t] = o],
         o.calls = t_op[t].calls, o.run = t_op[t].run, o.task = t_op[t].task,
         o.todo = t_op[t].todo, o.seen = t_op[t].seen, o.step \notin {"send", "resolve"},
         TodoOK(o), ReportOK(t, t_op[t])',
         Txs!Eoa => EoaPhase(t, t_op[t])', ~Txs!Eoa => SafePhase(t, t_op[t])',
         t_lock = t, t_lock' = IF o.step \in Locking THEN t ELSE "free"
  PROVE  TxInv'
<1>0. TxTypeOK /\ TxsOK /\ "free" \notin Threads
  BY HttpAssumption DEF TxInv
<1>1. /\ t_txs' \in Seq(TxRecords) /\ Len(t_txs) \in Nat /\ Len(t_txs') = Len(t_txs) + 1
      /\ \A i : (i \in DOMAIN t_txs') <=> (i \in DOMAIN t_txs \/ i = Len(t_txs) + 1)
      /\ \A i \in DOMAIN t_txs : t_txs'[i] = t_txs[i] /\ i # Len(t_txs) + 1 /\ i \in Nat
      /\ t_txs'[Len(t_txs) + 1] = x
  BY <1>0, AppendFacts
<1>2. /\ t_op'[t] = o /\ \A u \in Threads \ {t} : t_op'[u] = t_op[u]
      /\ (Txs!Eoa)' <=> Txs!Eoa
  BY <1>0 DEF TxTypeOK, SameWorld, Txs!Eoa
<1>3. TxTypeOK'
  BY <1>0, <1>1 DEF TxTypeOK, SameWorld
<1>4. TxLocked'
  <2>1. \A u \in Threads \ {t} : t_op'[u].step \notin Locking
    BY <1>2 DEF TxInv, TxLocked, Locking
  <2>. QED  BY <1>0, <1>2, <2>1 DEF TxLocked, Locking
<1>5. NonceFresh'
  BY <1>2 DEF TxInv, TxLocked, NonceFresh
<1>6. \A s : Granted(s) => Granted(s)'
  BY <1>1 DEF Granted, Revoked
<1>7. RunsBegun'
  <2>. SUFFICES ASSUME NEW i \in DOMAIN t_txs' PROVE t_txs'[i].run <= t_op'[t_txs'[i].by].run
    BY DEF RunsBegun
  <2>1. \A u \in Threads : t_op'[u].run = t_op[u].run
    BY <1>2
  <2>2. CASE i \in DOMAIN t_txs
    <3>1. t_txs[i].by \in Threads /\ t_txs[i].run <= t_op[t_txs[i].by].run
      BY <1>0, <2>2, TxFields DEF TxsOK, RunsBegun
    <3>. QED  BY <1>1, <2>1, <2>2, <3>1
  <2>3. CASE i = Len(t_txs) + 1
    <3>1. t_op[t] \in TxOps
      BY <1>0 DEF TxTypeOK
    <3>. QED  BY <1>1, <2>1, <2>3, <3>1, OpFields
  <2>. QED  BY <1>1, <2>2, <2>3
<1>8. OneEach'
  BY <1>0, <1>1 DEF TxsOK, OneEach, OfRun
<1>9. FewCalls'
  BY <1>0, <1>1 DEF TxsOK, FewCalls
<1>10. GrantsKept'
  BY <1>0, <1>1, <1>6 DEF TxsOK, GrantsKept
<1>11. ASSUME Txs!Eoa PROVE EoaTxs'
  <2>1. \A i \in DOMAIN t_txs' : t_txs'[i].nonce = i - 1 /\ t_txs'[i].hash = i
    BY <1>0, <1>1, <1>11 DEF TxsOK, EoaTxs
  <2>2. Txs!BatchInOrder'
    <3>. SUFFICES ASSUME NEW i \in DOMAIN t_txs', NEW j \in 1..(t_txs'[i].at - 1)
                  PROVE  \E k \in DOMAIN t_txs' :
                            /\ t_txs'[k].by = t_txs'[i].by /\ t_txs'[k].run = t_txs'[i].run
                            /\ t_txs'[k].at = j /\ t_txs'[k].state = "ok"
      BY DEF Txs!BatchInOrder
    <3>1. CASE i \in DOMAIN t_txs
      <4>1. PICK k \in DOMAIN t_txs :
               /\ t_txs[k].by = t_txs[i].by /\ t_txs[k].run = t_txs[i].run
               /\ t_txs[k].at = j /\ t_txs[k].state = "ok"
        BY <1>0, <1>1, <1>11, <3>1 DEF TxsOK, EoaTxs, Txs!BatchInOrder
      <4>. QED  BY <1>1, <3>1, <4>1
    <3>2. CASE i = Len(t_txs) + 1
      <4>1. Landed(t, t_op[t], j)
        BY <1>1, <1>11, <3>2
      <4>. QED  BY <1>1, <3>2, <4>1 DEF Landed, OfRun
    <3>. QED  BY <1>1, <3>1, <3>2
  <2>. QED  BY <2>1, <2>2 DEF EoaTxs
<1>12. Txs!Executed' = Txs!Executed
  <2>1. {i \in DOMAIN t_txs' : t_txs'[i].state = "ok"}
           = {i \in DOMAIN t_txs : t_txs[i].state = "ok"}
    BY <1>1
  <2>. QED  BY <2>1 DEF Txs!Executed
<1>13. ASSUME ~Txs!Eoa PROVE SafeTxs'
  <2>1. \A i \in DOMAIN t_txs : t_txs[i].state # "pending"
    BY <1>13 DEF Txs!InFlight
  <2>2. Txs!Executed \in Nat
    BY <1>0, ExecutedNat
  <2>. QED  BY <1>0, <1>1, <1>12, <1>13, <2>1, <2>2 DEF TxsOK, SafeTxs
<1>14. TxsOK'
  BY <1>2, <1>7, <1>8, <1>9, <1>10, <1>11, <1>13 DEF TxsOK
<1>15. ASSUME NEW u \in Threads \ {t} PROVE ThreadOK(u, t_op[u])'
  <2>1. PICK y : y = t_op'[u] /\ ThreadOK(u, y) /\ y = t_op[u]
    BY <1>2 DEF TxInv
  <2>2. \A i \in DOMAIN t_txs' : OfRun(u, t_op[u], i)' => i \in DOMAIN t_txs /\ OfRun(u, y, i)
    BY <1>1, <2>1 DEF OfRun
  <2>3. \A i \in DOMAIN t_txs : OfRun(u, y, i) => OfRun(u, t_op[u], i)'
    BY <1>1, <2>1 DEF OfRun
  <2>4. \A j : Landed(u, y, j) => Landed(u, t_op[u], j)'
    BY <1>1, <2>1 DEF Landed, OfRun
  <2>5. TodoOK(t_op[u])' /\ MergesOK(t_op[u])'
    <3>1. TodoOK(y) /\ MergesOK(y)
      BY <2>1 DEF ThreadOK
    <3>. QED  BY <2>1, <3>1, TodoPrimed, MergesPrimed
  <2>6. ContentsOK(u, t_op[u])'
    BY <1>1, <1>2, <2>1, <2>2 DEF ThreadOK, ContentsOK
  <2>7. SetupOK(t_op[u])'
    BY <1>6, <2>1 DEF ThreadOK, SetupOK
  <2>8. ReportOK(u, t_op[u])'
    BY <1>1, <1>2, <2>1, <2>2, <2>3, <2>4 DEF ThreadOK, ReportOK
  <2>9. Txs!Eoa => EoaPhase(u, t_op[u])'
    <3>1. y.id \in DOMAIN t_txs /\ OfRun(u, y, y.id) => OfRun(u, t_op[u], t_op[u].id)'
      BY <1>1, <2>1 DEF OfRun
    <3>. QED  BY <1>1, <1>2, <2>1, <2>2, <2>4, <3>1 DEF ThreadOK, EoaPhase
  <2>10. ~Txs!Eoa => SafePhase(u, t_op[u])'
    <3>1. y.id \in DOMAIN t_txs /\ OfRun(u, y, y.id) => OfRun(u, t_op[u], t_op[u].id)'
      BY <1>1, <2>1 DEF OfRun
    <3>. QED  BY <1>1, <1>2, <2>1, <2>2, <2>3, <3>1 DEF ThreadOK, SafePhase
  <2>. QED  BY <1>2, <2>5, <2>6, <2>7, <2>8, <2>9, <2>10 DEF ThreadOK
<1>16. ThreadOK(t, t_op[t])'
  <2>1. PICK p : p = t_op[t] /\ ThreadOK(t, p)
    BY DEF TxInv
  <2>2. TodoOK(t_op[t])'
    <3>1. t_op'[t] = o
      BY <1>2
    <3>. QED  BY <3>1, TodoPrimed
  <2>3. MergesOK(t_op[t])'
    <3>1. MergesOK(p) /\ t_op'[t] = o /\ o.calls = p.calls /\ o.task = p.task /\ o.seen = p.seen
      BY <1>2, <2>1 DEF ThreadOK
    <3>. QED  BY <3>1, MergesPrimed
  <2>4. SetupOK(t_op[t])'
    BY <1>2, <1>6, <2>1 DEF ThreadOK, SetupOK
  <2>5. ContentsOK(t, t_op[t])'
    <3>. SUFFICES ASSUME NEW i \in DOMAIN t_txs', t_txs'[i].by = t, t_txs'[i].run = o.run
                  PROVE  IF Txs!Eoa THEN /\ t_txs'[i].at \in DOMAIN o.calls
                                         /\ t_txs'[i].calls = <<o.calls[t_txs'[i].at]>>
                         ELSE t_txs'[i].calls = o.calls
      BY <1>2 DEF ContentsOK, OfRun
    <3>1. CASE i \in DOMAIN t_txs
      <4>1. OfRun(t, p, i) /\ t_txs'[i] = t_txs[i]
        BY <1>1, <2>1, <3>1 DEF OfRun
      <4>. QED  BY <2>1, <3>1, <4>1 DEF ThreadOK, ContentsOK
    <3>2. CASE i = Len(t_txs) + 1
      BY <1>1, <3>2
    <3>. QED  BY <1>1, <3>1, <3>2
  <2>. QED  BY <1>2, <2>2, <2>3, <2>4, <2>5 DEF ThreadOK
<1>. QED  BY <1>3, <1>4, <1>5, <1>14, <1>15, <1>16 DEF TxInv

(* A thread that is broadcasting or submitting holds the mutex, and has no transaction yet
   for the call it sends. *)
LEMMA SendingFacts ==
  ASSUME TxInv, NEW t \in Threads, NEW p \in TxOps, p = t_op[t], p.step \in {"send", "submit"}
  PROVE  /\ t_lock = t /\ p.todo = <<>> /\ p.calls # <<>> /\ Len(p.calls) \in 1..2
         /\ p.step = "send" => /\ Len(p.sent) + 1 \in DOMAIN p.calls /\ p.nonce = Len(t_txs)
                               /\ Txs!Eoa /\ \A j \in 1..Len(p.sent) : Landed(t, p, j)
                               /\ \A i \in DOMAIN t_txs :
                                      OfRun(t, p, i) => t_txs[i].at <= Len(p.sent)
         /\ p.step = "submit" => /\ ~Txs!Eoa /\ p.sent = <<>>
                                 /\ \A i \in DOMAIN t_txs : ~OfRun(t, p, i)
<1>1. ThreadOK(t, p) /\ (Txs!Eoa => EoaPhase(t, p)) /\ (~Txs!Eoa => SafePhase(t, p)) /\ TodoOK(p)
  BY DEF TxInv, ThreadOK
<1>2. t_lock = t
  BY DEF TxInv, TxLocked
<1>3. p.todo = <<>> /\ p.calls # <<>>
  BY <1>1 DEF TodoOK
<1>4. p.calls \in Seq(TxCalls) /\ Len(p.calls) \in Nat /\ Len(p.sent) \in Nat
  BY OpFields
<1>5. Len(p.calls) \in 1..2
  <2>1. Len(p.todo) = 0
    BY <1>3
  <2>2. Len(p.calls) <= 2
    BY <1>1, <1>4, <2>1 DEF TodoOK
  <2>3. \A q \in Seq(TxCalls) : q # <<>> => Len(q) # 0
    OBVIOUS
  <2>4. Len(p.calls) # 0
    BY <1>3, <1>4, <2>3
  <2>5. PICK n \in Nat : n = Len(p.calls)
    BY <1>4
  <2>6. n <= 2 /\ n # 0
    BY <2>2, <2>4, <2>5
  <2>7. n \in 1..2
    BY <2>6
  <2>. QED  BY <2>5, <2>7
<1>6. ASSUME p.step = "send"
      PROVE  /\ Len(p.sent) + 1 \in DOMAIN p.calls /\ p.nonce = Len(t_txs)
             /\ Txs!Eoa /\ \A j \in 1..Len(p.sent) : Landed(t, p, j)
             /\ \A i \in DOMAIN t_txs : OfRun(t, p, i) => t_txs[i].at <= Len(p.sent)
  <2>1. Txs!Eoa
    BY <1>1, <1>6 DEF SafePhase
  <2>2. Len(p.sent) < Len(p.calls)
    BY <1>1, <1>6, <2>1 DEF EoaPhase
  <2>3. p.nonce = Len(t_txs)
    BY <1>6, <2>1 DEF TxInv, NonceFresh
  <2>4. Len(p.sent) + 1 \in DOMAIN p.calls
    BY <1>4, <2>2
  <2>. QED  BY <1>1, <1>6, <2>1, <2>3, <2>4 DEF EoaPhase
<1>7. ASSUME p.step = "submit"
      PROVE  ~Txs!Eoa /\ p.sent = <<>> /\ \A i \in DOMAIN t_txs : ~OfRun(t, p, i)
  BY <1>1, <1>7 DEF EoaPhase, SafePhase
<1>. QED  BY <1>2, <1>3, <1>5, <1>6, <1>7

(* An EOA's call is taken, or refused; either way the answer may be lost. *)
LEMMA TxBroadcast ==
  ASSUME TxInv, NEW t \in Threads, Txs!Broadcast(t)
  PROVE  TxInv'
<1>0. PICK p \in TxOps : p = t_op[t] /\ ThreadOK(t, p)
  BY DEF TxInv, TxTypeOK
<1>1. p.step = "send" /\ t_chain' = t_chain
  BY <1>0 DEF Txs!Broadcast
<1>2. /\ t_lock = t /\ p.todo = <<>> /\ p.calls # <<>>
      /\ Len(p.sent) + 1 \in DOMAIN p.calls /\ p.nonce = Len(t_txs) /\ Txs!Eoa
      /\ \A j \in 1..Len(p.sent) : Landed(t, p, j)
      /\ \A i \in DOMAIN t_txs : OfRun(t, p, i) => t_txs[i].at <= Len(p.sent)
  BY <1>0, <1>1, SendingFacts
<1>3. /\ p.calls \in Seq(TxCalls) /\ Len(p.sent) \in Nat /\ p.sent \in Seq(Nat) /\ p.run \in Nat
      /\ p.nonce \in Nat /\ Len(t_txs) \in Nat
  BY OpFields DEF TxInv, TxTypeOK
<1> DEFINE c == p.calls[Len(p.sent) + 1]
           h == Len(t_txs) + 1
           x == [by |-> t, run |-> p.run, at |-> Len(p.sent) + 1, calls |-> <<c>>,
                 nonce |-> p.nonce, hash |-> h, state |-> "pending"]
<1>4. c \in TxCalls
  BY <1>2, <1>3
<1>5. x \in TxRecords
  <2>. HIDE DEF c
  <2>1. <<c>> \in Seq(TxCalls) /\ "pending" \in TxStates
    BY <1>4 DEF TxStates
  <2>. QED  BY <1>3, <2>1 DEF TxRecords
<1>6. /\ x.by = t /\ x.run = p.run /\ x.at = Len(p.sent) + 1 /\ x.calls = <<c>>
      /\ x.nonce = Len(t_txs) /\ x.hash = h /\ x.state = "pending" /\ Len(x.calls) = 1
  BY <1>2
<1>7. Txs!Accept(t, <<Txs!NextCall(t)>>, t_op[t].nonce, h) => t_txs' = Append(t_txs, x)
  BY <1>0 DEF Txs!Accept, Txs!NextCall
<1>. HIDE DEF c, x
<1>8. /\ x.at \in DOMAIN p.calls /\ x.calls = <<p.calls[x.at]>> /\ Len(x.calls) \in 1..2
      /\ \A j \in 1..(x.at - 1) : Landed(t, p, j)
      /\ \A i \in DOMAIN t_txs : OfRun(t, p, i) => t_txs[i].at # x.at
  <2>1. x.at - 1 = Len(p.sent)
    BY <1>3, <1>6
  <2>2. \A i \in DOMAIN t_txs : t_txs[i].at \in Nat
    BY TxFields DEF TxInv
  <2>3. \A i \in DOMAIN t_txs : OfRun(t, p, i) => t_txs[i].at # x.at
    BY <1>2, <1>3, <1>6, <2>2
  <2>4. \A j \in 1..(x.at - 1) : Landed(t, p, j)
    BY <1>2, <2>1
  <2>5. x.at \in DOMAIN p.calls /\ x.calls = <<p.calls[x.at]>>
    BY <1>2, <1>6 DEF c
  <2>. QED  BY <1>6, <2>3, <2>4, <2>5
<1>9. ASSUME t_txs' = Append(t_txs, x)
      PROVE  /\ h \in DOMAIN t_txs' /\ t_txs'[h] = x
             /\ \A i \in DOMAIN t_txs' : i \in DOMAIN t_txs \/ i = h
             /\ \A i \in DOMAIN t_txs : i \in DOMAIN t_txs' /\ t_txs'[i] = t_txs[i]
  BY <1>5, <1>9, AppendFacts DEF TxInv
<1>10. ASSUME SameWorld, UNCHANGED t_txs, t_op' = [t_op EXCEPT ![t] = Txs!Thrown(t_op[t])],
              t_lock' = "free"
       PROVE  TxInv'
  BY <1>1, <1>2, <1>10, ThrowStep
<1>11. ASSUME SameWorld, t_txs' = Append(t_txs, x), t_lock' = "free",
              t_op' = [t_op EXCEPT ![t] = Txs!Thrown(t_op[t])]
       PROVE  TxInv'
  <2>1. PICK r \in {"partial", "error"} : Txs!Thrown(p) = Txs!Ends(p, r, 0)
    BY DEF Txs!Thrown
  <2> DEFINE o == [p EXCEPT !.step = "idle", !.result = r, !.names = 0]
  <2>2. o = Txs!Thrown(p)
    BY <2>1 DEF Txs!Ends
  <2>3. r \in TxResults
    BY DEF TxResults
  <2>4. o \in TxOps /\ o.step = "idle" /\ SameCalls(o, p) /\ o.result = r
    BY <2>3 DEF TxOps, TxSteps, SameCalls
  <2>5. t_op' = [t_op EXCEPT ![t] = o]
    BY <1>0, <1>11, <2>2
  <2>. HIDE DEF o
  <2>6. t_op'[t] = o
    BY <2>5 DEF TxInv, TxTypeOK
  <2>7. TodoOK(o)
    BY <1>0, <2>4 DEF ThreadOK, TodoOK, SameCalls
  <2>8. ReportOK(t, t_op[t])'
    BY <2>4, <2>6 DEF ReportOK
  <2>9. EoaPhase(t, t_op[t])'
    <3>1. \A i \in DOMAIN t_txs' : t_txs'[i].by = t /\ t_txs'[i].run = o.run
             => t_txs'[i].at <= Len(o.sent) + 1
      <4>. SUFFICES ASSUME NEW i \in DOMAIN t_txs', t_txs'[i].by = t, t_txs'[i].run = o.run
                    PROVE  t_txs'[i].at <= Len(p.sent) + 1
        BY <2>4 DEF SameCalls
      <4>1. CASE i \in DOMAIN t_txs
        <5>1. OfRun(t, p, i) /\ t_txs'[i] = t_txs[i] /\ t_txs[i].at \in Nat
          BY <1>9, <1>11, <2>4, <4>1, TxFields DEF OfRun, SameCalls, TxInv
        <5>2. t_txs[i].at <= Len(p.sent)
          BY <1>2, <4>1, <5>1
        <5>. QED  BY <1>3, <5>1, <5>2
      <4>2. CASE i = h
        BY <1>3, <1>6, <1>9, <1>11, <4>2
      <4>. QED  BY <1>9, <1>11, <4>1, <4>2
    <3>. QED  BY <2>4, <2>6, <3>1 DEF EoaPhase, OfRun
  <2>10. t_lock' = IF o.step \in Locking THEN t ELSE "free"
    BY <1>11, <2>4 DEF Locking
  <2>11. o.step \notin {"send", "resolve"}
    BY <2>4
  <2>12. /\ o.calls = p.calls /\ o.run = p.run /\ o.task = p.task /\ o.todo = p.todo
         /\ o.seen = p.seen
    BY <2>4 DEF SameCalls
  <2>. QED  BY <1>0, <1>1, <1>2, <1>5, <1>6, <1>8, <1>11, <2>4, <2>5, <2>7, <2>8, <2>9, <2>10,
               <2>11, <2>12, AcceptStep
<1>12. ASSUME SameWorld, t_txs' = Append(t_txs, x),
              t_op' = [t_op EXCEPT ![t] = Txs!Sent(t_op[t], h)],
              t_lock' = IF Len(p.sent) + 1 = Len(p.calls) THEN "free" ELSE t_lock
       PROVE  TxInv'
  <2>1. PICK o : o = Txs!Sent(p, h)
    OBVIOUS
  <2>2. Append(p.sent, h) \in Seq(Nat) /\ Len(Append(p.sent, h)) = Len(p.sent) + 1
    BY <1>3
  <2>3. PICK s \in {"landing", "handle"} :
           /\ o = [p EXCEPT !.sent = Append(p.sent, h), !.id = h, !.late = FALSE, !.step = s]
           /\ s = "landing" <=> Len(p.sent) + 1 < Len(p.calls)
    <3>1. PICK q \in Seq(Nat) : q = Append(p.sent, h) /\ Len(q) = Len(p.sent) + 1
      BY <2>2
    <3> DEFINE e == [p EXCEPT !.sent = q, !.id = h, !.late = FALSE]
    <3>2. o = IF Len(e.sent) < Len(e.calls) THEN [e EXCEPT !.step = "landing"]
              ELSE [e EXCEPT !.step = "handle"]
      BY <2>1, <3>1 DEF Txs!Sent
    <3>3. e.sent = q /\ e.calls = p.calls
      BY DEF TxOps
    <3>4. \A s : [e EXCEPT !.step = s] =
                   [p EXCEPT !.sent = q, !.id = h, !.late = FALSE, !.step = s]
      BY DEF TxOps
    <3>. HIDE DEF e
    <3>5. CASE Len(q) < Len(p.calls)
      BY <3>1, <3>2, <3>3, <3>4, <3>5
    <3>6. CASE ~(Len(q) < Len(p.calls))
      BY <3>1, <3>2, <3>3, <3>4, <3>6
    <3>. QED  BY <3>5, <3>6
  <2>4. /\ o \in TxOps /\ o.step = s /\ o.calls = p.calls /\ o.run = p.run /\ o.task = p.task
        /\ o.todo = p.todo /\ o.seen = p.seen /\ o.sent = Append(p.sent, h) /\ o.id = h
    <3>1. PICK q \in Seq(Nat) : q = Append(p.sent, h)
      BY <2>2
    <3>2. s \in TxSteps /\ h \in Nat
      BY <1>3 DEF TxSteps
    <3>. QED  BY <2>3, <3>1, <3>2 DEF TxOps
  <2>5. t_op' = [t_op EXCEPT ![t] = o]
    BY <1>0, <1>12, <2>1
  <2>6. t_op'[t] = o
    BY <2>5 DEF TxInv, TxTypeOK
  <2>7. Len(o.sent) = Len(p.sent) + 1
    BY <2>2, <2>4
  <2>8. TodoOK(o)
    BY <1>0, <1>1, <2>4 DEF ThreadOK, TodoOK
  <2>9. ReportOK(t, t_op[t])'
    BY <2>4, <2>6 DEF ReportOK
  <2>10. \A i \in DOMAIN t_txs' : t_txs'[i].by = t /\ t_txs'[i].run = o.run
             => t_txs'[i].at <= Len(o.sent) /\ t_txs'[i].at <= Len(o.sent) + 1
    <3>. SUFFICES ASSUME NEW i \in DOMAIN t_txs', t_txs'[i].by = t, t_txs'[i].run = o.run
                  PROVE  t_txs'[i].at <= Len(p.sent) + 1 /\ t_txs'[i].at <= (Len(p.sent) + 1) + 1
      BY <2>7
    <3>1. CASE i \in DOMAIN t_txs
      <4>1. OfRun(t, p, i) /\ t_txs'[i] = t_txs[i] /\ t_txs[i].at \in Nat
        BY <1>9, <1>12, <2>4, <3>1, TxFields DEF OfRun, TxInv
      <4>2. t_txs[i].at <= Len(p.sent)
        BY <1>2, <3>1, <4>1
      <4>. QED  BY <1>3, <4>1, <4>2
    <3>2. CASE i = h
      BY <1>3, <1>6, <1>9, <1>12, <3>2
    <3>. QED  BY <1>9, <1>12, <3>1, <3>2
  <2>11. \A j \in 1..Len(p.sent) : Landed(t, t_op[t], j)'
    <3>. SUFFICES ASSUME NEW j \in 1..Len(p.sent)
                  PROVE  \E k \in DOMAIN t_txs' : /\ t_txs'[k].by = t /\ t_txs'[k].run = o.run
                                                  /\ t_txs'[k].at = j /\ t_txs'[k].state = "ok"
      BY <2>6 DEF Landed, OfRun
    <3>1. PICK k \in DOMAIN t_txs : OfRun(t, p, k) /\ t_txs[k].at = j /\ t_txs[k].state = "ok"
      BY <1>2 DEF Landed
    <3>. QED  BY <1>9, <1>12, <2>4, <3>1 DEF OfRun
  <2>12. /\ h \in DOMAIN t_txs' /\ t_txs'[h].by = t /\ t_txs'[h].run = o.run
         /\ t_txs'[h].at = Len(o.sent)
    BY <1>6, <1>9, <1>12, <2>4, <2>7
  <2>13. Len(p.calls) \in Nat /\ Len(p.sent) + 1 <= Len(p.calls) /\ Len(o.sent) - 1 = Len(p.sent)
    BY <1>2, <1>3, <2>7
  <2>14. /\ s = "landing" => Len(o.sent) < Len(o.calls)
         /\ s = "handle" => Len(o.sent) = Len(o.calls)
    BY <1>3, <2>3, <2>4, <2>7, <2>13
  <2>15. EoaPhase(t, t_op[t])'
    BY <2>4, <2>6, <2>10, <2>11, <2>12, <2>13, <2>14 DEF EoaPhase, OfRun
  <2>16. t_lock' = IF o.step \in Locking THEN t ELSE "free"
    BY <1>2, <1>3, <1>12, <2>3, <2>4, <2>13 DEF Locking
  <2>17. o.step \notin {"send", "resolve"}
    BY <2>4
  <2>. QED  BY <1>0, <1>1, <1>2, <1>5, <1>6, <1>8, <1>12, <2>4, <2>5, <2>8, <2>9, <2>15, <2>16,
               <2>17, AcceptStep
<1>13. \/ /\ Txs!Accept(t, <<Txs!NextCall(t)>>, t_op[t].nonce, h)
          /\ t_op' = [t_op EXCEPT ![t] = Txs!Sent(t_op[t], h)]
          /\ t_lock' = IF Len(p.sent) + 1 = Len(p.calls) THEN "free" ELSE t_lock
          /\ budget' = budget
       \/ /\ \/ Txs!Accept(t, <<Txs!NextCall(t)>>, t_op[t].nonce, h)
             \/ UNCHANGED t_txs
          /\ Txs!Spend("faults") /\ t_op' = [t_op EXCEPT ![t] = Txs!Thrown(t_op[t])]
          /\ t_lock' = "free"
  BY <1>0 DEF Txs!Broadcast, Txs!Goes, Txs!Free
<1>14. (budget' = budget => SameWorld) /\ (Txs!Spend("faults") => SameWorld)
  BY TxSpend DEF TxInv
<1>. QED  BY <1>7, <1>10, <1>11, <1>12, <1>13, <1>14

(* A submission the relayer has taken, whether its answer came or not. *)
LEMMA SafeTaken ==
  ASSUME TxInv, SameWorld, t_chain' = t_chain, NEW t \in Threads, NEW p \in TxOps, p = t_op[t],
         p.step = "submit", Txs!Takes(t, Txs!Payload(p)), t_lock' = "free",
         NEW o \in TxOps, t_op' = [t_op EXCEPT ![t] = o],
         o.calls = p.calls, o.run = p.run, o.task = p.task, o.todo = p.todo, o.seen = p.seen,
         \/ o.step = "handle" /\ o.id = Len(t_txs) + 1
         \/ o.step = "idle" /\ o.result \in {"error", "partial"}
  PROVE  TxInv'
<1>1. /\ t_lock = t /\ p.todo = <<>> /\ p.calls # <<>> /\ Len(p.calls) \in 1..2
      /\ ~Txs!Eoa /\ p.sent = <<>> /\ \A i \in DOMAIN t_txs : ~OfRun(t, p, i)
  BY SendingFacts
<1>2. /\ p.calls \in Seq(TxCalls) /\ p.run \in Nat /\ p.nonce \in Nat /\ Len(t_txs) \in Nat
  BY OpFields DEF TxInv, TxTypeOK
<1>3. /\ ~Txs!InFlight /\ p.nonce = Txs!Executed
      /\ \E hash \in {0, 10 * (Len(t_txs) + 1)} : Txs!Accept(t, p.calls, p.nonce, hash)
  BY DEF Txs!Takes, Txs!Payload, Txs!SafeCall
<1>4. PICK hash \in {0, 10 * (Len(t_txs) + 1)} : Txs!Accept(t, p.calls, p.nonce, hash)
  BY <1>3
<1> DEFINE x == [by |-> t, run |-> p.run, at |-> Len(p.sent) + 1, calls |-> p.calls,
                 nonce |-> p.nonce, hash |-> hash, state |-> "pending"]
<1>5. Len(p.sent) + 1 = 1 /\ hash \in Nat
  BY <1>1, <1>2
<1>6. t_txs' = Append(t_txs, x)
  BY <1>4 DEF Txs!Accept
<1>7. x \in TxRecords
  <2>1. PICK n : n = Len(p.sent) + 1 /\ n = 1
    BY <1>5
  <2>2. n \in Nat \ {0} /\ "pending" \in TxStates
    BY <2>1 DEF TxStates
  <2>. QED  BY <1>2, <1>5, <2>1, <2>2 DEF TxRecords
<1>8. /\ x.by = t /\ x.run = p.run /\ x.at = 1 /\ x.calls = p.calls
      /\ x.nonce = p.nonce /\ x.state = "pending"
  BY <1>5
<1>. HIDE DEF x
<1>9. /\ Len(t_txs) + 1 \in DOMAIN t_txs' /\ t_txs'[Len(t_txs) + 1] = x
  BY <1>6, <1>7, AppendFacts DEF TxInv
<1>10. t_op'[t] = o
  BY DEF TxInv, TxTypeOK
<1>11. TodoOK(o)
  <2>1. TodoOK(p)
    BY DEF TxInv, ThreadOK
  <2>. QED  BY <1>1, <2>1 DEF TodoOK
<1>12. ReportOK(t, t_op[t])'
  BY <1>10 DEF ReportOK
<1>13. SafePhase(t, t_op[t])'
  BY <1>8, <1>9, <1>10 DEF SafePhase, OfRun
<1>14. t_lock' = IF o.step \in Locking THEN t ELSE "free"
  BY DEF Locking
<1>15. o.step \notin {"send", "resolve"} /\ Len(x.calls) \in 1..2
  BY <1>1, <1>8
<1>16. \A i \in DOMAIN t_txs : OfRun(t, t_op[t], i) => t_txs[i].at # x.at
  BY <1>1
<1>. QED  BY <1>1, <1>3, <1>6, <1>7, <1>8, <1>11, <1>12, <1>13, <1>14, <1>15, <1>16, AcceptStep

(* An attempt to submit: taken, tried again only when it was not, or given up. *)
LEMMA TxSubmit ==
  ASSUME TxInv, NEW t \in Threads, Txs!Submit(t)
  PROVE  TxInv'
<1>0. PICK p \in TxOps : p = t_op[t] /\ ThreadOK(t, p)
  BY DEF TxInv, TxTypeOK
<1>1. p.step = "submit" /\ t_chain' = t_chain /\ ~Txs!Eoa
  BY <1>0 DEF Txs!Submit
<1>2. /\ t_lock = t /\ p.todo = <<>> /\ p.sent = <<>>
      /\ \A i \in DOMAIN t_txs : ~OfRun(t, p, i)
  BY <1>0, <1>1, SendingFacts
<1>3. PICK answer \in {"taken", "busy", "mismatch", "limited", "lost"} :
         /\ Txs!Answers(t, answer)
         /\ IF answer = "taken"
            THEN Txs!Goes(t, [t_op[t] EXCEPT !.step = "handle", !.id = Len(t_txs) + 1,
                              !.late = FALSE,
                             !.sent = IF t_txs'[Len(t_txs) + 1].hash = 0 THEN <<>>
                                      ELSE <<t_txs'[Len(t_txs) + 1].hash>>])
                 /\ t_lock' = Txs!Free
            ELSE IF Txs!Retryable(answer, t_op[t].nonce) /\ t_op[t].tries < MaxTries
            THEN Txs!Goes(t, [t_op[t] EXCEPT !.step = "nonce", !.tries = @ + 1]) /\ t_lock' = t_lock
            ELSE Txs!Goes(t, Txs!Thrown(t_op[t])) /\ t_lock' = Txs!Free
  BY Zenon DEF Txs!Submit
<1>4. CASE answer = "taken"
  <2>1. Txs!Takes(t, Txs!Payload(p)) /\ SameWorld
    BY <1>0, <1>3, <1>4, TxSpend DEF TxInv, Txs!Answers
  <2>2. Len(t_txs) + 1 \in Nat
    BY DEF TxInv, TxTypeOK
  <2>3. PICK hash \in Nat : t_txs'[Len(t_txs) + 1].hash = hash
    <3>1. PICK hash \in {0, 10 * (Len(t_txs) + 1)} :
              Txs!Accept(t, Txs!Payload(p).calls, Txs!Payload(p).nonce, hash)
      BY <2>1 DEF Txs!Takes
    <3>2. hash \in Nat
      BY <2>2
    <3>3. t_txs \in Seq(TxRecords)
      BY DEF TxInv, TxTypeOK
    <3>4. PICK x : t_txs' = Append(t_txs, x) /\ x.hash = hash
      BY <3>1 DEF Txs!Accept
    <3>5. t_txs'[Len(t_txs) + 1] = x
      BY <3>3, <3>4
    <3>. QED  BY <3>2, <3>4, <3>5
  <2> DEFINE q == IF hash = 0 THEN <<>> ELSE <<hash>>
             o == [p EXCEPT !.step = "handle", !.id = Len(t_txs) + 1, !.late = FALSE, !.sent = q]
  <2>4. q \in Seq(Nat)
    OBVIOUS
  <2>5. t_op' = [t_op EXCEPT ![t] = o] /\ t_lock' = "free"
    BY <1>0, <1>3, <1>4, <2>3 DEF Txs!Goes, Txs!Free
  <2>. HIDE DEF q
  <2>6. /\ o \in TxOps /\ o.calls = p.calls /\ o.run = p.run /\ o.task = p.task
        /\ o.todo = p.todo /\ o.seen = p.seen /\ o.step = "handle" /\ o.id = Len(t_txs) + 1
    BY <2>2, <2>4 DEF TxOps, TxSteps
  <2>. HIDE DEF o
  <2>. QED  BY <1>0, <1>1, <2>1, <2>5, <2>6, SafeTaken
<1>5. /\ SameWorld
      /\ t_txs' = t_txs \/ (answer \in {"taken", "lost"} /\ Txs!Takes(t, Txs!Payload(p)))
  <2>1. TxTypeOK
    BY DEF TxInv
  <2>2. CASE answer = "taken"
    BY <1>0, <1>3, <2>1, <2>2, TxSpend DEF Txs!Answers
  <2>3. CASE answer = "busy"
    BY <1>3, <2>1, <2>3, TxSpend DEF Txs!Answers
  <2>4. CASE answer = "mismatch"
    BY <1>3, <2>1, <2>4, TxSpend DEF Txs!Answers
  <2>5. CASE answer = "limited"
    BY <1>3, <2>1, <2>5, TxSpend DEF Txs!Answers
  <2>6. CASE answer = "lost"
    BY <1>0, <1>3, <2>1, <2>6, TxSpend DEF Txs!Answers
  <2>. QED  BY <2>2, <2>3, <2>4, <2>5, <2>6
<1>6. CASE answer # "taken" /\ Txs!Retryable(answer, t_op[t].nonce) /\ t_op[t].tries < MaxTries
  <2> DEFINE o == [p EXCEPT !.step = "nonce", !.tries = @ + 1]
  <2>1. t_op' = [t_op EXCEPT ![t] = o] /\ t_lock' = t_lock
    BY <1>0, <1>3, <1>6 DEF Txs!Goes
  <2>2. t_txs' = t_txs
    BY <1>5, <1>6 DEF Txs!Retryable
  <2>3. p.tries + 1 \in Nat
    BY OpFields
  <2>4. o \in TxOps /\ o.step = "nonce" /\ SameCalls(o, t_op[t]) /\ SameCalls(o, p)
    BY <1>0, <2>3 DEF TxOps, TxSteps, SameCalls
  <2>. HIDE DEF o
  <2>5. TodoOK(o)
    BY <1>0, <1>1, <2>4 DEF ThreadOK, TodoOK, SameCalls
  <2>6. SafePhase(t, o)
    BY <1>0, <1>1, <2>4 DEF ThreadOK, SafePhase, SameCalls, OfRun
  <2>7. /\ t_lock' \in Threads \cup {"free"} /\ ((o.step \in Locking) <=> (t_lock' = t))
        /\ \A u \in Threads \ {t} : (t_lock' = u) <=> (t_lock = u)
    BY <1>0, <1>1, <2>1, <2>4, LockStays DEF Locking
  <2>8. o.step # "idle" /\ t_op' = [t_op EXCEPT ![t] = o]
    BY <2>1, <2>4
  <2>. QED  BY <1>1, <1>5, <2>2, <2>4, <2>5, <2>6, <2>7, <2>8, MoveStep
<1>7. CASE answer # "taken" /\ ~(Txs!Retryable(answer, t_op[t].nonce) /\ t_op[t].tries < MaxTries)
  <2>1. t_op' = [t_op EXCEPT ![t] = Txs!Thrown(t_op[t])] /\ t_lock' = "free"
    BY <1>3, <1>7 DEF Txs!Goes, Txs!Free
  <2>2. CASE t_txs' = t_txs
    BY <1>1, <1>2, <1>5, <2>1, <2>2, ThrowStep
  <2>3. CASE Txs!Takes(t, Txs!Payload(p))
    <3>1. PICK r \in {"partial", "error"} : Txs!Thrown(p) = Txs!Ends(p, r, 0)
      BY DEF Txs!Thrown
    <3> DEFINE o == [p EXCEPT !.step = "idle", !.result = r, !.names = 0]
    <3>2. o = Txs!Thrown(p)
      BY <3>1 DEF Txs!Ends
    <3>3. r \in TxResults
      BY DEF TxResults
    <3>4. /\ o \in TxOps /\ o.step = "idle" /\ o.result = r /\ o.calls = p.calls /\ o.run = p.run
          /\ o.task = p.task /\ o.todo = p.todo /\ o.seen = p.seen
      BY <3>3 DEF TxOps, TxSteps
    <3>5. t_op' = [t_op EXCEPT ![t] = o]
      BY <1>0, <2>1, <3>2
    <3>. HIDE DEF o
    <3>. QED  BY <1>0, <1>1, <1>5, <2>1, <2>3, <3>4, <3>5, SafeTaken
  <2>. QED  BY <1>5, <2>2, <2>3
<1>. QED  BY <1>4, <1>6, <1>7

(* A pending transaction gets a hash or an end; nothing else of it changes, and no thread
   moves. *)
LEMMA StateFacts ==
  ASSUME TxTypeOK, NEW i \in DOMAIN t_txs, NEW y \in TxRecords, t_txs' = [t_txs EXCEPT ![i] = y]
  PROVE  /\ t_txs' \in Seq(TxRecords) /\ DOMAIN t_txs' = DOMAIN t_txs /\ Len(t_txs') = Len(t_txs)
         /\ t_txs'[i] = y /\ \A j \in DOMAIN t_txs : j # i => t_txs'[j] = t_txs[j]
BY DEF TxTypeOK

SameTx(x, y) ==
    /\ x.by = y.by /\ x.run = y.run /\ x.at = y.at /\ x.calls = y.calls /\ x.nonce = y.nonce

(* Such a step is in order if it keeps every approval and, for a Safe, its nonces. *)
LEMMA StateStep ==
  ASSUME TxInv, SameWorld, t_op' = t_op, t_lock' = t_lock,
         NEW i \in DOMAIN t_txs, t_txs[i].state = "pending",
         NEW y \in TxRecords, t_txs' = [t_txs EXCEPT ![i] = y], SameTx(y, t_txs[i]),
         Txs!Eoa => y.hash = t_txs[i].hash, t_chain' \in TxChains,
         \A s : Granted(s) => Granted(s)',
         y.state = "ok" => \A k \in DOMAIN y.calls : y.calls[k].kind = "approve"
                                                       => Granted(y.calls[k].m)',
         ~Txs!Eoa => SafeTxs'
  PROVE  TxInv'
<1>0. TxTypeOK /\ TxsOK
  BY DEF TxInv
<1>1. /\ t_txs' \in Seq(TxRecords) /\ DOMAIN t_txs' = DOMAIN t_txs /\ Len(t_txs') = Len(t_txs)
      /\ t_txs'[i] = y /\ \A j \in DOMAIN t_txs : j # i => t_txs'[j] = t_txs[j]
  BY <1>0, StateFacts
<1>2. (Txs!Eoa)' <=> Txs!Eoa
  BY DEF SameWorld, Txs!Eoa
<1>3. \A j \in DOMAIN t_txs : SameTx(t_txs'[j], t_txs[j])
  BY <1>1 DEF SameTx
<1>4. \A j \in DOMAIN t_txs : t_txs[j].state # "pending" => t_txs'[j] = t_txs[j]
  BY <1>1
<1>5. TxTypeOK'
  BY <1>0, <1>1 DEF TxTypeOK, SameWorld
<1>6. TxLocked'
  BY DEF TxInv, TxLocked
<1>7. NonceFresh'
  BY <1>1, <1>2 DEF TxInv, NonceFresh
<1>8. RunsBegun' /\ FewCalls'
  BY <1>0, <1>1, <1>3 DEF TxsOK, RunsBegun, FewCalls, SameTx
<1>9. OneEach'
  BY <1>0, <1>1, <1>3 DEF TxsOK, OneEach, SameTx
<1>10. GrantsKept'
  <2>1. ASSUME NEW j \in DOMAIN t_txs, NEW z, z = t_txs'[j], z.state = "ok",
               NEW k \in DOMAIN z.calls, z.calls[k].kind = "approve"
        PROVE  Granted(z.calls[k].m)'
    <3>1. CASE j = i
      BY <1>1, <2>1, <3>1
    <3>2. CASE j # i
      BY <1>0, <1>1, <2>1, <3>2 DEF TxsOK, GrantsKept
    <3>. QED  BY <3>1, <3>2
  <2>. QED  BY <1>1, <2>1 DEF GrantsKept
<1>11. ASSUME Txs!Eoa PROVE EoaTxs'
  <2>1. \A j \in DOMAIN t_txs' : t_txs'[j].nonce = j - 1 /\ t_txs'[j].hash = j
    BY <1>0, <1>1, <1>3, <1>11 DEF TxsOK, EoaTxs, SameTx
  <2>2. Txs!BatchInOrder'
    <3>. SUFFICES ASSUME NEW m \in DOMAIN t_txs, NEW j \in 1..(t_txs'[m].at - 1)
                  PROVE  \E k \in DOMAIN t_txs :
                            /\ t_txs'[k].by = t_txs'[m].by /\ t_txs'[k].run = t_txs'[m].run
                            /\ t_txs'[k].at = j /\ t_txs'[k].state = "ok"
      BY <1>1 DEF Txs!BatchInOrder
    <3>1. /\ t_txs'[m].at = t_txs[m].at /\ t_txs'[m].by = t_txs[m].by
          /\ t_txs'[m].run = t_txs[m].run
      BY <1>3 DEF SameTx
    <3>2. PICK k \in DOMAIN t_txs :
             /\ t_txs[k].by = t_txs[m].by /\ t_txs[k].run = t_txs[m].run
             /\ t_txs[k].at = j /\ t_txs[k].state = "ok"
      BY <1>0, <1>11, <3>1 DEF TxsOK, EoaTxs, Txs!BatchInOrder
    <3>. QED  BY <1>4, <3>1, <3>2
  <2>. QED  BY <2>1, <2>2 DEF EoaTxs
<1>12. TxsOK'
  BY <1>2, <1>8, <1>9, <1>10, <1>11 DEF TxsOK
<1>13. ASSUME NEW u \in Threads PROVE ThreadOK(u, t_op[u])'
  <2>1. PICK p : p = t_op'[u] /\ ThreadOK(u, p) /\ p = t_op[u]
    BY DEF TxInv
  <2>2. \A j \in DOMAIN t_txs : OfRun(u, t_op[u], j)' <=> OfRun(u, p, j)
    BY <1>3, <2>1 DEF OfRun, SameTx
  <2>3. \A j : Landed(u, p, j) => Landed(u, t_op[u], j)'
    <3>. SUFFICES ASSUME NEW j, NEW k \in DOMAIN t_txs, OfRun(u, p, k), t_txs[k].at = j,
                         t_txs[k].state = "ok"
                  PROVE  Landed(u, t_op[u], j)'
      BY DEF Landed
    <3>1. t_txs'[k] = t_txs[k] /\ OfRun(u, t_op[u], k)'
      BY <1>4, <2>2
    <3>. QED  BY <1>1, <3>1 DEF Landed
  <2>4. TodoOK(t_op[u])' /\ MergesOK(t_op[u])'
    <3>1. TodoOK(p) /\ MergesOK(p)
      BY <2>1 DEF ThreadOK
    <3>. QED  BY <2>1, <3>1, TodoPrimed, MergesPrimed
  <2>5. ContentsOK(u, t_op[u])'
    BY <1>1, <1>2, <1>3, <2>1, <2>2 DEF ThreadOK, ContentsOK, SameTx
  <2>6. SetupOK(t_op[u])'
    BY <2>1 DEF ThreadOK, SetupOK
  <2>7. ReportOK(u, t_op[u])'
    BY <1>1, <1>2, <1>4, <2>1, <2>2, <2>3 DEF ThreadOK, ReportOK
  <2>8. y.at = t_txs[i].at /\ \A j \in DOMAIN t_txs : t_txs'[j].at = t_txs[j].at
    BY <1>3 DEF SameTx
  <2>9. Txs!Eoa => EoaPhase(u, t_op[u])'
    <3>1. p.id \in DOMAIN t_txs /\ OfRun(u, p, p.id) => OfRun(u, t_op[u], t_op[u].id)'
      BY <1>3, <2>1 DEF OfRun, SameTx
    <3>. QED  BY <1>1, <1>2, <2>1, <2>2, <2>3, <2>8, <3>1 DEF ThreadOK, EoaPhase
  <2>10. ~Txs!Eoa => SafePhase(u, t_op[u])'
    <3>1. p.id \in DOMAIN t_txs /\ OfRun(u, p, p.id) => OfRun(u, t_op[u], t_op[u].id)'
      BY <1>3, <2>1 DEF OfRun, SameTx
    <3>. QED  BY <1>1, <1>2, <1>4, <2>1, <2>2, <3>1 DEF ThreadOK, SafePhase
  <2>. QED  BY <1>2, <2>4, <2>5, <2>6, <2>7, <2>9, <2>10 DEF ThreadOK
<1>. QED  BY <1>5, <1>6, <1>7, <1>12, <1>13 DEF TxInv

(* A Safe's pending transaction is its only one: it stays, ends without effect, or takes
   the next nonce. *)
LEMMA SafeState ==
  ASSUME TxInv, ~Txs!Eoa, NEW i \in DOMAIN t_txs, t_txs[i].state = "pending",
         NEW y \in TxRecords, t_txs' = [t_txs EXCEPT ![i] = y], SameTx(y, t_txs[i]),
         y.state = "ok" => y.hash # 0
  PROVE  SafeTxs'
<1>0. TxTypeOK /\ TxsOK /\ SafeTxs
  BY DEF TxInv, TxsOK
<1>1. /\ t_txs' \in Seq(TxRecords) /\ DOMAIN t_txs' = DOMAIN t_txs /\ Len(t_txs') = Len(t_txs)
      /\ t_txs'[i] = y /\ \A j \in DOMAIN t_txs : j # i => t_txs'[j] = t_txs[j]
  BY <1>0, StateFacts
<1>2. \A j \in DOMAIN t_txs : j # i => t_txs[j].state # "pending"
  BY <1>0 DEF SafeTxs
<1>3. y.nonce = Txs!Executed /\ y.at = 1
  BY <1>0 DEF SafeTxs, SameTx
<1> DEFINE S == {j \in DOMAIN t_txs : t_txs[j].state = "ok"}
<1>4. Txs!Executed \in Nat /\ IsFiniteSet(S) /\ Txs!Executed = Cardinality(S)
  BY <1>0, ExecutedNat
<1>5. Txs!Executed' = Cardinality({j \in DOMAIN t_txs' : t_txs'[j].state = "ok"})
  BY DEF Txs!Executed, Txs!Cardinality, Cardinality
<1>6. {j \in DOMAIN t_txs' : t_txs'[j].state = "ok"} = IF y.state = "ok" THEN S \cup {i} ELSE S
  BY <1>1
<1>7. i \notin S
  OBVIOUS
<1>8. \A j \in DOMAIN t_txs : t_txs[j].nonce \in Nat
  BY <1>0, TxFields
<1>9. CASE y.state = "ok"
  <2>1. Cardinality(S \cup {i}) = Cardinality(S) + 1
    BY <1>4, <1>7, FS_AddElement
  <2>2. Txs!Executed' = Txs!Executed + 1
    BY <1>4, <1>5, <1>6, <1>9, <2>1
  <2>3. \A j \in DOMAIN t_txs' : t_txs'[j].state # "pending"
    BY <1>1, <1>2, <1>9
  <2>4. \A j \in DOMAIN t_txs' : t_txs'[j].at = 1
    BY <1>0, <1>1, <1>3 DEF SafeTxs
  <2>5. \A j \in DOMAIN t_txs' : t_txs'[j].state = "ok" =>
           /\ t_txs'[j].hash # 0
           /\ j # i => t_txs[j].state = "ok" /\ t_txs'[j] = t_txs[j]
    BY <1>0, <1>1, <1>9 DEF SafeTxs
  <2>6. \A j \in DOMAIN t_txs : t_txs[j].state = "ok" => t_txs[j].nonce < Txs!Executed
    BY <1>0 DEF SafeTxs
  <2>7. \A j \in DOMAIN t_txs' : t_txs'[j].state = "ok" => t_txs'[j].nonce < Txs!Executed'
    BY <1>1, <1>3, <1>4, <1>8, <2>2, <2>5, <2>6
  <2>8. \A j, k \in DOMAIN t_txs' :
           t_txs'[j].state = "ok" /\ t_txs'[k].state = "ok" /\ j # k
               => t_txs'[j].nonce # t_txs'[k].nonce
    <3>. SUFFICES ASSUME NEW j \in DOMAIN t_txs, NEW k \in DOMAIN t_txs,
                         t_txs'[j].state = "ok", t_txs'[k].state = "ok", j # k
                  PROVE  t_txs'[j].nonce # t_txs'[k].nonce
      BY <1>1
    <3>1. CASE j = i
      <4>1. t_txs'[j].nonce = Txs!Executed /\ t_txs'[k].nonce < Txs!Executed
        BY <1>1, <1>3, <2>5, <2>6, <3>1
      <4>2. t_txs'[k].nonce \in Nat
        BY <1>1, <1>8, <3>1
      <4>. QED  BY <1>4, <4>1, <4>2
    <3>2. CASE k = i
      <4>1. t_txs'[k].nonce = Txs!Executed /\ t_txs'[j].nonce < Txs!Executed
        BY <1>1, <1>3, <2>5, <2>6, <3>2
      <4>2. t_txs'[j].nonce \in Nat
        BY <1>1, <1>8, <3>2
      <4>. QED  BY <1>4, <4>1, <4>2
    <3>3. CASE j # i /\ k # i
      BY <1>0, <1>1, <3>3 DEF SafeTxs
    <3>. QED  BY <3>1, <3>2, <3>3
  <2>. QED  BY <2>3, <2>4, <2>5, <2>7, <2>8 DEF SafeTxs
<1>10. CASE y.state # "ok"
  <2>1. Txs!Executed' = Txs!Executed
    BY <1>4, <1>5, <1>6, <1>10
  <2>2. \A j \in DOMAIN t_txs' : t_txs'[j].state = "ok" => j # i
    BY <1>1, <1>10
  <2>3. \A j \in DOMAIN t_txs' : t_txs'[j].state = "pending" => j = i
    BY <1>1, <1>2
  <2>4. \A j \in DOMAIN t_txs' : t_txs'[j].at = 1
    BY <1>0, <1>1, <1>3 DEF SafeTxs
  <2>. QED  BY <1>0, <1>1, <1>3, <2>1, <2>2, <2>3, <2>4 DEF SafeTxs
<1>. QED  BY <1>9, <1>10

(* A transaction is mined. *)
LEMMA TxMine ==
  ASSUME TxInv, NEW i \in DOMAIN t_txs, Txs!Mine(i)
  PROVE  TxInv'
<1>0. TxTypeOK /\ TxsOK /\ SameWorld
  BY TxSpend DEF TxInv, Txs!Mine
<1>1. PICK x \in TxRecords : x = t_txs[i] /\ x.state = "pending" /\ x.hash # 0
  BY <1>0, TxFields DEF Txs!Mine
<1>2. PICK s \in {"ok", "reverted"} :
         /\ t_txs' = [t_txs EXCEPT ![i].state = s]
         /\ s = "ok" <=> ~Txs!Execute(x.calls, t_chain).failed
         /\ t_chain' = IF s = "ok" THEN Txs!Execute(x.calls, t_chain).c ELSE t_chain
  BY <1>1 DEF Txs!Mine
<1> DEFINE y == [x EXCEPT !.state = s]
<1>3. t_txs' = [t_txs EXCEPT ![i] = y]
  BY <1>0, <1>1, <1>2 DEF TxTypeOK
<1>4. /\ y \in TxRecords /\ SameTx(y, t_txs[i]) /\ y.hash = t_txs[i].hash /\ y.state = s
      /\ y.calls = x.calls
  <2>1. s \in TxStates
    BY DEF TxStates
  <2>. QED  BY <1>1, <2>1 DEF TxRecords, SameTx
<1>. HIDE DEF y
<1>5. /\ DOMAIN t_txs' = DOMAIN t_txs
      /\ t_txs'[i] = y /\ \A j \in DOMAIN t_txs : j # i => t_txs'[j] = t_txs[j]
  BY <1>0, <1>3, <1>4, StateFacts
<1>6. Revoked => Revoked'
  <2>1. \A j \in DOMAIN t_txs : t_txs'[j].calls = t_txs[j].calls
    BY <1>1, <1>4, <1>5
  <2>. QED  BY <1>5, <2>1 DEF Revoked
<1>7. x.calls \in Seq(TxCalls) /\ Len(x.calls) \in 1..2
  BY <1>0, <1>1, TxFields DEF TxsOK, FewCalls
<1>8. t_chain \in TxChains
  BY <1>0 DEF TxTypeOK
<1>9. CASE s = "ok"
  <2>1. PICK d : d = t_chain' /\ d = Txs!Execute(x.calls, t_chain).c
    BY <1>2, <1>9
  <2>2. /\ d \in TxChains
        /\ (\A k \in DOMAIN x.calls : x.calls[k].kind # "revoke") =>
               /\ t_chain.approved \subseteq d.approved
               /\ \A k \in DOMAIN x.calls : x.calls[k].kind = "approve"
                                              => x.calls[k].m \in d.approved
    BY <1>2, <1>7, <1>8, <1>9, <2>1, ExecuteEffect
  <2>3. ~Revoked => \A k \in DOMAIN x.calls : x.calls[k].kind # "revoke"
    BY <1>1 DEF Revoked
  <2>4. \A g : Granted(g) => Granted(g)'
    BY <1>6, <2>1, <2>2, <2>3 DEF Granted
  <2>5. \A k \in DOMAIN y.calls : y.calls[k].kind = "approve" => Granted(y.calls[k].m)'
    BY <1>4, <1>6, <2>1, <2>2, <2>3 DEF Granted
  <2>6. ~Txs!Eoa => SafeTxs'
    BY <1>1, <1>3, <1>4, SafeState
  <2>. QED  BY <1>0, <1>1, <1>3, <1>4, <2>1, <2>2, <2>4, <2>5, <2>6, StateStep DEF Txs!Mine
<1>10. CASE s = "reverted"
  <2>1. t_chain' = t_chain /\ y.state # "ok"
    BY <1>2, <1>4, <1>10
  <2>2. \A g : Granted(g) => Granted(g)'
    BY <1>6, <2>1 DEF Granted
  <2>3. ~Txs!Eoa => SafeTxs'
    BY <1>1, <1>3, <1>4, <2>1, SafeState
  <2>. QED  BY <1>0, <1>1, <1>3, <1>4, <1>8, <2>1, <2>2, <2>3, StateStep DEF Txs!Mine
<1>. QED  BY <1>9, <1>10

(* The relayer names, replaces or drops a submission. *)
LEMMA TxRelays ==
  ASSUME TxInv, NEW i \in DOMAIN t_txs, Txs!Relays(i)
  PROVE  TxInv'
<1>0. TxTypeOK /\ SameWorld /\ ~Txs!Eoa /\ t_chain' = t_chain /\ t_chain \in TxChains
      /\ t_op' = t_op /\ t_lock' = t_lock
  BY TxSpend DEF TxInv, TxTypeOK, Txs!Relays
<1>1. PICK x \in TxRecords : x = t_txs[i] /\ x.state = "pending" /\ x.hash \in Nat /\ i \in Nat
  BY <1>0, TxFields DEF Txs!Relays
<1>2. PICK y \in TxRecords :
         t_txs' = [t_txs EXCEPT ![i] = y] /\ SameTx(y, x) /\ y.state # "ok"
  <2>1. CASE t_txs' = [t_txs EXCEPT ![i].hash = 10 * i]
    <3>1. 10 * i \in Nat
      BY <1>1
    <3>2. PICK n \in Nat : n = 10 * i
      BY <3>1
    <3> DEFINE y == [x EXCEPT !.hash = n]
    <3>3. y \in TxRecords /\ SameTx(y, x) /\ y.state # "ok"
      BY <1>1 DEF TxRecords, SameTx
    <3>4. t_txs' = [t_txs EXCEPT ![i] = y]
      BY <1>1, <2>1, <3>2
    <3>. HIDE DEF y
    <3>. QED  BY <3>3, <3>4
  <2>2. CASE t_txs' = [t_txs EXCEPT ![i].hash = @ + 1]
    <3>1. x.hash + 1 \in Nat
      BY <1>1
    <3>2. PICK n \in Nat : n = x.hash + 1
      BY <3>1
    <3> DEFINE y == [x EXCEPT !.hash = n]
    <3>3. y \in TxRecords /\ SameTx(y, x) /\ y.state # "ok"
      BY <1>1 DEF TxRecords, SameTx
    <3>4. t_txs' = [t_txs EXCEPT ![i] = y]
      BY <1>1, <2>2, <3>2
    <3>. HIDE DEF y
    <3>. QED  BY <3>3, <3>4
  <2>3. CASE t_txs' = [t_txs EXCEPT ![i].state = "failed"]
    <3> DEFINE y == [x EXCEPT !.state = "failed"]
    <3>1. "failed" \in TxStates
      BY DEF TxStates
    <3>2. y \in TxRecords /\ SameTx(y, x) /\ y.state # "ok"
      BY <1>1, <3>1 DEF TxRecords, SameTx
    <3>3. t_txs' = [t_txs EXCEPT ![i] = y]
      BY <1>1, <2>3
    <3>. HIDE DEF y
    <3>. QED  BY <3>2, <3>3
  <2>. QED  BY <2>1, <2>2, <2>3 DEF Txs!Relays
<1>3. /\ DOMAIN t_txs' = DOMAIN t_txs
      /\ t_txs'[i] = y /\ \A j \in DOMAIN t_txs : j # i => t_txs'[j] = t_txs[j]
  BY <1>0, <1>2, StateFacts
<1>4. \A g : Granted(g) => Granted(g)'
  BY <1>0, <1>1, <1>2, <1>3 DEF Granted, Revoked, SameTx
<1>5. SafeTxs'
  BY <1>0, <1>1, <1>2, SafeState
<1>. QED  BY <1>0, <1>1, <1>2, <1>4, <1>5, StateStep

(* The invariant holds at the start, and every step keeps it. *)
LEMMA TxInit ==
  ASSUME Txs!InitState, budget \in TxBudgets
  PROVE  TxInv
<1>1. /\ t_txs = <<>> /\ t_lock = "free" /\ DOMAIN t_txs = {} /\ "free" \notin Threads
      /\ t_op \in [Threads -> {Txs!Idle}]
      /\ t_chain = [held |-> [a |-> <<1, 2>>, b |-> <<2, 1>>], approved |-> {}]
  BY HttpAssumption DEF Txs!InitState, Txs!Free
<1>2. PICK idle : idle = Txs!Idle
  OBVIOUS
<1>3. /\ idle \in TxOps /\ idle.step = "idle" /\ idle.task = "none" /\ idle.todo = <<>>
      /\ idle.calls = <<>> /\ idle.result = "none" /\ idle.sent = <<>>
  BY <1>2 DEF Txs!Idle, TxOps, TxTasks, TxSteps, TxResults
<1>4. /\ DOMAIN idle.calls = {} /\ DOMAIN idle.todo = {} /\ Len(idle.calls) = 0
      /\ Len(idle.todo) = 0
  BY <1>3
<1>5. \A t \in Threads : t_op[t] = idle
  BY <1>1, <1>2
<1>6. TxTypeOK
  <2>1. budget \in TxBudgetType
    BY TxAssumption DEF TxBudgetType
  <2>2. <<1, 2>> \in [1..2 -> Int] /\ <<2, 1>> \in [1..2 -> Int]
    OBVIOUS
  <2>3. [a |-> <<1, 2>>, b |-> <<2, 1>>] \in [TxMarkets -> [1..2 -> Int]]
    BY <2>2 DEF TxMarkets
  <2>4. t_chain \in TxChains
    BY <1>1, <2>3 DEF TxChains
  <2>5. t_op \in [Threads -> TxOps]
    BY <1>1, <1>2, <1>3
  <2>. QED  BY <1>1, <2>1, <2>4, <2>5 DEF TxTypeOK
<1>7. TxLocked
  BY <1>1, <1>3, <1>5 DEF TxLocked
<1>8. NonceFresh
  BY <1>3, <1>5 DEF NonceFresh
<1>9. TxsOK
  BY <1>1 DEF TxsOK, RunsBegun, OneEach, FewCalls, GrantsKept, EoaTxs, SafeTxs, Txs!BatchInOrder
<1>10. ASSUME NEW t \in Threads PROVE ThreadOK(t, idle)
  <2>1. TodoOK(idle)
    BY <1>3, <1>4 DEF TodoOK
  <2>2. ContentsOK(t, idle) /\ MergesOK(idle) /\ SetupOK(idle)
    BY <1>1, <1>3, <1>4 DEF ContentsOK, MergesOK, SetupOK
  <2>3. EoaPhase(t, idle) /\ SafePhase(t, idle) /\ ReportOK(t, idle)
    BY <1>1, <1>3 DEF EoaPhase, SafePhase, ReportOK
  <2>. QED  BY <2>1, <2>2, <2>3 DEF ThreadOK
<1>. QED  BY <1>5, <1>6, <1>7, <1>8, <1>9, <1>10 DEF TxInv

(* A step of another component. *)
LEMMA TxStutter ==
  ASSUME TxInv, UNCHANGED Txs!vars
  PROVE  TxInv'
<1>1. /\ t_chain' = t_chain /\ t_txs' = t_txs /\ t_lock' = t_lock /\ t_op' = t_op
      /\ budget' = budget
  BY DEF Txs!vars
<1>2. TxTypeOK' /\ TxLocked' /\ NonceFresh'
  BY <1>1 DEF TxInv, TxTypeOK, TxLocked, NonceFresh, Txs!Eoa
<1>3. TxsOK'
  BY <1>1 DEF TxInv, TxsOK, RunsBegun, OneEach, FewCalls, GrantsKept, Granted, Revoked, EoaTxs,
              SafeTxs, Txs!BatchInOrder, Txs!Executed, Txs!Eoa
<1>4. \A t \in Threads : ThreadOK(t, t_op[t])'
  <2>. TAKE t \in Threads
  <2>1. PICK o : o = t_op'[t] /\ ThreadOK(t, o)
    BY <1>1 DEF TxInv
  <2>2. TodoOK(t_op[t])' /\ MergesOK(t_op[t])'
    <3>1. TodoOK(o) /\ MergesOK(o) /\ SameWorld
      BY <1>1, <2>1, TxSpend DEF ThreadOK, TxInv
    <3>. QED  BY <2>1, <3>1, TodoPrimed, MergesPrimed
  <2>3. ContentsOK(t, t_op[t])' /\ SetupOK(t_op[t])'
    BY <1>1, <2>1 DEF ThreadOK, ContentsOK, OfRun, SetupOK, Granted, Revoked, Txs!Eoa
  <2>4. (Txs!Eoa => EoaPhase(t, t_op[t]))' /\ (~Txs!Eoa => SafePhase(t, t_op[t]))'
    BY <1>1, <2>1 DEF ThreadOK, EoaPhase, SafePhase, OfRun, Landed, Txs!Eoa
  <2>5. ReportOK(t, t_op[t])'
    BY <1>1, <2>1 DEF ThreadOK, ReportOK, OfRun, Landed, Txs!Eoa
  <2>. QED  BY <2>2, <2>3, <2>4, <2>5 DEF ThreadOK
<1>. QED  BY <1>2, <1>3, <1>4 DEF TxInv

(* Every step of PositionTransactions. *)
LEMMA TxNext ==
  ASSUME TxInv, [Txs!Next]_(Txs!vars)
  PROVE  TxInv'
<1>1. CASE UNCHANGED Txs!vars
  BY <1>1, TxStutter
<1>2. ASSUME NEW t \in Threads, NEW task \in TxTasks \ {"none"}, NEW todo \in Txs!Orders(task),
             Txs!Begin(t, task, todo)
      PROVE  TxInv'
  BY <1>2, TxBegin
<1>3. ASSUME NEW t \in Threads, Txs!Step(t) \/ Txs!Deadline(t)
      PROVE  TxInv'
  BY <1>3, TxResolve, TxExecution, TxSign, TxBroadcast, TxSafeNonce, TxSubmit, TxHandle,
     TxPollReceipt, TxPollRelayer, TxDeadline DEF Txs!Step
<1>4. ASSUME NEW t \in Threads,
             \/ Txs!ReadThrows(t) \/ Txs!NonceThrows(t) \/ Txs!ReceiptThrows(t)
             \/ Txs!RelayerThrows(t)
      PROVE  TxInv'
  BY <1>4, TxThrows DEF Txs!ReadThrows, Txs!NonceThrows, Txs!ReceiptThrows, Txs!RelayerThrows
<1>5. ASSUME NEW i \in DOMAIN t_txs, Txs!Mine(i) \/ Txs!Relays(i)
      PROVE  TxInv'
  BY <1>5, TxMine, TxRelays
<1>6. CASE Txs!Next
  BY <1>2, <1>3, <1>4, <1>5, <1>6 DEF Txs!Next, TxTasks
<1>. QED  BY <1>1, <1>6

(* What the invariant says of nonces, of an operation's reports, and of how many
   transactions it has. *)
LEMMA TxNonces == ASSUME TxInv PROVE Txs!NoncesDistinct
<1>. SUFFICES ASSUME NEW i \in DOMAIN t_txs, NEW j \in DOMAIN t_txs, i # j,
                     t_txs[i].nonce = t_txs[j].nonce
              PROVE  /\ ~Txs!Eoa
                     /\ \/ t_txs[i].state \in {"failed", "reverted"}
                        \/ t_txs[j].state \in {"failed", "reverted"}
  BY DEF Txs!NoncesDistinct
<1>1. TxTypeOK /\ TxsOK
  BY DEF TxInv
<1>2. /\ i \in Nat /\ j \in Nat /\ t_txs[i].state \in TxStates /\ t_txs[j].state \in TxStates
      /\ t_txs[i].nonce \in Nat /\ t_txs[j].nonce \in Nat
  BY <1>1, TxFields
<1>3. ~Txs!Eoa
  BY <1>1, <1>2 DEF TxsOK, EoaTxs
<1>4. SafeTxs /\ Txs!Executed \in Nat
  BY <1>1, <1>3, ExecutedNat DEF TxsOK
<1>5. /\ t_txs[i].state = "pending" => t_txs[i].nonce = Txs!Executed
      /\ t_txs[j].state = "pending" => t_txs[j].nonce = Txs!Executed
      /\ t_txs[i].state = "ok" => t_txs[i].nonce < Txs!Executed
      /\ t_txs[j].state = "ok" => t_txs[j].nonce < Txs!Executed
      /\ ~(t_txs[i].state = "ok" /\ t_txs[j].state = "ok")
      /\ ~(t_txs[i].state = "pending" /\ t_txs[j].state = "pending")
  BY <1>4 DEF SafeTxs
<1>. QED  BY <1>2, <1>3, <1>4, <1>5 DEF TxStates

(* A set-up that reports success has its approvals, mined by it or found. *)
LEMMA SetupGranted ==
  ASSUME TxInv, NEW t \in Threads, NEW o, o = t_op[t], o.step = "idle", o.result = "ok",
         o.task = "setup", NEW s \in TxSpenders
  PROVE  Granted(s)
<1>1. /\ ThreadOK(t, o) /\ GrantsKept
  BY DEF TxInv, TxsOK
<1>2. o.todo = <<>> /\ DOMAIN o.todo = {}
  BY <1>1 DEF ThreadOK, ReportOK
<1>3. CASE \E i \in DOMAIN o.calls : o.calls[i].kind = "approve" /\ o.calls[i].m = s
  <2>1. PICK i \in DOMAIN o.calls : o.calls[i].kind = "approve" /\ o.calls[i].m = s
    BY <1>3
  <2>2. CASE Txs!Eoa
    <3>1. Landed(t, o, i)
      BY <1>1, <2>2 DEF ThreadOK, ReportOK
    <3>2. PICK k \in DOMAIN t_txs : OfRun(t, o, k) /\ t_txs[k].at = i /\ t_txs[k].state = "ok"
      BY <3>1 DEF Landed
    <3>3. t_txs[k].calls = <<o.calls[i]>>
      BY <1>1, <2>2, <3>2 DEF ThreadOK, ContentsOK
    <3>4. 1 \in DOMAIN t_txs[k].calls /\ t_txs[k].calls[1] = o.calls[i]
      BY <3>3
    <3>. QED  BY <1>1, <2>1, <3>2, <3>4 DEF GrantsKept
  <2>3. CASE ~Txs!Eoa
    <3>1. PICK k \in DOMAIN t_txs : OfRun(t, o, k) /\ t_txs[k].state = "ok"
      BY <1>1, <2>3 DEF ThreadOK, ReportOK
    <3>2. t_txs[k].calls = o.calls
      BY <1>1, <2>3, <3>1 DEF ThreadOK, ContentsOK
    <3>. QED  BY <1>1, <2>1, <3>1, <3>2 DEF GrantsKept
  <2>. QED  BY <2>2, <2>3
<1>. QED  BY <1>1, <1>2, <1>3 DEF ThreadOK, SetupOK

(* An EOA's operation has at most one transaction it does not know of. *)
LEMMA FewMined ==
  ASSUME TxInv, Txs!Eoa, NEW t \in Threads
  PROVE  Txs!Cardinality(Txs!Mined(t)) <= Len(t_op[t].sent) + 1
<1>0. PICK o \in TxOps : o = t_op[t] /\ ThreadOK(t, o)
  BY DEF TxInv, TxTypeOK
<1>1. PICK n \in Nat : n = Len(o.sent) + 1
  BY OpFields
<1>2. TxTypeOK /\ OneEach /\ EoaPhase(t, o)
  BY <1>0 DEF TxInv, TxsOK, ThreadOK
<1> DEFINE M == {i \in DOMAIN t_txs : t_txs[i].by = t /\ t_txs[i].run = o.run}
           f == [i \in M |-> t_txs[i].at]
<1>3. Txs!Mined(t) = M /\ Txs!Cardinality(M) = Cardinality(M)
  BY <1>0 DEF Txs!Mined, Txs!Cardinality, Cardinality
<1>4. IsFiniteSet(M)
  <2>1. Len(t_txs) \in Nat /\ DOMAIN t_txs = 1..Len(t_txs)
    BY <1>2 DEF TxTypeOK
  <2>2. IsFiniteSet(1..Len(t_txs))
    BY <2>1, FS_Interval
  <2>3. M \in SUBSET (1..Len(t_txs))
    BY <2>1
  <2>. QED  BY <2>2, <2>3, FS_Subset
<1>5. IsFiniteSet(1..n) /\ Cardinality(1..n) = n
  <2>1. IsFiniteSet(1..n) /\ Cardinality(1..n) = IF 1 > n THEN 0 ELSE n - 1 + 1
    BY FS_Interval
  <2>. QED  BY <2>1
<1>6. \A i \in M : t_txs[i].at \in 1..n
  <2>. TAKE i \in M
  <2>1. PICK a \in Nat \ {0} : a = t_txs[i].at
    BY <1>2, TxFields
  <2>2. a <= n
    BY <1>1, <1>2, <2>1 DEF EoaPhase, OfRun
  <2>3. a \in 1..n
    BY <2>2
  <2>. QED  BY <2>1, <2>3
<1>7. \A i, j \in M : t_txs[i].at = t_txs[j].at => i = j
  BY <1>2 DEF OneEach
<1>8. f \in [M -> 1..n] /\ \A i, j \in M : i # j => f[i] # f[j]
  BY <1>6, <1>7
<1>9. Cardinality(M) \in Nat
  BY <1>4, FS_CardinalityType
<1>. HIDE DEF M, f
<1>10. ~(Cardinality(1..n) < Cardinality(M))
  BY <1>4, <1>5, <1>8, FS_PigeonHole
<1>11. Cardinality(M) <= n
  BY <1>5, <1>9, <1>10
<1>. QED  BY <1>0, <1>1, <1>3, <1>11

(* What an operation reports is what happened. *)
LEMMA TxHonest == ASSUME TxInv PROVE Txs!OutcomeHonest
<1>. SUFFICES ASSUME NEW t \in Threads, t_op[t].step = "idle"
     PROVE
        /\ t_op[t].result = "ok" =>
             /\ \E i \in Txs!Receipt(t_op[t].names) : t_txs[i].state = "ok"
             /\ t_op[t].task = "setup" =>
                  \/ Txs!ToSet(Txs!Spenders) \subseteq t_chain.approved
                  \/ \E i \in DOMAIN t_txs : \E c \in Txs!ToSet(t_txs[i].calls) : c.kind = "revoke"
        /\ t_op[t].result = "reverted" =>
             \E i \in Txs!Receipt(t_op[t].names) : t_txs[i].state = "reverted"
        /\ t_op[t].result = "invalid" => Txs!Mined(t) = {}
        /\ t_op[t].result \in {"error", "partial"} /\ Txs!Eoa
             => Txs!Cardinality(Txs!Mined(t)) <= Len(t_op[t].sent) + 1
  BY Zenon DEF Txs!OutcomeHonest
<1>1. PICK o : o = t_op[t] /\ ReportOK(t, o)
  BY DEF TxInv, ThreadOK
<1>2. o.result = "ok" => \E i \in Txs!Receipt(o.names) : t_txs[i].state = "ok"
  BY <1>1 DEF ReportOK, Txs!Receipt
<1>3. o.result = "reverted" => \E i \in Txs!Receipt(o.names) : t_txs[i].state = "reverted"
  BY <1>1 DEF ReportOK, Txs!Receipt
<1>4. o.result = "invalid" => Txs!Mined(t) = {}
  BY <1>1 DEF ReportOK, Txs!Mined, OfRun
<1>5. ASSUME o.result = "ok", o.task = "setup"
      PROVE  \/ Txs!ToSet(Txs!Spenders) \subseteq t_chain.approved
             \/ \E i \in DOMAIN t_txs : \E c \in Txs!ToSet(t_txs[i].calls) : c.kind = "revoke"
  <2>1. \A s \in TxSpenders : Granted(s)
    BY <1>1, <1>5, SetupGranted
  <2>2. CASE Revoked
    <3>1. PICK i \in DOMAIN t_txs : \E k \in DOMAIN t_txs[i].calls :
              t_txs[i].calls[k].kind = "revoke"
      BY <2>2 DEF Revoked
    <3>2. PICK k \in DOMAIN t_txs[i].calls : t_txs[i].calls[k].kind = "revoke"
      BY <3>1
    <3>3. t_txs[i].calls[k] \in Txs!ToSet(t_txs[i].calls)
      BY DEF Txs!ToSet
    <3>. QED  BY <3>2, <3>3
  <2>3. CASE ~Revoked
    <3>1. Txs!ToSet(Txs!Spenders) = TxSpenders
      BY DEF Txs!ToSet, Txs!Spenders, TxSpenders
    <3>. QED  BY <2>1, <2>3, <3>1 DEF Granted
  <2>. QED  BY <2>2, <2>3
<1>6. Txs!Eoa => Txs!Cardinality(Txs!Mined(t)) <= Len(t_op[t].sent) + 1
  BY FewMined
<1>. QED  BY <1>1, <1>2, <1>3, <1>4, <1>5, <1>6

(* The invariant implies the safety of the transactions. *)
LEMMA TxSafe ==
  ASSUME TxInv
  PROVE  /\ Txs!NoncesDistinct /\ Txs!BatchInOrder /\ Txs!ExecutedOnce
         /\ Txs!MergesDistinct /\ Txs!OutcomeHonest
<1>1. Txs!BatchInOrder
  BY DEF TxInv, TxsOK, EoaTxs, Txs!BatchInOrder
<1>2. Txs!ExecutedOnce
  BY DEF TxInv, TxsOK, OneEach, Txs!ExecutedOnce
<1>3. Txs!MergesDistinct
  BY DEF TxInv, ThreadOK, MergesOK, Txs!MergesDistinct
<1>. QED  BY <1>1, <1>2, <1>3, TxNonces, TxHonest

(* PositionClient, for any number of threads and of transactions, any number of lost
   answers, reverts and relayer failures: one nonce sequence, a batch in order and no call
   of it executed twice, no condition merged twice, and outcomes that are what happened. *)
THEOREM TransactionsStaySafe == Spec => []TransactionsSafe
<1> DEFINE I == which = "txs" => TxInv
<1>1. Init => I
  BY TxInit DEF Init, Select, InitComponents
<1>2. I /\ [Next]_allVars => I'
  <2>1. ASSUME [Next]_allVars
        PROVE  which' = which /\ (which = "txs" => [Txs!Next]_(Txs!vars))
    <3>1. CASE UNCHANGED allVars
      BY <3>1 DEF allVars, t_vars, Txs!vars
    <3>2. CASE Next
      BY <3>2 DEF Next, OnlyGlobal, OnlyConn, OnlyOrders, OnlyPages, OnlyCalls, OnlyFile,
                  OnlyTxs, OnlyOracle, OnlyFetch, OnlyArb, OnlyTunnel
    <3>. QED  BY <2>1, <3>1, <3>2
  <2>. QED  BY <2>1, TxNext
<1>3. I => TransactionsSafe
  BY TxSafe DEF TransactionsSafe
<1>. QED  BY <1>1, <1>2, <1>3, PTL DEF Spec
=============================================================================
