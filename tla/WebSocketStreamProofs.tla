------------------------ MODULE WebSocketStreamProofs ------------------------
(***************************************************************************)
(* Theorems about the stream of a WebSocketClient.  For one user thread    *)
(* and callbacks that do not stop the client, it implements GapStream, it  *)
(* loses no message silently, and it delivers the messages of a generation *)
(* in order while only the IX thread marks gaps.                           *)
(*                                                                         *)
(* They rest on IxReady: which steps each thread can still have on its     *)
(* stack, one set of stacks per stage of the code.  From there the         *)
(* refinement needs that a stage fits the published state (PhaseInv) and   *)
(* that a report is of a drawn generation (MarkInv); the absence of loss   *)
(* needs where every received message is (LossInv, with FlowInv); and the  *)
(* order needs what waits in the queue while a resnapshot is pending too   *)
(* (OrderInv).                                                             *)
(***************************************************************************)
EXTENDS WebSocketClientProofs

(***************************************************************************)
(* The stream of one caller: what its threads still have to do, stack by   *)
(* stack.                                                                  *)
(***************************************************************************)

(* Marking and reporting a gap of a resnapshot, on top of a loop of its thread. *)
AskingStacks(base) ==
    {<<"resnapshot", base>>, <<"exchange", base>>, <<"mark", "close", base>>,
     <<"discard", "close", base>>, <<"gap", "close", base>>, <<"close", base>>}
(* The IX thread: in handle_open, before CONNECTED is published ... *)
OpeningStacks ==
    {<<"mark", "opened", "poll">>, <<"discard", "opened", "poll">>, <<"gap", "opened", "poll">>,
     <<"opened", "poll">>}
(* ... connected, taking messages ... *)
FlowingStacks ==
    {<<"restore", "poll">>, <<"on_connect", "poll">>, <<"poll">>, <<"enqueue", "poll">>,
     <<"stamp", "poll">>, <<"push", "poll">>}
(* ... in handle_close, before RECONNECTING is published, and after that ... *)
ClosingStacks ==
    {<<"closed", "dial">>, <<"mark", "close_state", "dial">>, <<"discard", "close_state", "dial">>,
     <<"gap", "close_state", "dial">>, <<"close_state", "dial">>}
ClosedStacks == {<<"on_close", "dial">>, <<"on_disconnect", "dial">>}
(* ... in handle_error, and between two attempts. *)
ErrorStacks ==
    {<<"error", "dial">>, <<"mark", "error_state", "dial">>, <<"discard", "error_state", "dial">>,
     <<"gap", "error_state", "dial">>, <<"error_state", "dial">>}
RestStacks == {<<>>, <<"dial">>, <<"done">>, <<"on_error", "dial">>}
OpenStacks == FlowingStacks \cup AskingStacks("poll")
PollStacks == OpeningStacks \cup OpenStacks
DialStacks == ClosingStacks \cup ClosedStacks \cup ErrorStacks \cup RestStacks
IxStacks == PollStacks \cup DialStacks
(* The message worker: with a message that is not delivered yet, and elsewhere. *)
HoldingStacks == {<<"message", "loop">>, <<"sequenced", "loop">>, <<"deliver", "loop">>}
WorkerStacks ==
    {<<>>, <<"done">>, <<"loop">>, <<"pop">>, <<"typed", "loop">>} \cup HoldingStacks
        \cup AskingStacks("loop")

(* What a stack contains. *)
DoesIn(s, S) == \E i \in DOMAIN s : s[i] \in S

LEMMA DoesLiteral ==
    ASSUME NEW S
    PROVE  /\ ~DoesIn(<<>>, S)
           /\ \A x : DoesIn(<<x>>, S) <=> x \in S
           /\ \A x, y : DoesIn(<<x, y>>, S) <=> (x \in S \/ y \in S)
           /\ \A x, y, z : DoesIn(<<x, y, z>>, S) <=> (x \in S \/ y \in S \/ z \in S)
BY DEF DoesIn

LEMMA DoesOf ==
    ASSUME NEW t, NEW S
    PROVE  (Does(t, S) <=> DoesIn(pc[t], S)) /\ (Does(t, S)' <=> DoesIn(pc'[t], S'))
BY Zenon DEF Does, DoesIn

LEMMA StacksApart ==
    /\ \A s \in OpeningStacks : s \notin OpenStacks /\ s \notin DialStacks
    /\ \A s \in FlowingStacks : s \notin AskingStacks("poll")
    /\ \A s \in OpenStacks : s \notin DialStacks
    /\ \A s \in ClosingStacks : s \notin ClosedStacks /\ s \notin ErrorStacks /\ s \notin RestStacks
    /\ \A s \in ClosedStacks : s \notin ErrorStacks /\ s \notin RestStacks
    /\ \A s \in ErrorStacks : s \notin RestStacks
    /\ \A s \in HoldingStacks : s \notin AskingStacks("loop")
    /\ \A s \in HoldingStacks \cup AskingStacks("loop") :
         s \notin {<<>>, <<"done">>, <<"loop">>, <<"pop">>, <<"typed", "loop">>}
<1>. USE DEF OpeningStacks, FlowingStacks, ClosingStacks, ClosedStacks, ErrorStacks, RestStacks,
             AskingStacks, HoldingStacks
<1>1. \A s \in OpeningStacks : s \notin OpenStacks
  BY DEF OpenStacks
<1>2. \A s \in OpeningStacks : s \notin DialStacks
  BY DEF DialStacks
<1>3. \A s \in FlowingStacks : s \notin AskingStacks("poll")
  OBVIOUS
<1>4. \A s \in FlowingStacks : s \notin DialStacks
  BY DEF DialStacks
<1>5. \A s \in AskingStacks("poll") : s \notin DialStacks
  BY DEF DialStacks
<1>6. \A s \in ClosingStacks : s \notin ClosedStacks /\ s \notin ErrorStacks /\ s \notin RestStacks
  OBVIOUS
<1>7. \A s \in ClosedStacks : s \notin ErrorStacks /\ s \notin RestStacks
  OBVIOUS
<1>8. \A s \in ErrorStacks : s \notin RestStacks
  OBVIOUS
<1>9. \A s \in HoldingStacks : s \notin AskingStacks("loop")
  OBVIOUS
<1>10. \A s \in HoldingStacks \cup AskingStacks("loop") :
         s \notin {<<>>, <<"done">>, <<"loop">>, <<"pop">>, <<"typed", "loop">>}
  OBVIOUS
<1>. QED  BY <1>1, <1>2, <1>3, <1>4, <1>5, <1>6, <1>7, <1>8, <1>9, <1>10 DEF OpenStacks

(* A stack of one, two or three steps, after its first step. *)
LEMMA TripleConcat ==
    ASSUME NEW a, NEW b, NEW x
    PROVE  <<a, b>> \o <<x>> = <<a, b, x>> /\ <<a>> \o <<b, x>> = <<a, b, x>>
<1>. DEFINE S == {a, b, x}
            p == <<a, b>>
            q == <<x>>
            u == <<a>>
            v == <<b, x>>
            w == <<a, b, x>>
<1>1. /\ p \in Seq(S) /\ q \in Seq(S) /\ u \in Seq(S) /\ v \in Seq(S) /\ w \in Seq(S)
      /\ Len(p) = 2 /\ Len(q) = 1 /\ Len(u) = 1 /\ Len(v) = 2 /\ Len(w) = 3
      /\ p[1] = a /\ p[2] = b /\ q[1] = x /\ u[1] = a /\ v[1] = b /\ v[2] = x
      /\ w[1] = a /\ w[2] = b /\ w[3] = x
  OBVIOUS
<1>. HIDE DEF S, p, q, u, v, w
<1>2. /\ p \o q \in Seq(S) /\ Len(p \o q) = Len(p) + Len(q)
      /\ \A i \in 1 .. Len(p) + Len(q) :
           (p \o q)[i] = IF i <= Len(p) THEN p[i] ELSE q[i - Len(p)]
  BY <1>1, ConcatProperties
<1>3. /\ u \o v \in Seq(S) /\ Len(u \o v) = Len(u) + Len(v)
      /\ \A i \in 1 .. Len(u) + Len(v) :
           (u \o v)[i] = IF i <= Len(u) THEN u[i] ELSE v[i - Len(u)]
  BY <1>1, ConcatProperties
<1>4. Len(p \o q) = 3 /\ (p \o q)[1] = a /\ (p \o q)[2] = b /\ (p \o q)[3] = x
  BY <1>1, <1>2
<1>5. Len(u \o v) = 3 /\ (u \o v)[1] = a /\ (u \o v)[2] = b /\ (u \o v)[3] = x
  BY <1>1, <1>3
<1>6. \A i \in 1 .. Len(w) : (p \o q)[i] = w[i] /\ (u \o v)[i] = w[i]
  <2>. SUFFICES ASSUME NEW i \in 1 .. Len(w) PROVE (p \o q)[i] = w[i] /\ (u \o v)[i] = w[i]
    OBVIOUS
  <2>1. i = 1 \/ i = 2 \/ i = 3
    BY <1>1
  <2>. QED  BY <2>1, <1>1, <1>4, <1>5
<1>7. p \o q = w
  BY <1>1, <1>2, <1>4, <1>6, SeqEqual
<1>8. u \o v = w
  BY <1>1, <1>3, <1>5, <1>6, SeqEqual
<1>. QED  BY <1>7, <1>8 DEF p, q, u, v, w

(* A thread with two or three steps to do replaces the first one. *)
LEMMA GoPair ==
    ASSUME StacksOK, NEW t \in Threads, NEW x, NEW y, pc[t] = <<x, y>>
    PROVE  /\ Go(t, <<>>) => pc' = [pc EXCEPT ![t] = <<y>>]
           /\ \A a : Go(t, <<a>>) => pc' = [pc EXCEPT ![t] = <<a, y>>]
           /\ \A a, b : Go(t, <<a, b>>) => pc' = [pc EXCEPT ![t] = <<a, b, y>>]
<1>1. Tail(pc[t]) = <<y>> /\ pc[t] # <<>>
  OBVIOUS
<1>2. ASSUME Go(t, <<>>) PROVE pc' = [pc EXCEPT ![t] = <<y>>]
  BY <1>1, <1>2, GoOn
<1>3. ASSUME NEW a, Go(t, <<a>>) PROVE pc' = [pc EXCEPT ![t] = <<a, y>>]
  BY <1>1, <1>3, PairConcat DEF Go
<1>4. ASSUME NEW a, NEW b, Go(t, <<a, b>>) PROVE pc' = [pc EXCEPT ![t] = <<a, b, y>>]
  BY <1>1, <1>4, TripleConcat DEF Go
<1>. QED  BY <1>2, <1>3, <1>4

LEMMA GoTriple ==
    ASSUME StacksOK, NEW t \in Threads, NEW x, NEW y, NEW z, pc[t] = <<x, y, z>>
    PROVE  /\ Go(t, <<>>) => pc' = [pc EXCEPT ![t] = <<y, z>>]
           /\ \A a : Go(t, <<a>>) => pc' = [pc EXCEPT ![t] = <<a, y, z>>]
<1>1. Tail(pc[t]) = <<y, z>> /\ pc[t] # <<>>
  OBVIOUS
<1>2. ASSUME Go(t, <<>>) PROVE pc' = [pc EXCEPT ![t] = <<y, z>>]
  BY <1>1, <1>2, GoOn
<1>3. ASSUME NEW a, Go(t, <<a>>) PROVE pc' = [pc EXCEPT ![t] = <<a, y, z>>]
  BY <1>1, <1>3, TripleConcat DEF Go
<1>. QED  BY <1>2, <1>3

(* A thread with one step to do replaces it. *)
LEMMA GoSingle ==
    ASSUME StacksOK, NEW t \in Threads, NEW x, pc[t] = <<x>>
    PROVE  /\ Go(t, <<>>) => pc' = [pc EXCEPT ![t] = <<>>]
           /\ \A a \in Steps : Go(t, <<a>>) => pc' = [pc EXCEPT ![t] = <<a>>]
           /\ \A a, b \in Steps : Go(t, <<a, b>>) => pc' = [pc EXCEPT ![t] = <<a, b>>]
           /\ \A a, b, d \in Steps : Go(t, <<a, b, d>>) => pc' = [pc EXCEPT ![t] = <<a, b, d>>]
<1>1. <<>> \in Seq(Steps)
  OBVIOUS
<1>2. \A a, b, d \in Steps :
        <<a>> \in Seq(Steps) /\ <<a, b>> \in Seq(Steps) /\ <<a, b, d>> \in Seq(Steps)
  OBVIOUS
<1>3. \A next \in Seq(Steps) : Go(t, next) => pc' = [pc EXCEPT ![t] = next]
  BY GoAlone
<1>. QED  BY <1>1, <1>2, <1>3

(* The IX thread's next step tells its stack. *)
LEMMA IxAt ==
    ASSUME pc["ix"] \in IxStacks
    PROVE  /\ At("ix", "dial") => pc["ix"] = <<"dial">>
           /\ At("ix", "poll") => pc["ix"] = <<"poll">>
           /\ At("ix", "opened") => pc["ix"] = <<"opened", "poll">>
           /\ At("ix", "restore") => pc["ix"] = <<"restore", "poll">>
           /\ At("ix", "on_connect") => pc["ix"] = <<"on_connect", "poll">>
           /\ At("ix", "enqueue") => pc["ix"] = <<"enqueue", "poll">>
           /\ At("ix", "stamp") => pc["ix"] = <<"stamp", "poll">>
           /\ At("ix", "push") => pc["ix"] = <<"push", "poll">>
           /\ At("ix", "resnapshot") => pc["ix"] = <<"resnapshot", "poll">>
           /\ At("ix", "exchange") => pc["ix"] = <<"exchange", "poll">>
           /\ At("ix", "close") => pc["ix"] = <<"close", "poll">>
           /\ At("ix", "closed") => pc["ix"] = <<"closed", "dial">>
           /\ At("ix", "close_state") => pc["ix"] = <<"close_state", "dial">>
           /\ At("ix", "on_close") => pc["ix"] = <<"on_close", "dial">>
           /\ At("ix", "on_disconnect") => pc["ix"] = <<"on_disconnect", "dial">>
           /\ At("ix", "error") => pc["ix"] = <<"error", "dial">>
           /\ At("ix", "error_state") => pc["ix"] = <<"error_state", "dial">>
           /\ At("ix", "on_error") => pc["ix"] = <<"on_error", "dial">>
           /\ \A x \in {"mark", "discard", "gap"} :
                At("ix", x) => pc["ix"] \in {<<x, "opened", "poll">>, <<x, "close", "poll">>,
                                 <<x, "close_state", "dial">>, <<x, "error_state", "dial">>}
BY DEF At, IxStacks, PollStacks, DialStacks, OpeningStacks, OpenStacks, FlowingStacks, AskingStacks,
       ClosingStacks, ClosedStacks, ErrorStacks, RestStacks

(* So does the message worker's. *)
LEMMA WorkerAt ==
    ASSUME pc["worker"] \in WorkerStacks
    PROVE  /\ At("worker", "loop") => pc["worker"] = <<"loop">>
           /\ At("worker", "pop") => pc["worker"] = <<"pop">>
           /\ \A x \in {"message", "sequenced", "deliver", "typed", "resnapshot", "exchange",
                        "close"} : At("worker", x) => pc["worker"] = <<x, "loop">>
           /\ \A x \in {"mark", "discard", "gap"} :
                At("worker", x) => pc["worker"] = <<x, "close", "loop">>
BY DEF At, WorkerStacks, HoldingStacks, AskingStacks

(* How the threads relate to the connection, the state and the calls. *)
StreamShapes(c) ==
    /\ pc["ix"] \in IxStacks /\ pc["worker"] \in WorkerStacks
    /\ (pc["ix"] \in PollStacks <=> ix.conn # "down")
    /\ pc["ix"] # <<>> => ix.callback
    /\ requested => stopping
    /\ pc[c] = <<"launch">> => state = "DISCONNECTED"
    /\ pc[c] \in DisconnectStacks => ~active /\ state = "CLOSING"
    /\ pc["teardown"] \in WorkerJoinedStacks => pc["worker"] = <<>>
    /\ ~active => pc["worker"] = <<>>

(* Thread t goes from one stack to another. *)
Moves(t, from, to) == pc[t] = from /\ pc' = [pc EXCEPT ![t] = to]

(* What the IX thread marks a gap in, and where it is called from. *)
Marked == {"opened", "close", "close_state", "error_state"}
Base(y) == IF y \in {"opened", "close"} THEN "poll" ELSE "dial"

IxReady(c) == OneCaller(c) /\ StopInv(c) /\ StreamShapes(c)

LEMMA IxReadyFacts ==
    ASSUME NEW c, IxReady(c)
    PROVE  /\ StacksOK /\ "ix" \in Threads /\ "worker" \in Threads /\ "teardown" \in Threads
           /\ c \in Threads /\ c # "ix" /\ c # "worker" /\ c # "teardown"
           /\ Threads = {c, "ix", "worker", "teardown"}
           /\ pc["ix"] \in IxStacks /\ pc["worker"] \in WorkerStacks
           /\ pc \in [Threads -> Seq(Steps)] /\ ix \in IxType
           /\ ~CallbackStops
BY CallerIsUser, LibraryThreads DEF IxReady, StreamShapes, StopInv, TypeParts, OneCaller, StacksOK

(* The IX thread goes on from a stack of two steps. *)
LEMMA IxPair ==
    ASSUME NEW c, IxReady(c), NEW x, NEW y, pc["ix"] = <<x, y>>
    PROVE  /\ Go("ix", <<>>) => Moves("ix", <<x, y>>, <<y>>)
           /\ \A a : Go("ix", <<a>>) => Moves("ix", <<x, y>>, <<a, y>>)
           /\ \A a, b : Go("ix", <<a, b>>) => Moves("ix", <<x, y>>, <<a, b, y>>)
BY IxReadyFacts, GoPair DEF Moves

(* The steps of mark_stream_gap, inside a handler. *)
LEMMA IxTriple ==
    ASSUME NEW c, IxReady(c), NEW x \in {"mark", "discard", "gap"}, At("ix", x)
    PROVE  \E y \in Marked :
             /\ pc["ix"] = <<x, y, Base(y)>>
             /\ Go("ix", <<>>) => Moves("ix", <<x, y, Base(y)>>, <<y, Base(y)>>)
             /\ \A a : Go("ix", <<a>>) =>
                         Moves("ix", <<x, y, Base(y)>>, <<a, y, Base(y)>>)
<1>1. StacksOK /\ "ix" \in Threads /\ pc["ix"] \in IxStacks
  BY IxReadyFacts
<1>2. PICK y \in Marked : pc["ix"] = <<x, y, Base(y)>>
  BY <1>1, IxAt DEF Marked, Base
<1>. QED  BY <1>1, <1>2, GoTriple DEF Moves

LEMMA IxMark ==
    ASSUME NEW c, IxReady(c), MarkGap("ix")
    PROVE  \E y \in Marked :
             \/ /\ stopping /\ Moves("ix", <<"mark", y, Base(y)>>, <<y, Base(y)>>)
                /\ UNCHANGED <<gen, mark, recv, got>>
             \/ /\ ~stopping /\ Moves("ix", <<"mark", y, Base(y)>>, <<"discard", y, Base(y)>>)
                /\ gen' = gen + 1 /\ mark' = [mark EXCEPT !["ix"] = gen + 1]
                /\ recv' = 0 /\ got' = 0
<1>1. At("ix", "mark")
  BY DEF MarkGap
<1>2. PICK y \in Marked :
             /\ Go("ix", <<>>) => Moves("ix", <<"mark", y, Base(y)>>, <<y, Base(y)>>)
             /\ \A a : Go("ix", <<a>>) =>
                         Moves("ix", <<"mark", y, Base(y)>>, <<a, y, Base(y)>>)
  BY <1>1, IxTriple
<1>. QED  BY <1>2 DEF MarkGap

LEMMA IxDiscard ==
    ASSUME NEW c, IxReady(c), DiscardPending("ix")
    PROVE  \E y \in Marked :
             Moves("ix", <<"discard", y, Base(y)>>, <<"gap", y, Base(y)>>)
<1>1. At("ix", "discard")
  BY DEF DiscardPending
<1>2. PICK y \in Marked : \A a : Go("ix", <<a>>) =>
             Moves("ix", <<"discard", y, Base(y)>>, <<a, y, Base(y)>>)
  BY <1>1, IxTriple
<1>. QED  BY <1>2 DEF DiscardPending

LEMMA IxGap ==
    ASSUME NEW c, IxReady(c), StreamGapCallback("ix")
    PROVE  \E y \in Marked :
             Moves("ix", <<"gap", y, Base(y)>>, <<y, Base(y)>>)
<1>1. At("ix", "gap") /\ Go("ix", <<>>)
  BY IxReadyFacts DEF StreamGapCallback, UserCallback
<1>2. PICK y \in Marked : Go("ix", <<>>) => Moves("ix", <<"gap", y, Base(y)>>, <<y, Base(y)>>)
  BY <1>1, IxTriple
<1>. QED  BY <1>1, <1>2

(* In a request_resnapshot ... *)
LEMMA IxResnapshot ==
    ASSUME NEW c, IxReady(c), ResnapshotCheck("ix")
    PROVE  \/ stopping /\ Moves("ix", <<"resnapshot", "poll">>, <<"poll">>)
           \/ ~stopping /\ Moves("ix", <<"resnapshot", "poll">>, <<"exchange", "poll">>)
<1>1. pc["ix"] = <<"resnapshot", "poll">>
  BY IxReadyFacts, IxAt DEF ResnapshotCheck
<1>2. /\ Go("ix", <<>>) => Moves("ix", <<"resnapshot", "poll">>, <<"poll">>)
      /\ \A a : Go("ix", <<a>>) => Moves("ix", <<"resnapshot", "poll">>, <<a, "poll">>)
      /\ \A a, b : Go("ix", <<a, b>>) => Moves("ix", <<"resnapshot", "poll">>, <<a, b, "poll">>)
  BY <1>1, IxPair
<1>. QED  BY <1>2 DEF ResnapshotCheck

LEMMA IxExchange ==
    ASSUME NEW c, IxReady(c), ResnapshotExchange("ix")
    PROVE  \/ resnap /\ Moves("ix", <<"exchange", "poll">>, <<"poll">>)
           \/ ~resnap /\ Moves("ix", <<"exchange", "poll">>, <<"mark", "close", "poll">>)
<1>1. pc["ix"] = <<"exchange", "poll">>
  BY IxReadyFacts, IxAt DEF ResnapshotExchange
<1>2. /\ Go("ix", <<>>) => Moves("ix", <<"exchange", "poll">>, <<"poll">>)
      /\ \A a : Go("ix", <<a>>) => Moves("ix", <<"exchange", "poll">>, <<a, "poll">>)
      /\ \A a, b : Go("ix", <<a, b>>) => Moves("ix", <<"exchange", "poll">>, <<a, b, "poll">>)
  BY <1>1, IxPair
<1>. QED  BY <1>2 DEF ResnapshotExchange

LEMMA IxClose ==
    ASSUME NEW c, IxReady(c), ResnapshotClose("ix")
    PROVE  Moves("ix", <<"close", "poll">>, <<"poll">>)
<1>1. pc["ix"] = <<"close", "poll">>
  BY IxReadyFacts, IxAt DEF ResnapshotClose
<1>2. /\ Go("ix", <<>>) => Moves("ix", <<"close", "poll">>, <<"poll">>)
      /\ \A a : Go("ix", <<a>>) => Moves("ix", <<"close", "poll">>, <<a, "poll">>)
      /\ \A a, b : Go("ix", <<a, b>>) => Moves("ix", <<"close", "poll">>, <<a, b, "poll">>)
  BY <1>1, IxPair
<1>. QED  BY <1>2 DEF ResnapshotClose

(* ... in the handlers ... *)
LEMMA IxOpened ==
    ASSUME NEW c, IxReady(c), HandleOpen
    PROVE  \/ /\ stopping /\ Moves("ix", <<"opened", "poll">>, <<"poll">>)
              /\ UNCHANGED <<state, resnap, ix>>
           \/ /\ ~stopping /\ Moves("ix", <<"opened", "poll">>, <<"restore", "poll">>)
              /\ resnap' = FALSE /\ state' = "CONNECTED"
              /\ ix' = [ix EXCEPT !.auto = @ /\ ~(resnap /\ ~ReconnectEnabled)]
<1>1. pc["ix"] = <<"opened", "poll">>
  BY IxReadyFacts, IxAt DEF HandleOpen
<1>2. /\ Go("ix", <<>>) => Moves("ix", <<"opened", "poll">>, <<"poll">>)
      /\ \A a : Go("ix", <<a>>) => Moves("ix", <<"opened", "poll">>, <<a, "poll">>)
      /\ \A a, b : Go("ix", <<a, b>>) => Moves("ix", <<"opened", "poll">>, <<a, b, "poll">>)
  BY <1>1, IxPair
<1>. QED  BY <1>2 DEF HandleOpen

LEMMA IxRestore ==
    ASSUME NEW c, IxReady(c), RestoreSubscriptions
    PROVE  \/ /\ ix.conn = "open" /\ ix' = [ix EXCEPT !.subscribed = TRUE]
              /\ Moves("ix", <<"restore", "poll">>, <<"on_connect", "poll">>)
           \/ /\ ix.conn # "open" /\ UNCHANGED ix
              /\ Moves("ix", <<"restore", "poll">>, <<"resnapshot", "poll">>)
<1>1. pc["ix"] = <<"restore", "poll">>
  BY IxReadyFacts, IxAt DEF RestoreSubscriptions
<1>2. /\ Go("ix", <<>>) => Moves("ix", <<"restore", "poll">>, <<"poll">>)
      /\ \A a : Go("ix", <<a>>) => Moves("ix", <<"restore", "poll">>, <<a, "poll">>)
      /\ \A a, b : Go("ix", <<a, b>>) => Moves("ix", <<"restore", "poll">>, <<a, b, "poll">>)
  BY <1>1, IxPair
<1>. QED  BY <1>2 DEF RestoreSubscriptions

LEMMA IxCallback ==
    ASSUME NEW c, IxReady(c), TransportCallback
    PROVE  \/ Moves("ix", <<"on_connect", "poll">>, <<"poll">>)
           \/ stopping /\ Moves("ix", <<"on_close", "dial">>, <<"dial">>)
           \/ ~stopping /\ Moves("ix", <<"on_close", "dial">>, <<"on_disconnect", "dial">>)
           \/ Moves("ix", <<"on_disconnect", "dial">>, <<"dial">>)
           \/ Moves("ix", <<"on_error", "dial">>, <<"dial">>)
<1>1. \/ At("ix", "on_connect") /\ Go("ix", <<>>)
      \/ At("ix", "on_close") /\ stopping /\ Go("ix", <<>>)
      \/ At("ix", "on_close") /\ ~stopping /\ Go("ix", <<"on_disconnect">>)
      \/ At("ix", "on_disconnect") /\ Go("ix", <<>>)
      \/ At("ix", "on_error") /\ Go("ix", <<>>)
  BY IxReadyFacts DEF TransportCallback, UserCallback
<1>2. /\ At("ix", "on_connect") => pc["ix"] = <<"on_connect", "poll">>
      /\ At("ix", "on_close") => pc["ix"] = <<"on_close", "dial">>
      /\ At("ix", "on_disconnect") => pc["ix"] = <<"on_disconnect", "dial">>
      /\ At("ix", "on_error") => pc["ix"] = <<"on_error", "dial">>
  BY IxReadyFacts, IxAt
<1>. QED  BY <1>1, <1>2, IxPair

LEMMA IxClosed ==
    ASSUME NEW c, IxReady(c), HandleClose
    PROVE  \/ /\ stopping /\ Moves("ix", <<"closed", "dial">>, <<"close_state", "dial">>)
              /\ UNCHANGED state
           \/ /\ ~stopping /\ UNCHANGED state
              /\ Moves("ix", <<"closed", "dial">>, <<"mark", "close_state", "dial">>)
           \/ /\ LifecycleFree
              /\ Moves("ix", <<"close_state", "dial">>, <<"on_close", "dial">>)
              /\ state' = IF stopping THEN state
                          ELSE IF Reconnecting THEN "RECONNECTING" ELSE "DISCONNECTED"
<1>1. /\ At("ix", "closed") => pc["ix"] = <<"closed", "dial">>
      /\ At("ix", "close_state") => pc["ix"] = <<"close_state", "dial">>
  BY IxReadyFacts, IxAt
<1>2. CASE At("ix", "closed") /\ UNCHANGED state
           /\ Go("ix", IF stopping THEN <<"close_state">> ELSE <<"mark", "close_state">>)
  BY <1>1, <1>2, IxPair
<1>3. CASE /\ At("ix", "close_state") /\ LifecycleFree /\ Go("ix", <<"on_close">>)
           /\ state' = IF stopping THEN state
                       ELSE IF Reconnecting THEN "RECONNECTING" ELSE "DISCONNECTED"
  BY <1>1, <1>3, IxPair
<1>. QED  BY <1>2, <1>3 DEF HandleClose

LEMMA IxError ==
    ASSUME NEW c, IxReady(c), HandleError
    PROVE  \/ /\ stopping /\ UNCHANGED <<state, ix>>
              /\ \/ Moves("ix", <<"error", "dial">>, <<"dial">>)
                 \/ Moves("ix", <<"error_state", "dial">>, <<"dial">>)
           \/ /\ ~stopping /\ UNCHANGED <<state, ix>>
              /\ Moves("ix", <<"error", "dial">>, <<"mark", "error_state", "dial">>)
           \/ /\ ~stopping /\ LifecycleFree
              /\ Moves("ix", <<"error_state", "dial">>, <<"on_error", "dial">>)
              /\ ix' = [ix EXCEPT !.auto = @ /\ ~LimitReached]
              /\ state' = IF Reconnecting /\ ~LimitReached THEN "RECONNECTING"
                          ELSE "DISCONNECTED"
<1>1. /\ At("ix", "error") => pc["ix"] = <<"error", "dial">>
      /\ At("ix", "error_state") => pc["ix"] = <<"error_state", "dial">>
  BY IxReadyFacts, IxAt
<1>2. CASE At("ix", "error") /\ UNCHANGED <<state, ix>>
           /\ Go("ix", IF stopping THEN <<>> ELSE <<"mark", "error_state">>)
  BY <1>1, <1>2, IxPair
<1>3. CASE /\ At("ix", "error_state") /\ LifecycleFree
           /\ IF stopping THEN Go("ix", <<>>) /\ UNCHANGED <<state, ix>>
              ELSE /\ ix' = [ix EXCEPT !.auto = @ /\ ~LimitReached]
                   /\ state' = IF Reconnecting /\ ~LimitReached THEN "RECONNECTING"
                               ELSE "DISCONNECTED"
                   /\ Go("ix", <<"on_error">>)
  BY <1>1, <1>3, IxPair
<1>. QED  BY <1>2, <1>3 DEF HandleError

(* ... and with a message. *)
LEMMA IxEnqueue ==
    ASSUME NEW c, IxReady(c), EnqueueCheck
    PROVE  \/ resnap /\ Moves("ix", <<"enqueue", "poll">>, <<"poll">>) /\ recv' = recv + 1
           \/ ~resnap /\ Moves("ix", <<"enqueue", "poll">>, <<"stamp", "poll">>) /\ recv' = recv
<1>1. pc["ix"] = <<"enqueue", "poll">>
  BY IxReadyFacts, IxAt DEF EnqueueCheck
<1>2. /\ Go("ix", <<>>) => Moves("ix", <<"enqueue", "poll">>, <<"poll">>)
      /\ \A a : Go("ix", <<a>>) => Moves("ix", <<"enqueue", "poll">>, <<a, "poll">>)
      /\ \A a, b : Go("ix", <<a, b>>) => Moves("ix", <<"enqueue", "poll">>, <<a, b, "poll">>)
  BY <1>1, IxPair
<1>. QED  BY <1>2 DEF EnqueueCheck

LEMMA IxStamp ==
    ASSUME NEW c, IxReady(c), EnqueueStamp
    PROVE  Moves("ix", <<"stamp", "poll">>, <<"push", "poll">>)
<1>1. pc["ix"] = <<"stamp", "poll">>
  BY IxReadyFacts, IxAt DEF EnqueueStamp
<1>2. /\ Go("ix", <<>>) => Moves("ix", <<"stamp", "poll">>, <<"poll">>)
      /\ \A a : Go("ix", <<a>>) => Moves("ix", <<"stamp", "poll">>, <<a, "poll">>)
      /\ \A a, b : Go("ix", <<a, b>>) => Moves("ix", <<"stamp", "poll">>, <<a, b, "poll">>)
  BY <1>1, IxPair
<1>. QED  BY <1>2 DEF EnqueueStamp

LEMMA IxPush ==
    ASSUME NEW c, IxReady(c), Push
    PROVE  \/ closed /\ Moves("ix", <<"push", "poll">>, <<"poll">>) /\ UNCHANGED queue
           \/ /\ ~closed /\ queue' = <<>>
              /\ Moves("ix", <<"push", "poll">>, <<"resnapshot", "poll">>)
           \/ /\ ~closed /\ queue' = Append(queue, msg["ix"])
              /\ Moves("ix", <<"push", "poll">>, <<"poll">>)
<1>1. pc["ix"] = <<"push", "poll">>
  BY IxReadyFacts, IxAt DEF Push
<1>2. /\ Go("ix", <<>>) => Moves("ix", <<"push", "poll">>, <<"poll">>)
      /\ \A a : Go("ix", <<a>>) => Moves("ix", <<"push", "poll">>, <<a, "poll">>)
      /\ \A a, b : Go("ix", <<a, b>>) => Moves("ix", <<"push", "poll">>, <<a, b, "poll">>)
  BY <1>1, IxPair
<1>. QED  BY <1>2 DEF Push

(* Between the handlers: the connection comes up, fails, ends or brings a message. *)
LEMMA IxSingle ==
    ASSUME NEW c, IxReady(c), NEW x \in {"dial", "poll"}, At("ix", x)
    PROVE  /\ ix.callback
           /\ \A a \in Steps : Go("ix", <<a>>) => Moves("ix", <<x>>, <<a>>)
           /\ \A a, b \in Steps : Go("ix", <<a, b>>) => Moves("ix", <<x>>, <<a, b>>)
           /\ \A a, b, d \in Steps : Go("ix", <<a, b, d>>) => Moves("ix", <<x>>, <<a, b, d>>)
<1>1. pc["ix"] = <<x>> /\ pc["ix"] # <<>>
  BY IxReadyFacts, IxAt DEF At
<1>2. ix.callback
  BY <1>1 DEF IxReady, StreamShapes
<1>. QED  BY <1>1, <1>2, IxReadyFacts, GoSingle DEF Moves

LEMMA IxDial ==
    ASSUME NEW c, IxReady(c), Dial
    PROVE  \/ CanDial /\ Moves("ix", <<"dial">>, <<"mark", "opened", "poll">>)
              /\ ix' = [ix EXCEPT !.conn = "open", !.first = FALSE, !.retries = 0,
                                  !.subscribed = FALSE]
           \/ ~CanDial /\ Moves("ix", <<"dial">>, <<"done">>) /\ UNCHANGED ix
<1>1. At("ix", "dial")
  BY DEF Dial
<1>2. {"poll", "mark", "opened", "done"} \subseteq Steps
  BY DEF Steps
<1>3. /\ ix.callback
      /\ Go("ix", <<"done">>) => Moves("ix", <<"dial">>, <<"done">>)
      /\ Go("ix", <<"mark", "opened", "poll">>)
           => Moves("ix", <<"dial">>, <<"mark", "opened", "poll">>)
  BY <1>1, <1>2, IxSingle
<1>4. Handler(<<"mark", "opened">>) \o <<"poll">> = <<"mark", "opened", "poll">>
  BY <1>3, TripleConcat DEF Handler
<1>. QED  BY <1>3, <1>4 DEF Dial

LEMMA IxDialFails ==
    ASSUME NEW c, IxReady(c), DialFails
    PROVE  Moves("ix", <<"dial">>, <<"error", "dial">>)
<1>1. At("ix", "dial")
  BY DEF DialFails
<1>2. {"error", "dial"} \subseteq Steps
  BY DEF Steps
<1>3. /\ ix.callback
      /\ Go("ix", <<"error", "dial">>) => Moves("ix", <<"dial">>, <<"error", "dial">>)
  BY <1>1, <1>2, IxSingle
<1>4. Handler(<<"error">>) \o <<"dial">> = <<"error", "dial">>
  BY <1>3, PairConcat DEF Handler
<1>. QED  BY <1>3, <1>4 DEF DialFails

LEMMA IxDrops ==
    ASSUME NEW c, IxReady(c), ConnectionDrops
    PROVE  Moves("ix", <<"poll">>, <<"closed", "dial">>)
<1>1. At("ix", "poll")
  BY DEF ConnectionDrops
<1>2. {"closed", "dial"} \subseteq Steps
  BY DEF Steps
<1>3. /\ ix.callback
      /\ Go("ix", <<"closed", "dial">>) => Moves("ix", <<"poll">>, <<"closed", "dial">>)
  BY <1>1, <1>2, IxSingle
<1>4. Handler(<<"closed">>) \o <<"dial">> = <<"closed", "dial">>
  BY <1>3, PairConcat DEF Handler
<1>. QED  BY <1>3, <1>4 DEF ConnectionDrops

LEMMA IxReceives ==
    ASSUME NEW c, IxReady(c), Receive
    PROVE  Moves("ix", <<"poll">>, <<"enqueue", "poll">>)
<1>1. At("ix", "poll")
  BY DEF Receive
<1>2. {"enqueue", "poll"} \subseteq Steps
  BY DEF Steps
<1>3. /\ ix.callback
      /\ Go("ix", <<"enqueue", "poll">>) => Moves("ix", <<"poll">>, <<"enqueue", "poll">>)
  BY <1>1, <1>2, IxSingle
<1>4. Handler(<<"enqueue">>) \o <<"poll">> = <<"enqueue", "poll">>
  BY <1>3, PairConcat DEF Handler
<1>. QED  BY <1>3, <1>4 DEF Receive

(* The message worker goes on from a stack of one, two or three steps. *)
LEMMA WorkerSingle ==
    ASSUME NEW c, IxReady(c), NEW x \in {"loop", "pop"}, At("worker", x)
    PROVE  /\ \A a \in Steps : Go("worker", <<a>>) => Moves("worker", <<x>>, <<a>>)
           /\ \A a, b \in Steps : Go("worker", <<a, b>>) => Moves("worker", <<x>>, <<a, b>>)
<1>1. pc["worker"] = <<x>>
  BY IxReadyFacts, WorkerAt
<1>. QED  BY <1>1, IxReadyFacts, GoSingle DEF Moves

LEMMA WorkerPair ==
    ASSUME NEW c, IxReady(c),
           NEW x \in {"message", "sequenced", "deliver", "typed", "resnapshot", "exchange",
                      "close"},
           At("worker", x)
    PROVE  /\ Go("worker", <<>>) => Moves("worker", <<x, "loop">>, <<"loop">>)
           /\ \A a : Go("worker", <<a>>) => Moves("worker", <<x, "loop">>, <<a, "loop">>)
           /\ \A a, b : Go("worker", <<a, b>>) => Moves("worker", <<x, "loop">>, <<a, b, "loop">>)
<1>1. pc["worker"] = <<x, "loop">>
  BY IxReadyFacts, WorkerAt
<1>. QED  BY <1>1, IxReadyFacts, GoPair DEF Moves

LEMMA WorkerTriple ==
    ASSUME NEW c, IxReady(c), NEW x \in {"mark", "discard", "gap"}, At("worker", x)
    PROVE  /\ Go("worker", <<>>) => Moves("worker", <<x, "close", "loop">>, <<"close", "loop">>)
           /\ \A a : Go("worker", <<a>>) =>
                Moves("worker", <<x, "close", "loop">>, <<a, "close", "loop">>)
<1>1. pc["worker"] = <<x, "close", "loop">>
  BY IxReadyFacts, WorkerAt
<1>. QED  BY <1>1, IxReadyFacts, GoTriple DEF Moves

LEMMA WorkerPops ==
    ASSUME NEW c, IxReady(c), WorkerLoop \/ Pop
    PROVE  \/ running /\ Moves("worker", <<"loop">>, <<"pop">>) /\ UNCHANGED <<queue, msg>>
           \/ ~running /\ Moves("worker", <<"loop">>, <<"done">>) /\ UNCHANGED <<queue, msg>>
           \/ /\ queue # <<>> /\ Moves("worker", <<"pop">>, <<"message", "loop">>)
              /\ msg' = [msg EXCEPT !["worker"] = Head(queue)] /\ queue' = Tail(queue)
           \/ closed /\ Moves("worker", <<"pop">>, <<"done">>) /\ UNCHANGED <<queue, msg>>
           \/ Moves("worker", <<"pop">>, <<"resnapshot", "loop">>) /\ UNCHANGED <<queue, msg>>
<1>1. {"pop", "done", "message", "loop", "resnapshot"} \subseteq Steps
  BY DEF Steps
<1>2. CASE WorkerLoop
  <2>1. /\ Go("worker", <<"pop">>) => Moves("worker", <<"loop">>, <<"pop">>)
        /\ Go("worker", <<"done">>) => Moves("worker", <<"loop">>, <<"done">>)
    BY <1>1, <1>2, WorkerSingle DEF WorkerLoop
  <2>. QED  BY <1>2, <2>1 DEF WorkerLoop, queueVars
<1>3. CASE Pop
  <2>1. /\ Go("worker", <<"message", "loop">>) => Moves("worker", <<"pop">>, <<"message", "loop">>)
        /\ Go("worker", <<"done">>) => Moves("worker", <<"pop">>, <<"done">>)
        /\ Go("worker", <<"resnapshot", "loop">>)
             => Moves("worker", <<"pop">>, <<"resnapshot", "loop">>)
    BY <1>1, <1>3, WorkerSingle DEF Pop
  <2>. QED  BY <1>3, <2>1 DEF Pop
<1>. QED  BY <1>2, <1>3

LEMMA WorkerDispatches ==
    ASSUME NEW c, IxReady(c), DispatchMessage
    PROVE  \/ /\ msg["worker"].gen # gen
              /\ Moves("worker", <<"message", "loop">>, <<"loop">>)
           \/ Moves("worker", <<"message", "loop">>, <<"sequenced", "loop">>)
           \/ Moves("worker", <<"message", "loop">>, <<"resnapshot", "loop">>)
           \/ Superseded /\ Moves("worker", <<"sequenced", "loop">>, <<"loop">>)
           \/ ~Superseded /\ Moves("worker", <<"sequenced", "loop">>, <<"deliver", "loop">>)
           \/ Moves("worker", <<"typed", "loop">>, <<"loop">>)
           \/ Moves("worker", <<"typed", "loop">>, <<"resnapshot", "loop">>)
<1>1. \/ At("worker", "message") /\ msg["worker"].gen # gen /\ Go("worker", <<>>)
      \/ At("worker", "message") /\ Go("worker", <<"sequenced">>)
      \/ At("worker", "message") /\ Go("worker", <<"resnapshot">>)
      \/ At("worker", "sequenced") /\ Superseded /\ Go("worker", <<>>)
      \/ At("worker", "sequenced") /\ ~Superseded /\ Go("worker", <<"deliver">>)
      \/ At("worker", "typed") /\ Go("worker", <<>>)
      \/ At("worker", "typed") /\ Go("worker", <<"resnapshot">>)
  BY IxReadyFacts DEF DispatchMessage, Callback, UserCallback
<1>. QED  BY <1>1, WorkerPair

LEMMA WorkerDelivers ==
    ASSUME NEW c, IxReady(c), Deliver
    PROVE  \/ Moves("worker", <<"deliver", "loop">>, <<"typed", "loop">>)
           \/ Moves("worker", <<"deliver", "loop">>, <<"resnapshot", "loop">>)
<1>1. At("worker", "deliver") /\ (Go("worker", <<"typed">>) \/ Go("worker", <<"resnapshot">>))
  BY IxReadyFacts DEF Deliver, Callback, UserCallback
<1>. QED  BY <1>1, WorkerPair

(* In a request_resnapshot: the message worker ... *)
LEMMA WorkerAsks ==
    ASSUME NEW c, IxReady(c)
    PROVE  /\ MarkGap("worker") =>
                \/ /\ stopping /\ Moves("worker", <<"mark", "close", "loop">>, <<"close", "loop">>)
                   /\ UNCHANGED <<gen, mark, recv, got>>
                \/ /\ ~stopping
                   /\ Moves("worker", <<"mark", "close", "loop">>, <<"discard", "close", "loop">>)
                   /\ gen' = gen + 1 /\ mark' = [mark EXCEPT !["worker"] = gen + 1]
                   /\ recv' = 0 /\ got' = 0
           /\ DiscardPending("worker") =>
                Moves("worker", <<"discard", "close", "loop">>, <<"gap", "close", "loop">>)
           /\ StreamGapCallback("worker") =>
                Moves("worker", <<"gap", "close", "loop">>, <<"close", "loop">>)
           /\ ResnapshotCheck("worker") =>
                \/ stopping /\ Moves("worker", <<"resnapshot", "loop">>, <<"loop">>)
                \/ ~stopping /\ Moves("worker", <<"resnapshot", "loop">>, <<"exchange", "loop">>)
           /\ ResnapshotExchange("worker") =>
                \/ resnap /\ Moves("worker", <<"exchange", "loop">>, <<"loop">>)
                \/ ~resnap /\ Moves("worker", <<"exchange", "loop">>, <<"mark", "close", "loop">>)
           /\ ResnapshotClose("worker") => Moves("worker", <<"close", "loop">>, <<"loop">>)
<1>1. ASSUME MarkGap("worker")
      PROVE  \/ /\ stopping /\ Moves("worker", <<"mark", "close", "loop">>, <<"close", "loop">>)
                /\ UNCHANGED <<gen, mark, recv, got>>
             \/ /\ ~stopping
                /\ Moves("worker", <<"mark", "close", "loop">>, <<"discard", "close", "loop">>)
                /\ gen' = gen + 1 /\ mark' = [mark EXCEPT !["worker"] = gen + 1]
                /\ recv' = 0 /\ got' = 0
  BY <1>1, WorkerTriple DEF MarkGap
<1>2. ASSUME DiscardPending("worker")
      PROVE  Moves("worker", <<"discard", "close", "loop">>, <<"gap", "close", "loop">>)
  BY <1>2, WorkerTriple DEF DiscardPending
<1>3. ASSUME StreamGapCallback("worker")
      PROVE  Moves("worker", <<"gap", "close", "loop">>, <<"close", "loop">>)
  BY <1>3, IxReadyFacts, WorkerTriple DEF StreamGapCallback, UserCallback
<1>4. ASSUME ResnapshotCheck("worker")
      PROVE  \/ stopping /\ Moves("worker", <<"resnapshot", "loop">>, <<"loop">>)
             \/ ~stopping /\ Moves("worker", <<"resnapshot", "loop">>, <<"exchange", "loop">>)
  BY <1>4, WorkerPair DEF ResnapshotCheck
<1>5. ASSUME ResnapshotExchange("worker")
      PROVE  \/ resnap /\ Moves("worker", <<"exchange", "loop">>, <<"loop">>)
             \/ ~resnap /\ Moves("worker", <<"exchange", "loop">>, <<"mark", "close", "loop">>)
  BY <1>5, WorkerPair DEF ResnapshotExchange
<1>6. ASSUME ResnapshotClose("worker")
      PROVE  Moves("worker", <<"close", "loop">>, <<"loop">>)
  BY <1>6, WorkerPair DEF ResnapshotClose
<1>. QED  BY <1>1, <1>2, <1>3, <1>4, <1>5, <1>6

(* ... and the user's thread. *)
LEMMA CallerAsks ==
    ASSUME NEW c, IxReady(c)
    PROVE  /\ MarkGap(c) =>
                \/ stopping /\ Moves(c, <<"mark", "close">>, <<"close">>)
                   /\ UNCHANGED <<gen, mark, recv, got>>
                \/ /\ ~stopping /\ Moves(c, <<"mark", "close">>, <<"discard", "close">>)
                   /\ gen' = gen + 1 /\ mark' = [mark EXCEPT ![c] = gen + 1]
                   /\ recv' = 0 /\ got' = 0
           /\ DiscardPending(c) => Moves(c, <<"discard", "close">>, <<"gap", "close">>)
           /\ StreamGapCallback(c) => Moves(c, <<"gap", "close">>, <<"close">>)
           /\ ResnapshotCheck(c) =>
                Moves(c, <<"resnapshot">>, <<>>) \/ Moves(c, <<"resnapshot">>, <<"exchange">>)
           /\ ResnapshotExchange(c) =>
                \/ resnap /\ Moves(c, <<"exchange">>, <<>>)
                \/ ~resnap /\ Moves(c, <<"exchange">>, <<"mark", "close">>)
           /\ ResnapshotClose(c) => Moves(c, <<"close">>, <<>>)
<1>0. /\ StacksOK /\ c \in Threads /\ ~CallbackStops
      /\ pc[c] \in CallStacks \cup AwaitStacks \cup DisconnectStacks
  BY IxReadyFacts DEF IxReady, StopInv, StopShapes
<1>s. {"exchange", "mark", "close", "discard", "gap"} \subseteq Steps
  BY DEF Steps
<1>1. ASSUME NEW x \in {"mark", "discard", "gap"}, At(c, x)
      PROVE  /\ Go(c, <<>>) => Moves(c, <<x, "close">>, <<"close">>)
             /\ \A a : Go(c, <<a>>) => Moves(c, <<x, "close">>, <<a, "close">>)
  <2>1. pc[c] = <<x, "close">>
    BY <1>0, <1>1, CallerAt
  <2>. QED  BY <1>0, <2>1, GoPair DEF Moves
<1>2. ASSUME NEW x \in {"resnapshot", "exchange", "close"}, At(c, x)
      PROVE  /\ Go(c, <<>>) => Moves(c, <<x>>, <<>>)
             /\ \A a \in Steps : Go(c, <<a>>) => Moves(c, <<x>>, <<a>>)
             /\ \A a, b \in Steps : Go(c, <<a, b>>) => Moves(c, <<x>>, <<a, b>>)
  <2>1. pc[c] = <<x>>
    BY <1>0, <1>2, CallerAt
  <2>. QED  BY <1>0, <2>1, GoSingle DEF Moves
<1>3. ASSUME MarkGap(c)
      PROVE  \/ stopping /\ Moves(c, <<"mark", "close">>, <<"close">>)
                /\ UNCHANGED <<gen, mark, recv, got>>
             \/ /\ ~stopping /\ Moves(c, <<"mark", "close">>, <<"discard", "close">>)
                /\ gen' = gen + 1 /\ mark' = [mark EXCEPT ![c] = gen + 1]
                /\ recv' = 0 /\ got' = 0
  BY <1>1, <1>3 DEF MarkGap
<1>4. ASSUME DiscardPending(c) PROVE Moves(c, <<"discard", "close">>, <<"gap", "close">>)
  BY <1>1, <1>4 DEF DiscardPending
<1>5. ASSUME StreamGapCallback(c) PROVE Moves(c, <<"gap", "close">>, <<"close">>)
  BY <1>0, <1>1, <1>5 DEF StreamGapCallback, UserCallback
<1>6. ASSUME ResnapshotCheck(c)
      PROVE  Moves(c, <<"resnapshot">>, <<>>) \/ Moves(c, <<"resnapshot">>, <<"exchange">>)
  BY <1>s, <1>2, <1>6 DEF ResnapshotCheck
<1>7. ASSUME ResnapshotExchange(c)
      PROVE  \/ resnap /\ Moves(c, <<"exchange">>, <<>>)
             \/ ~resnap /\ Moves(c, <<"exchange">>, <<"mark", "close">>)
  BY <1>s, <1>2, <1>7 DEF ResnapshotExchange
<1>8. ASSUME ResnapshotClose(c) PROVE Moves(c, <<"close">>, <<>>)
  BY <1>2, <1>8 DEF ResnapshotClose
<1>. QED  BY <1>3, <1>4, <1>5, <1>6, <1>7, <1>8

-----------------------------------------------------------------------------
(* The shapes are kept.                                                    *)

(* A step of the IX thread that says whether the connection is up afterwards. *)
LEMMA ShapesIxMove ==
    ASSUME NEW c, IxReady(c), NEW from, NEW to \in IxStacks, Moves("ix", from, to), from # <<>>,
           UNCHANGED <<stopping, active, requested>>,
           to \in PollStacks <=> ix'.conn # "down", ix'.callback = ix.callback,
           UNCHANGED state \/ LifecycleFree
    PROVE  StreamShapes(c)'
<1>1. /\ pc'["ix"] = to /\ pc'["worker"] = pc["worker"] /\ pc'[c] = pc[c]
      /\ pc'["teardown"] = pc["teardown"]
  BY IxReadyFacts DEF Moves
<1>2. pc["ix"] # <<>> /\ ix.callback
  BY DEF Moves, IxReady, StreamShapes
<1>3. LifecycleFree => pc[c] # <<"launch">>
  BY DEF LifecycleFree, At, IxReady, OneCaller
<1>4. active
  BY <1>2 DEF IxReady, StopInv, StopLeaves
<1>5. pc[c] \notin DisconnectStacks
  BY <1>4 DEF IxReady, StreamShapes
<1>6. pc[c] = <<"launch">> => state' = "DISCONNECTED"
  BY <1>3 DEF IxReady, StreamShapes
<1>7. pc["worker"] \in WorkerStacks /\ (requested => stopping)
      /\ (pc["teardown"] \in WorkerJoinedStacks => pc["worker"] = <<>>)
      /\ (~active => pc["worker"] = <<>>)
  BY DEF IxReady, StreamShapes
<1>. QED  BY <1>1, <1>2, <1>5, <1>6, <1>7 DEF StreamShapes

(* The stacks inside mark_stream_gap are of one kind. *)
LEMMA MarkingKeeps ==
    ASSUME NEW y \in Marked, NEW s, NEW u,
           s \in {<<"mark", y, Base(y)>>, <<"discard", y, Base(y)>>, <<"gap", y, Base(y)>>,
                  <<y, Base(y)>>},
           u \in {<<"mark", y, Base(y)>>, <<"discard", y, Base(y)>>, <<"gap", y, Base(y)>>,
                  <<y, Base(y)>>}
    PROVE  /\ s \in IxStacks /\ s # <<>>
           /\ s \in PollStacks <=> u \in PollStacks
           /\ s \in OpeningStacks <=> y = "opened"
           /\ s \in AskingStacks("poll") <=> y = "close"
           /\ s \in ClosingStacks <=> y = "close_state"
           /\ s \in ErrorStacks <=> y = "error_state"
           /\ s \notin FlowingStacks /\ s \notin ClosedStacks /\ s \notin RestStacks
<1>. USE DEF Base, OpeningStacks, AskingStacks, ClosingStacks, ErrorStacks, FlowingStacks,
             ClosedStacks, RestStacks
<1>1. CASE y = "opened"
  BY <1>1 DEF PollStacks, DialStacks, OpenStacks, IxStacks
<1>2. CASE y = "close"
  BY <1>2 DEF PollStacks, DialStacks, OpenStacks, IxStacks
<1>3. CASE y = "close_state"
  BY <1>3 DEF PollStacks, DialStacks, OpenStacks, IxStacks
<1>4. CASE y = "error_state"
  BY <1>4 DEF PollStacks, DialStacks, OpenStacks, IxStacks
<1>. QED  BY <1>1, <1>2, <1>3, <1>4 DEF Marked

(* The other stacks, one by one. *)
LEMMA PollKinds ==
    /\ {<<"poll">>, <<"restore", "poll">>, <<"on_connect", "poll">>, <<"enqueue", "poll">>,
        <<"stamp", "poll">>, <<"push", "poll">>, <<"resnapshot", "poll">>, <<"exchange", "poll">>,
        <<"mark", "close", "poll">>, <<"mark", "opened", "poll">>} \subseteq PollStacks
    /\ PollStacks \subseteq IxStacks
BY DEF PollStacks, OpeningStacks, OpenStacks, FlowingStacks, AskingStacks, IxStacks

LEMMA DialKinds ==
    /\ {<<"dial">>, <<"done">>, <<"closed", "dial">>, <<"close_state", "dial">>,
        <<"mark", "close_state", "dial">>, <<"on_close", "dial">>, <<"on_disconnect", "dial">>,
        <<"error", "dial">>, <<"mark", "error_state", "dial">>, <<"error_state", "dial">>,
        <<"on_error", "dial">>, <<>>} \subseteq DialStacks
    /\ DialStacks \subseteq IxStacks
    /\ \A s \in DialStacks : s \notin PollStacks
<1>1. \A s \in DialStacks : s \notin PollStacks
  BY StacksApart DEF PollStacks
<1>. QED  BY <1>1 DEF DialStacks, ClosingStacks, ClosedStacks, ErrorStacks, RestStacks, IxStacks

LEMMA ShapesIxGap ==
    ASSUME NEW c, IxReady(c), GapStep("ix")
    PROVE  StreamShapes(c)'
<1>. USE DEF flagVars, teardownVars
<1>0. /\ UNCHANGED <<stopping, active, requested, state>> /\ ix'.callback = ix.callback
      /\ (ix'.conn # "down" <=> ix.conn # "down")
  <2>1. UNCHANGED <<stopping, active, requested, state>>
    BY DEF GapStep, MarkGap, DiscardPending, StreamGapCallback, ResnapshotCheck,
       ResnapshotExchange, ResnapshotClose
  <2>2. CASE ResnapshotClose("ix")
    BY <2>1, <2>2, IxReadyFacts DEF ResnapshotClose, IxType
  <2>3. CASE UNCHANGED ix
    BY <2>1, <2>3
  <2>. QED  BY <2>1, <2>2, <2>3 DEF GapStep, MarkGap, DiscardPending, StreamGapCallback,
               ResnapshotCheck, ResnapshotExchange
<1>1. pc["ix"] \in PollStacks <=> ix.conn # "down"
  BY DEF IxReady, StreamShapes
<1>2. ASSUME NEW y \in Marked, NEW from, NEW to,
             from \in {<<"mark", y, Base(y)>>, <<"discard", y, Base(y)>>, <<"gap", y, Base(y)>>},
             to \in {<<"discard", y, Base(y)>>, <<"gap", y, Base(y)>>, <<y, Base(y)>>},
             Moves("ix", from, to)
      PROVE  StreamShapes(c)'
  <2>1. to \in IxStacks /\ from # <<>> /\ (from \in PollStacks <=> to \in PollStacks)
    BY <1>2, MarkingKeeps
  <2>2. pc["ix"] = from
    BY <1>2 DEF Moves
  <2>. QED  BY <1>0, <1>1, <1>2, <2>1, <2>2, ShapesIxMove
<1>3. ASSUME NEW from \in PollStacks, NEW to \in PollStacks, Moves("ix", from, to), from # <<>>
      PROVE  StreamShapes(c)'
  <2>1. pc["ix"] = from
    BY <1>3 DEF Moves
  <2>. QED  BY <1>0, <1>1, <1>3, <2>1, PollKinds, ShapesIxMove
<1>4. /\ <<"resnapshot", "poll">> # <<>> /\ <<"exchange", "poll">> # <<>>
      /\ <<"close", "poll">> # <<>> /\ <<"close", "poll">> \in PollStacks
  BY DEF PollStacks, OpenStacks, AskingStacks
<1>5. CASE MarkGap("ix")
  <2>1. PICK y \in Marked : \/ Moves("ix", <<"mark", y, Base(y)>>, <<y, Base(y)>>)
                            \/ Moves("ix", <<"mark", y, Base(y)>>, <<"discard", y, Base(y)>>)
    BY <1>5, IxMark
  <2>. QED  BY <1>2, <2>1
<1>6. CASE DiscardPending("ix")
  BY <1>2, <1>6, IxDiscard
<1>7. CASE StreamGapCallback("ix")
  <2>1. PICK y \in Marked : Moves("ix", <<"gap", y, Base(y)>>, <<y, Base(y)>>)
    BY <1>7, IxGap
  <2>. QED  BY <1>2, <2>1
<1>8. CASE ResnapshotCheck("ix")
  BY <1>3, <1>4, <1>8, IxResnapshot, PollKinds
<1>9. CASE ResnapshotExchange("ix")
  BY <1>3, <1>4, <1>9, IxExchange, PollKinds
<1>10. CASE ResnapshotClose("ix")
  BY <1>3, <1>4, <1>10, IxClose, PollKinds
<1>. QED  BY <1>5, <1>6, <1>7, <1>8, <1>9, <1>10 DEF GapStep

LEMMA ShapesIx ==
    ASSUME NEW c, IxReady(c), IxStep \/ Environment
    PROVE  StreamShapes(c)'
<1>. USE DEF flagVars, teardownVars
<1>0. UNCHANGED <<stopping, active, requested>>
  BY IxGoes
<1>1. (pc["ix"] \in PollStacks <=> ix.conn # "down") /\ ix \in IxType
  BY IxReadyFacts DEF IxReady, StreamShapes
<1>2. ASSUME NEW from \in PollStacks, NEW to \in PollStacks, Moves("ix", from, to), from # <<>>,
             ix'.conn = ix.conn, ix'.callback = ix.callback, UNCHANGED state \/ LifecycleFree
      PROVE  StreamShapes(c)'
  <2>1. pc["ix"] = from
    BY <1>2 DEF Moves
  <2>. QED  BY <1>0, <1>1, <1>2, <2>1, PollKinds, ShapesIxMove
<1>3. ASSUME NEW from \in DialStacks, NEW to \in DialStacks, Moves("ix", from, to), from # <<>>,
             ix'.conn = ix.conn, ix'.callback = ix.callback, UNCHANGED state \/ LifecycleFree
      PROVE  StreamShapes(c)'
  <2>1. pc["ix"] = from
    BY <1>3 DEF Moves
  <2>. QED  BY <1>0, <1>1, <1>3, <2>1, DialKinds, ShapesIxMove
<1>4. /\ \A x, y : <<x, y>> # <<>>
      /\ <<"dial">> # <<>> /\ <<"poll">> # <<>> /\ <<"opened", "poll">> \in PollStacks
  BY DEF PollStacks, OpeningStacks
<1>5. CASE HandleOpen
  <2>1. ix'.conn = ix.conn /\ ix'.callback = ix.callback /\ LifecycleFree
    BY <1>1, <1>5 DEF HandleOpen, IxType
  <2>. QED  BY <1>2, <1>4, <1>5, <2>1, IxOpened, PollKinds
<1>6. CASE RestoreSubscriptions
  <2>1. ix'.conn = ix.conn /\ ix'.callback = ix.callback /\ UNCHANGED state
    BY <1>1, <1>6 DEF RestoreSubscriptions, IxType
  <2>. QED  BY <1>2, <1>4, <1>6, <2>1, IxRestore, PollKinds
<1>7. CASE TransportCallback
  <2>1. ix' = ix /\ state' = state
    BY <1>7 DEF TransportCallback
  <2>. QED  BY <1>2, <1>3, <1>4, <1>7, <2>1, IxCallback, PollKinds, DialKinds
<1>8. CASE HandleClose
  <2>1. ix' = ix
    BY <1>8 DEF HandleClose
  <2>. QED  BY <1>3, <1>4, <1>8, <2>1, IxClosed, DialKinds
<1>9. CASE HandleError
  <2>1. ix'.conn = ix.conn /\ ix'.callback = ix.callback
    BY <1>1, <1>9 DEF HandleError, IxType
  <2>. QED  BY <1>3, <1>4, <1>9, <2>1, IxError, DialKinds
<1>10. CASE EnqueueCheck
  <2>1. ix' = ix /\ state' = state
    BY <1>10 DEF EnqueueCheck
  <2>. QED  BY <1>2, <1>4, <1>10, <2>1, IxEnqueue, PollKinds
<1>11. CASE EnqueueStamp
  <2>1. ix' = ix /\ state' = state
    BY <1>11 DEF EnqueueStamp
  <2>. QED  BY <1>2, <1>4, <1>11, <2>1, IxStamp, PollKinds
<1>12. CASE Push
  <2>1. ix' = ix /\ state' = state
    BY <1>12 DEF Push
  <2>. QED  BY <1>2, <1>4, <1>12, <2>1, IxPush, PollKinds
<1>13. CASE Dial
  <2>1. state' = state
    BY <1>13 DEF Dial
  <2>2. CASE /\ CanDial /\ Moves("ix", <<"dial">>, <<"mark", "opened", "poll">>)
             /\ ix' = [ix EXCEPT !.conn = "open", !.first = FALSE, !.retries = 0,
                                 !.subscribed = FALSE]
    <3>1. ix'.conn # "down" /\ ix'.callback = ix.callback
      BY <1>1, <2>2 DEF IxType
    <3>2. <<"mark", "opened", "poll">> \in PollStacks /\ <<"mark", "opened", "poll">> \in IxStacks
      BY PollKinds
    <3>. QED  BY <1>0, <1>4, <2>1, <2>2, <3>1, <3>2, ShapesIxMove
  <2>3. CASE Moves("ix", <<"dial">>, <<"done">>) /\ UNCHANGED ix
    BY <1>3, <1>4, <2>1, <2>3, DialKinds
  <2>. QED  BY <1>13, <2>2, <2>3, IxDial
<1>14. CASE DialFails
  <2>1. ix'.conn = ix.conn /\ ix'.callback = ix.callback /\ state' = state
    BY <1>1, <1>14 DEF DialFails, IxType
  <2>. QED  BY <1>3, <1>4, <1>14, <2>1, IxDialFails, DialKinds
<1>15. CASE ConnectionDrops
  <2>1. ix'.conn = "down" /\ ix'.callback = ix.callback /\ state' = state
    BY <1>1, <1>15 DEF ConnectionDrops, IxType
  <2>2. <<"closed", "dial">> \notin PollStacks /\ <<"closed", "dial">> \in IxStacks
    BY DialKinds
  <2>. QED  BY <1>0, <1>4, <1>15, <2>1, <2>2, IxDrops, ShapesIxMove
<1>16. CASE Receive
  <2>1. ix' = ix /\ state' = state
    BY <1>16 DEF Receive
  <2>. QED  BY <1>2, <1>4, <1>16, <2>1, IxReceives, PollKinds
<1>. QED  BY <1>5, <1>6, <1>7, <1>8, <1>9, <1>10, <1>11, <1>12, <1>13, <1>14, <1>15, <1>16
             DEF IxStep, Environment

LEMMA ShapesWorkerMove ==
    ASSUME NEW c, IxReady(c), NEW from, NEW to \in WorkerStacks, Moves("worker", from, to),
           from # <<>>, UNCHANGED <<stopping, active, requested, state>>,
           ix'.conn # "down" <=> ix.conn # "down", ix'.callback = ix.callback
    PROVE  StreamShapes(c)'
<1>1. /\ pc'["worker"] = to /\ pc'["ix"] = pc["ix"] /\ pc'[c] = pc[c]
      /\ pc'["teardown"] = pc["teardown"] /\ pc["worker"] # <<>>
  BY IxReadyFacts DEF Moves
<1>. QED  BY <1>1 DEF StreamShapes, IxReady

LEMMA ShapesWorker ==
    ASSUME NEW c, IxReady(c), WorkerStep \/ GapStep("worker")
    PROVE  StreamShapes(c)'
<1>. USE DEF flagVars, teardownVars
<1>0. UNCHANGED <<stopping, active, requested, state>>
  BY WorkerGoes
<1>1. ix'.callback = ix.callback /\ (ix'.conn # "down" <=> ix.conn # "down")
  <2>1. CASE ResnapshotClose("worker")
    BY <2>1, IxReadyFacts DEF ResnapshotClose, IxType
  <2>2. CASE UNCHANGED ix
    BY <2>2
  <2>. QED  BY <2>1, <2>2 DEF GapStep, MarkGap, DiscardPending, StreamGapCallback, ResnapshotCheck,
               ResnapshotExchange, WorkerStep, WorkerLoop, Pop, DispatchMessage, Deliver
<1>2. ASSUME NEW from, NEW to \in WorkerStacks, Moves("worker", from, to), from # <<>>
      PROVE  StreamShapes(c)'
  BY <1>0, <1>1, <1>2, ShapesWorkerMove
<1>3. /\ {<<"loop">>, <<"pop">>, <<"done">>, <<"message", "loop">>, <<"sequenced", "loop">>,
          <<"deliver", "loop">>, <<"typed", "loop">>, <<"resnapshot", "loop">>,
          <<"exchange", "loop">>, <<"close", "loop">>, <<"mark", "close", "loop">>,
          <<"discard", "close", "loop">>, <<"gap", "close", "loop">>} \subseteq WorkerStacks
      /\ (\A x, y : <<x, y>> # <<>>) /\ (\A x, y, z : <<x, y, z>> # <<>>) /\ (\A x : <<x>> # <<>>)
  BY DEF WorkerStacks, HoldingStacks, AskingStacks
<1>4. CASE WorkerLoop \/ Pop
  BY <1>2, <1>3, <1>4, WorkerPops
<1>5. CASE DispatchMessage
  BY <1>2, <1>3, <1>5, WorkerDispatches
<1>6. CASE Deliver
  BY <1>2, <1>3, <1>6, WorkerDelivers
<1>7. CASE GapStep("worker")
  BY <1>2, <1>3, <1>7, WorkerAsks DEF GapStep
<1>. QED  BY <1>4, <1>5, <1>6, <1>7 DEF WorkerStep

(* What the user's thread does outside mark_stream_gap. *)
QuietCalls ==
    {<<>>, <<"connect">>, <<"check">>, <<"retire">>, <<"request", "await", "start">>,
     <<"start">>, <<"launch">>, <<"disconnect">>, <<"resnapshot">>, <<"exchange">>}
        \cup AwaitStacks \cup DisconnectStacks
GapCalls == {<<"mark", "close">>, <<"discard", "close">>, <<"gap", "close">>, <<"close">>}

LEMMA CallKinds ==
    /\ CallStacks \cup AwaitStacks \cup DisconnectStacks = QuietCalls \cup GapCalls
    /\ \A s \in QuietCalls : s \notin GapCalls
    /\ \A s \in GapCalls : s \notin AwaitStacks /\ s \notin DisconnectStacks /\ s # <<"launch">>
BY DEF CallStacks, QuietCalls, GapCalls, AwaitStacks, DisconnectStacks, TeardownSteps

(* What holds of the caller in each of its steps. *)
LEMMA CallerReady ==
    ASSUME NEW c, IxReady(c)
    PROVE  /\ pc[c] \in CallStacks \cup AwaitStacks \cup DisconnectStacks
           /\ pc[c] \in CallStacks =>
                /\ ~stopping /\ ~requested /\ pc[c] \notin DisconnectStacks
                /\ pc[c] \notin AwaitStacks /\ pc["teardown"] \in {<<>>, <<"wait">>}
           /\ ~active => pc["ix"] = <<>> /\ pc["worker"] = <<>> /\ ix.conn = "down"
           /\ stopping => active /\ requested /\ pc[c] \in AwaitStacks
<1>1. pc[c] \in CallStacks \cup AwaitStacks \cup DisconnectStacks
  BY DEF IxReady, StopInv, StopShapes
<1>2. ASSUME pc[c] \in CallStacks
      PROVE  /\ ~stopping /\ ~requested /\ pc[c] \notin DisconnectStacks
             /\ pc[c] \notin AwaitStacks /\ pc["teardown"] \in {<<>>, <<"wait">>}
  BY <1>2, StacksDisjoint, NotWaiting DEF IxReady
<1>3. ASSUME ~active PROVE pc["ix"] = <<>> /\ pc["worker"] = <<>> /\ ix.conn = "down"
  <2>1. pc["ix"] = <<>> /\ pc["worker"] = <<>>
    BY <1>3 DEF IxReady, StreamShapes, StopInv, StopLeaves
  <2>2. <<>> \notin PollStacks
    BY DialKinds
  <2>. QED  BY <2>1, <2>2 DEF IxReady, StreamShapes
<1>4. stopping => active /\ requested /\ pc[c] \in AwaitStacks
  BY DEF IxReady, StopInv, StopWaits
<1>. QED  BY <1>1, <1>2, <1>3, <1>4

(* The caller's steps that change only where the caller is. *)
CallerMovesOn(c) ==
    \/ CallConnect(c) \/ CallDisconnect(c) \/ CallResnapshot(c) \/ ConnectEntry(c)
    \/ (ConnectRetire(c) /\ At(c, "retire")) \/ AwaitTransportStop(c)
    \/ (ConnectStart(c) /\ state # "DISCONNECTED")

LEMMA CallerPasses ==
    ASSUME NEW c, IxReady(c), CallerMovesOn(c)
    PROVE  /\ UNCHANGED <<state, flagVars, teardownVars, queueVars, ix, msg, streamVars>>
           /\ \E from, to \in (QuietCalls \ {<<"launch">>}) \ DisconnectStacks : Moves(c, from, to)
           /\ ~stopping
<1>. USE DEF flagVars, teardownVars
<1>c. c \in Threads /\ StacksOK /\ pc \in [Threads -> Seq(Steps)]
  BY IxReadyFacts
<1>s. pc[c] \in CallStacks \cup AwaitStacks \cup DisconnectStacks
  BY CallerReady
<1>q. /\ <<>> \in Seq(Steps) /\ <<"await", "check">> \in Seq(Steps) /\ <<"check">> \in Seq(Steps)
      /\ <<"retire">> \in Seq(Steps) /\ <<"start">> \in Seq(Steps)
      /\ <<"request", "await", "start">> \in Seq(Steps)
  BY DEF Steps
<1>. DEFINE Q == (QuietCalls \ {<<"launch">>}) \ DisconnectStacks
<1>m. /\ \A x \in {<<>>, <<"connect">>, <<"check">>, <<"retire">>, <<"start">>, <<"disconnect">>,
                   <<"resnapshot">>, <<"request", "await", "start">>} : x \in Q /\ x \in CallStacks
      /\ \A x \in AwaitStacks : x \in Q
  BY DEF CallStacks, AwaitStacks, DisconnectStacks, QuietCalls, TeardownSteps
<1>. HIDE DEF Q
<1>u. UNCHANGED <<state, flagVars, teardownVars, queueVars, ix, msg, streamVars>>
  <2>1. CASE ConnectRetire(c) /\ At(c, "retire")
    BY <2>1 DEF ConnectRetire, At
  <2>2. CASE ConnectStart(c) /\ state # "DISCONNECTED"
    BY <2>2 DEF ConnectStart, queueVars
  <2>. QED  BY <2>1, <2>2 DEF CallerMovesOn, CallConnect, CallDisconnect, CallResnapshot,
               ConnectEntry, AwaitTransportStop
<1>a. ASSUME NEW from \in Q, NEW to \in Q, from \in CallStacks, Moves(c, from, to)
      PROVE  ~stopping /\ \E f, t \in Q : Moves(c, f, t)
  BY <1>a, CallerReady DEF Moves
<1>1. CASE CallConnect(c) \/ CallDisconnect(c) \/ CallResnapshot(c)
  <2>1. pc[c] = <<>>
    BY <1>1 DEF CallConnect, CallDisconnect, CallResnapshot
  <2>2. \E s \in {<<"connect">>, <<"disconnect">>, <<"resnapshot">>} : pc' = [pc EXCEPT ![c] = s]
    BY <1>1 DEF CallConnect, CallDisconnect, CallResnapshot
  <2>. QED  BY <1>u, <1>a, <1>m, <2>1, <2>2 DEF Moves, Q
<1>2. CASE ConnectEntry(c)
  <2>1. pc[c] = <<"connect">> \/ pc[c] = <<"check">>
    BY <1>2, <1>s, CallerAt DEF ConnectEntry
  <2>2. \E s \in {<<"await", "check">>, <<"check">>, <<"retire">>, <<"start">>} :
           pc' = [pc EXCEPT ![c] = s]
    BY <1>2, <1>c, <1>q, <2>1, GoAlone DEF ConnectEntry
  <2>3. <<"await", "check">> \in AwaitStacks
    BY DEF AwaitStacks
  <2>. QED  BY <1>u, <1>a, <1>m, <2>1, <2>2, <2>3 DEF Moves, Q
<1>3. CASE ConnectRetire(c) /\ At(c, "retire")
  <2>1. pc[c] = <<"retire">> /\ ~At(c, "request")
    BY <1>3, <1>s, CallerAt DEF At
  <2>2. \E s \in {<<"request", "await", "start">>, <<"start">>} : pc' = [pc EXCEPT ![c] = s]
    BY <1>3, <1>c, <1>q, <2>1, GoAlone DEF ConnectRetire
  <2>. QED  BY <1>u, <1>a, <1>m, <2>1, <2>2 DEF Moves, Q
<1>4. CASE AwaitTransportStop(c)
  <2>1. pc[c] \in AwaitStacks /\ ~active
    BY <1>4, <1>s, CallerAt DEF AwaitTransportStop
  <2>2. ~stopping
    BY <2>1, CallerReady
  <2>3. pc' = [pc EXCEPT ![c] = Tail(pc[c])]
    BY <1>4, <1>c, GoOn DEF AwaitTransportStop, At
  <2>4. Tail(pc[c]) \in {<<>>, <<"check">>, <<"start">>}
    <3>1. CASE pc[c] = <<"await">>
      BY <3>1
    <3>2. CASE pc[c] = <<"await", "check">>
      BY <3>2
    <3>3. CASE pc[c] = <<"await", "start">>
      BY <3>3
    <3>. QED  BY <2>1, <3>1, <3>2, <3>3 DEF AwaitStacks
  <2>5. Tail(pc[c]) \in Q /\ pc[c] \in Q
    BY <1>m, <2>1, <2>4
  <2>6. Moves(c, pc[c], Tail(pc[c]))
    BY <2>3 DEF Moves
  <2>. QED  BY <1>u, <2>2, <2>5, <2>6 DEF Q
<1>5. CASE ConnectStart(c) /\ state # "DISCONNECTED"
  <2>1. pc[c] = <<"start">>
    BY <1>5, <1>s, CallerAt DEF ConnectStart
  <2>2. pc' = [pc EXCEPT ![c] = <<>>]
    BY <1>5, <2>1, <1>c, <1>q, GoAlone DEF ConnectStart
  <2>. QED  BY <1>u, <1>a, <1>m, <2>1, <2>2 DEF Moves, Q
<1>. QED  BY <1>1, <1>2, <1>3, <1>4, <1>5 DEF CallerMovesOn

(* connect asks the transport worker of a lost transport to stop. *)
LEMMA CallerRetires ==
    ASSUME NEW c, IxReady(c), ConnectRetire(c), ~At(c, "retire")
    PROVE  /\ Moves(c, <<"request", "await", "start">>, <<"await", "start">>) /\ ~stopping
           /\ (stopping' <=> active) /\ (requested' <=> active)
           /\ UNCHANGED <<state, resnap, running, active, queueVars, ix, msg, streamVars>>
<1>1. At(c, "request")
  BY DEF ConnectRetire
<1>p. pc[c] = <<"request", "await", "start">>
  BY <1>1, CallerReady, CallerAt
<1>2. pc[c] = <<"request", "await", "start">> /\ pc[c] # <<>> /\ Tail(pc[c]) = <<"await", "start">>
  BY <1>p
<1>3. Moves(c, <<"request", "await", "start">>, <<"await", "start">>)
  BY <1>2, IxReadyFacts, GoOn DEF ConnectRetire, Moves
<1>4. pc[c] \in CallStacks
  BY <1>2 DEF CallStacks
<1>5. ~stopping /\ ~requested /\ active \in BOOLEAN
  BY <1>4, CallerReady DEF IxReady, StopInv, TypeParts, FlagsOK
<1>. QED  BY <1>3, <1>5 DEF ConnectRetire

(* connect starts the transport worker, unless it fails ... *)
LEMMA CallerStarts ==
    ASSUME NEW c, IxReady(c), ConnectStart(c), state = "DISCONNECTED"
    PROVE  /\ pc[c] = <<"start">> /\ ~stopping /\ ~requested
           /\ \/ /\ pc' = [pc EXCEPT ![c] = <<"launch">>,
                                     !["teardown"] = IF active THEN @ ELSE <<"wait">>]
                 /\ active' /\ ~requested' /\ ~stopping'
                 /\ UNCHANGED <<state, running, closed>>
              \/ /\ Moves(c, <<"start">>, IF active THEN <<"await">> ELSE TeardownSteps)
                 /\ state' = "CLOSING" /\ closed' = TRUE /\ running' = FALSE
                 /\ (stopping' <=> active) /\ (requested' <=> active) /\ UNCHANGED active
           /\ UNCHANGED <<resnap, queue, ix, msg, streamVars>>
<1>1. pc[c] = <<"start">>
  BY CallerReady, CallerAt DEF ConnectStart
<1>2. Tail(pc[c]) = <<>> /\ <<"launch">> \o <<>> = <<"launch">>
  BY <1>1
<1>3. pc[c] \in CallStacks
  BY <1>1 DEF CallStacks
<1>4. ~stopping /\ ~requested /\ active \in BOOLEAN
  BY <1>3, CallerReady DEF IxReady, StopInv, TypeParts, FlagsOK
<1>5. CASE /\ pc' = [pc EXCEPT ![c] = <<"launch">> \o Tail(@),
                              !["teardown"] = IF active THEN @ ELSE <<"wait">>]
           /\ active' = TRUE /\ requested' = (requested /\ active)
           /\ stopping' = (stopping /\ active)
           /\ UNCHANGED <<state, running, closed, budget>>
  <2>1. pc' = [pc EXCEPT ![c] = <<"launch">>, !["teardown"] = IF active THEN @ ELSE <<"wait">>]
    BY <1>2, <1>5
  <2>. QED  BY <1>1, <1>4, <1>5, <2>1 DEF ConnectStart
<1>6. CASE /\ state' = "CLOSING" /\ closed' = TRUE /\ running' = FALSE
           /\ stopping' = (stopping \/ active) /\ requested' = (requested \/ active)
           /\ Go(c, IF active THEN <<"await">> ELSE TeardownSteps)
           /\ UNCHANGED active
  <2>1. <<"await">> \in Seq(Steps) /\ TeardownSteps \in Seq(Steps)
    BY PushedSteps DEF Steps
  <2>2. Moves(c, <<"start">>, IF active THEN <<"await">> ELSE TeardownSteps)
    BY <1>1, <1>6, <2>1, IxReadyFacts, GoAlone DEF Moves
  <2>. QED  BY <1>1, <1>4, <1>6, <2>2 DEF ConnectStart
<1>. QED  BY <1>5, <1>6 DEF ConnectStart

(* ... and then the transport. *)
LEMMA CallerLaunches ==
    ASSUME NEW c, IxReady(c), ConnectLaunch(c)
    PROVE  /\ pc[c] = <<"launch">> /\ state = "DISCONNECTED" /\ ~stopping /\ active
           /\ pc' = [pc EXCEPT ![c] = <<>>,
                        !["worker"] = IF running THEN @ ELSE <<"loop">>,
                        !["ix"] = IF @ = <<>> THEN <<"dial">> ELSE @]
           /\ pc'[c] = <<>> /\ pc'["worker"] = (IF running THEN pc["worker"] ELSE <<"loop">>)
           /\ pc'["ix"] = (IF pc["ix"] = <<>> THEN <<"dial">> ELSE pc["ix"])
           /\ pc'["teardown"] = pc["teardown"]
<1>1. pc[c] = <<"launch">>
  BY CallerReady, CallerAt DEF ConnectLaunch
<1>2. Tail(pc[c]) = <<>> /\ pc[c] \in CallStacks
  BY <1>1 DEF CallStacks
<1>3. ~stopping /\ state = "DISCONNECTED" /\ active
  BY <1>1, <1>2, CallerReady DEF IxReady, StreamShapes, StopInv, StopWaits
<1>4. pc' = [pc EXCEPT ![c] = <<>>,
                        !["worker"] = IF running THEN @ ELSE <<"loop">>,
                        !["ix"] = IF @ = <<>> THEN <<"dial">> ELSE @]
  BY <1>2 DEF ConnectLaunch
<1>. QED  BY <1>1, <1>3, <1>4, IxReadyFacts

(* disconnect *)
LEMMA CallerDisconnects ==
    ASSUME NEW c, IxReady(c), Disconnect(c)
    PROVE  /\ Moves(c, <<"disconnect">>, IF active THEN <<"await">> ELSE TeardownSteps)
           /\ ~stopping /\ (stopping' <=> active) /\ (requested' <=> active)
           /\ state' = "CLOSING" /\ resnap' = FALSE /\ running' = FALSE /\ closed' = TRUE
           /\ ix' = [ix EXCEPT !.auto = FALSE]
           /\ UNCHANGED <<active, queue, msg, streamVars>>
<1>1. pc[c] = <<"disconnect">>
  BY CallerReady, CallerAt DEF Disconnect
<1>2. ~Internal(c) /\ pc[c] \in CallStacks
  BY <1>1, IxReadyFacts DEF Internal, CallStacks
<1>3. Go(c, IF active THEN <<"await">> ELSE TeardownSteps)
  BY <1>2 DEF Disconnect
<1>4. <<"await">> \in Seq(Steps) /\ TeardownSteps \in Seq(Steps)
  BY PushedSteps DEF Steps
<1>5. Moves(c, <<"disconnect">>, IF active THEN <<"await">> ELSE TeardownSteps)
  BY <1>1, <1>3, <1>4, IxReadyFacts, GoAlone DEF Moves
<1>6. ~stopping /\ ~requested /\ active \in BOOLEAN
  BY <1>2, CallerReady DEF IxReady, StopInv, TypeParts, FlagsOK
<1>. QED  BY <1>5, <1>6 DEF Disconnect
(* The caller tears down a client that has no transport worker, and no other thread. *)
LEMMA CallerTears ==
    ASSUME NEW c, IxReady(c), TeardownStep(c)
    PROVE  /\ pc[c] \in DisconnectStacks /\ ~active /\ state = "CLOSING"
           /\ pc["ix"] = <<>> /\ pc["worker"] = <<>>
           /\ Moves(c, pc[c], Tail(pc[c]))
           /\ \/ Tail(pc[c]) \in DisconnectStacks /\ state' = state
              \/ Tail(pc[c]) = <<>> /\ state' = "DISCONNECTED"
           /\ UNCHANGED <<resnap, stopping, teardownVars, msg, streamVars>>
           /\ ix'.conn = ix.conn
<1>. USE DEF flagVars, teardownVars
<1>c. /\ c # "teardown" /\ c # "ix" /\ c # "worker" /\ c \in Threads /\ StacksOK
      /\ "ix" \in Threads /\ "worker" \in Threads /\ "teardown" \in Threads
      /\ pc \in [Threads -> Seq(Steps)] /\ ix \in IxType
  BY IxReadyFacts
<1>1. pc[c] \in DisconnectStacks
  BY CallerReady, CallerTearsDown
     DEF TeardownStep, WsStop, StopMessageWorker, Publish, DisconnectStacks
<1>2. ~active /\ state = "CLOSING"
  BY <1>1 DEF IxReady, StreamShapes
<1>3. pc["ix"] = <<>> /\ pc["worker"] = <<>> /\ ix.conn = "down"
  BY <1>2, CallerReady
<1>4. pc[c] # <<>>
  BY <1>1, StacksDisjoint
<1>5. Moves(c, pc[c], Tail(pc[c]))
  <2>1. CASE Go(c, <<>>)
    BY <1>4, <2>1, <1>c, GoOn DEF Moves
  <2>2. CASE pc' = [pc EXCEPT ![c] = Tail(@), !["ix"] = <<>>]
    BY <2>2, <1>3, <1>c DEF Moves
  <2>3. CASE pc' = [pc EXCEPT ![c] = Tail(@), !["worker"] = <<>>]
    BY <2>3, <1>3, <1>c DEF Moves
  <2>. QED  BY <2>1, <2>2, <2>3 DEF TeardownStep, WsStop, StopMessageWorker, Publish
<1>6. UNCHANGED <<resnap, stopping, teardownVars, msg, streamVars>>
  BY DEF TeardownStep, WsStop, StopMessageWorker, Publish
<1>7. ix'.conn = ix.conn
  <2>1. CASE UNCHANGED ix
    BY <2>1
  <2>2. CASE WsStop(c) \/ Publish(c)
    BY <2>2, <1>3, <1>c DEF WsStop, Publish, IxType
  <2>. QED  BY <2>1, <2>2 DEF TeardownStep, StopMessageWorker
<1>8. (At(c, "publish") => state' = "DISCONNECTED") /\ (~At(c, "publish") => state' = state)
  <2>1. CASE WsStop(c)
    BY <2>1 DEF WsStop, At
  <2>2. CASE StopMessageWorker(c)
    BY <2>2 DEF StopMessageWorker, At
  <2>3. CASE Publish(c)
    BY <2>3 DEF Publish, At
  <2>. QED  BY <2>1, <2>2, <2>3 DEF TeardownStep
<1>9. \/ Tail(pc[c]) \in DisconnectStacks /\ ~At(c, "publish")
      \/ Tail(pc[c]) = <<>> /\ At(c, "publish")
  <2>. DEFINE p == pc[c]
  <2>1. CASE p = <<"ws_stop", "ws_join", "worker_stop", "worker_join", "reset", "clear",
                   "publish">>
    <3>1. Tail(p) = <<"ws_join", "worker_stop", "worker_join", "reset", "clear", "publish">>
            /\ Head(p) = "ws_stop"
      BY <2>1
    <3>. QED  BY <3>1 DEF DisconnectStacks, At
  <2>2. CASE p = <<"ws_join", "worker_stop", "worker_join", "reset", "clear", "publish">>
    <3>1. Tail(p) = <<"worker_stop", "worker_join", "reset", "clear", "publish">>
            /\ Head(p) = "ws_join"
      BY <2>2
    <3>. QED  BY <3>1 DEF DisconnectStacks, At
  <2>3. CASE p = <<"worker_stop", "worker_join", "reset", "clear", "publish">>
    <3>1. Tail(p) = <<"worker_join", "reset", "clear", "publish">> /\ Head(p) = "worker_stop"
      BY <2>3
    <3>. QED  BY <3>1 DEF DisconnectStacks, At
  <2>4. CASE p = <<"worker_join", "reset", "clear", "publish">>
    <3>1. Tail(p) = <<"reset", "clear", "publish">> /\ Head(p) = "worker_join"
      BY <2>4
    <3>. QED  BY <3>1 DEF DisconnectStacks, At
  <2>5. CASE p = <<"reset", "clear", "publish">>
    <3>1. Tail(p) = <<"clear", "publish">> /\ Head(p) = "reset"
      BY <2>5
    <3>. QED  BY <3>1 DEF DisconnectStacks, At
  <2>6. CASE p = <<"clear", "publish">>
    <3>1. Tail(p) = <<"publish">> /\ Head(p) = "clear"
      BY <2>6
    <3>. QED  BY <3>1 DEF DisconnectStacks, At
  <2>7. CASE p = <<"publish">>
    <3>1. Tail(p) = <<>> /\ Head(p) = "publish"
      BY <2>7
    <3>. QED  BY <3>1, <1>4 DEF At
  <2>. QED  BY <1>1, <2>1, <2>2, <2>3, <2>4, <2>5, <2>6, <2>7 DEF DisconnectStacks, TeardownSteps
<1>. QED  BY <1>1, <1>2, <1>3, <1>5, <1>6, <1>7, <1>8, <1>9

(* The transport worker wakes, tears the transport down and ends. *)
LEMMA TransportWakes ==
    ASSUME NEW c, IxReady(c), TransportWake
    PROVE  /\ \E to \in JoinStacks : Moves("teardown", <<"wait">>, to)
           /\ stopping
           /\ UNCHANGED <<state, flagVars, teardownVars, queueVars, ix, msg, streamVars, budget>>
<1>1. pc["teardown"] = <<"wait">>
  BY TransportAt DEF TransportWake, IxReady, StopInv, StopShapes
<1>2. TeardownSteps \o <<"final">> \in Seq(Steps)
  <2>1. <<"final">> \in Seq(Steps)
    BY DEF Steps
  <2>. QED  BY <2>1, PushedSteps, ConcatSteps
<1>3. pc' = [pc EXCEPT !["teardown"] = TeardownSteps \o <<"final">>]
  BY <1>1, <1>2, IxReadyFacts, GoAlone DEF TransportWake
<1>4. TeardownSteps \o <<"final">> \in JoinStacks
  BY WholeTeardown DEF JoinStacks
<1>5. stopping
  BY DEF TransportWake, IxReady, StreamShapes
<1>. QED  BY <1>1, <1>3, <1>4, <1>5 DEF TransportWake, Moves

LEMMA TransportEnds ==
    ASSUME NEW c, IxReady(c), TransportFinal
    PROVE  /\ Moves("teardown", <<"final">>, <<>>) /\ stopping
           /\ pc["ix"] = <<>> /\ pc["worker"] = <<>> /\ state = "DISCONNECTED"
           /\ ~active' /\ ~requested' /\ ~stopping'
           /\ UNCHANGED <<state, resnap, running, queueVars, ix, msg, streamVars>>
<1>1. pc["teardown"] = <<"final">>
  BY TransportAt DEF TransportFinal, IxReady, StopInv, StopShapes
<1>2. pc["teardown"] \in JoinedStacks /\ pc["teardown"] \in WorkerJoinedStacks
  BY <1>1 DEF JoinedStacks, WorkerJoinedStacks
<1>3. pc["ix"] = <<>> /\ pc["worker"] = <<>> /\ state = "DISCONNECTED" /\ stopping
  BY <1>1, <1>2 DEF IxReady, StreamShapes, StopInv, StopLeaves, StopWaits
<1>4. <<>> \in Seq(Steps)
  OBVIOUS
<1>5. Moves("teardown", <<"final">>, <<>>)
  BY <1>1, <1>4, IxReadyFacts, GoAlone DEF TransportFinal, Moves
<1>. QED  BY <1>3, <1>5 DEF TransportFinal

LEMMA TransportTears ==
    ASSUME NEW c, IxReady(c), TeardownStep("teardown")
    PROVE  /\ stopping /\ pc["teardown"] \in JoinStacks \cup JoinedStacks
           /\ pc'["teardown"] = Tail(pc["teardown"]) /\ pc'[c] = pc[c]
           /\ \/ pc' = [pc EXCEPT !["teardown"] = Tail(@)]
              \/ /\ At("teardown", "ws_join") /\ pc["ix"] \in {<<>>, <<"done">>}
                 /\ pc' = [pc EXCEPT !["teardown"] = Tail(@), !["ix"] = <<>>]
              \/ /\ At("teardown", "worker_join") /\ pc["worker"] \in {<<>>, <<"done">>}
                 /\ pc' = [pc EXCEPT !["teardown"] = Tail(@), !["worker"] = <<>>]
           /\ UNCHANGED <<resnap, stopping, teardownVars, msg, streamVars>>
           /\ (ix'.conn # "down" <=> ix.conn # "down")
           /\ ix'.callback = ix.callback \/ pc["ix"] = <<>>
<1>. USE DEF flagVars, teardownVars
<1>c. /\ c # "teardown" /\ c # "ix" /\ c # "worker" /\ c \in Threads /\ StacksOK
      /\ "ix" \in Threads /\ "worker" \in Threads /\ "teardown" \in Threads
      /\ pc \in [Threads -> Seq(Steps)] /\ ix \in IxType
  BY IxReadyFacts
<1>d. pc["teardown"] \in {<<>>, <<"wait">>} \cup JoinStacks \cup JoinedStacks
  BY DEF IxReady, StopInv, StopShapes
<1>1. pc["teardown"] \in JoinStacks \cup JoinedStacks /\ pc["teardown"] # <<>>
  <2>1. pc["teardown"] # <<>> /\ ~At("teardown", "wait")
    BY DEF TeardownStep, WsStop, StopMessageWorker, Publish, At
  <2>. QED  BY <1>d, <2>1 DEF At
<1>2. stopping
  BY <1>1 DEF IxReady, StreamShapes, StopInv, StopWaits
<1>3. \/ Go("teardown", <<>>)
      \/ /\ At("teardown", "ws_join") /\ pc["ix"] \in {<<>>, <<"done">>}
         /\ pc' = [pc EXCEPT !["teardown"] = Tail(@), !["ix"] = <<>>]
      \/ /\ At("teardown", "worker_join") /\ pc["worker"] \in {<<>>, <<"done">>}
         /\ pc' = [pc EXCEPT !["teardown"] = Tail(@), !["worker"] = <<>>]
  BY DEF TeardownStep, WsStop, StopMessageWorker, Publish
<1>4. Go("teardown", <<>>) => pc' = [pc EXCEPT !["teardown"] = Tail(@)]
  BY <1>1, <1>c, GoOn
<1>5. pc'["teardown"] = Tail(pc["teardown"]) /\ pc'[c] = pc[c]
  BY <1>3, <1>4, <1>c
<1>6. UNCHANGED <<resnap, stopping, teardownVars, msg, streamVars>>
  BY DEF TeardownStep, WsStop, StopMessageWorker, Publish
<1>7. (ix'.conn # "down" <=> ix.conn # "down") /\ (ix'.callback = ix.callback \/ pc["ix"] = <<>>)
  <2>1. CASE UNCHANGED ix
    BY <2>1
  <2>2. CASE WsStop("teardown")
    <3>1. CASE ix' = [ix EXCEPT !.stop = FALSE]
      BY <3>1, <1>c DEF IxType
    <3>2. CASE ix' = [ix EXCEPT !.stop = pc["ix"] # <<>>,
                                !.conn = IF @ = "open" THEN "closing" ELSE @]
      BY <3>2, <1>c DEF IxType
    <3>. QED  BY <2>2, <3>1, <3>2 DEF WsStop
  <2>3. CASE Publish("teardown")
    <3>1. pc["teardown"] \in JoinedStacks
      BY <2>3, <1>d, TransportAt DEF Publish, JoinedStacks
    <3>2. pc["ix"] = <<>>
      BY <3>1 DEF IxReady, StopInv, StopLeaves
    <3>3. ix' = [ix EXCEPT !.callback = FALSE] \/ ix' = ix
      BY <2>3 DEF Publish
    <3>. QED  BY <3>2, <3>3, <1>c DEF IxType
  <2>. QED  BY <2>1, <2>2, <2>3 DEF TeardownStep, StopMessageWorker
<1>. QED  BY <1>1, <1>2, <1>3, <1>4, <1>5, <1>6, <1>7
LEMMA ShapesCaller ==
    ASSUME NEW c, IxReady(c),
           \/ CallStep(c) \/ CallConnect(c) \/ CallDisconnect(c) \/ CallResnapshot(c)
           \/ Disconnect(c) \/ AwaitTransportStop(c) \/ GapStep(c) \/ TeardownStep(c)
    PROVE  StreamShapes(c)'
<1>. USE DEF flagVars, teardownVars
<1>c. /\ c # "teardown" /\ c # "ix" /\ c # "worker" /\ c \in Threads
      /\ "ix" \in Threads /\ "worker" \in Threads /\ "teardown" \in Threads
      /\ pc \in [Threads -> Seq(Steps)] /\ ix \in IxType
  BY IxReadyFacts
<1>a. ASSUME NEW from, NEW to, Moves(c, from, to), to # <<"launch">>,
             to \notin DisconnectStacks, requested' => stopping', active' = active,
             ix'.conn # "down" <=> ix.conn # "down", ix'.callback = ix.callback
      PROVE  StreamShapes(c)'
  <2>1. /\ pc'["ix"] = pc["ix"] /\ pc'["worker"] = pc["worker"]
        /\ pc'["teardown"] = pc["teardown"] /\ pc'[c] = to
    BY <1>a, <1>c DEF Moves
  <2>. QED  BY <1>a, <2>1 DEF IxReady, StreamShapes
<1>b. ASSUME NEW from, NEW to, Moves(c, from, to), to # <<"launch">>,
             to \in DisconnectStacks => ~active /\ state' = "CLOSING",
             requested' => stopping', active' = active,
             ix'.conn = ix.conn, ix'.callback = ix.callback \/ pc["ix"] = <<>>
      PROVE  StreamShapes(c)'
  <2>1. /\ pc'["ix"] = pc["ix"] /\ pc'["worker"] = pc["worker"]
        /\ pc'["teardown"] = pc["teardown"] /\ pc'[c] = to
    BY <1>b, <1>c DEF Moves
  <2>. QED  BY <1>b, <2>1 DEF IxReady, StreamShapes
<1>s. requested => stopping
  BY DEF IxReady, StreamShapes
<1>1. CASE CallerMovesOn(c)
  <2>1. PICK from, to \in (QuietCalls \ {<<"launch">>}) \ DisconnectStacks : Moves(c, from, to)
    BY <1>1, CallerPasses
  <2>2. UNCHANGED <<stopping, active, requested, ix>>
    BY <1>1, CallerPasses
  <2>. QED  BY <1>a, <1>s, <2>1, <2>2
<1>2. CASE ConnectRetire(c) /\ ~At(c, "retire")
  <2>1. <<"await", "start">> \in AwaitStacks
    BY DEF AwaitStacks
  <2>2. <<"await", "start">> # <<"launch">> /\ <<"await", "start">> \notin DisconnectStacks
    BY <2>1, StacksDisjoint
  <2>. QED  BY <1>a, <1>2, <2>2, CallerRetires
<1>k. ASSUME NEW to, to = IF active THEN <<"await">> ELSE TeardownSteps
      PROVE  to # <<"launch">> /\ (to \in DisconnectStacks => ~active)
  <2>1. <<"await">> \in AwaitStacks /\ TeardownSteps \in DisconnectStacks
    BY DEF AwaitStacks, DisconnectStacks
  <2>. QED  BY <1>k, <2>1, StacksDisjoint
<1>3. CASE ConnectStart(c) /\ state = "DISCONNECTED"
  <2>1. CASE /\ pc' = [pc EXCEPT ![c] = <<"launch">>,
                                 !["teardown"] = IF active THEN @ ELSE <<"wait">>]
             /\ active' /\ ~requested' /\ ~stopping'
             /\ UNCHANGED <<state, running, closed>>
    <3>1. /\ pc'["ix"] = pc["ix"] /\ pc'["worker"] = pc["worker"] /\ pc'[c] = <<"launch">>
          /\ pc'["teardown"] \in {pc["teardown"], <<"wait">>} /\ ix' = ix
      BY <1>3, <2>1, <1>c, CallerStarts
    <3>2. <<"wait">> \notin WorkerJoinedStacks /\ <<"launch">> \notin DisconnectStacks
      BY DEF WorkerJoinedStacks, DisconnectStacks, TeardownSteps
    <3>. QED  BY <1>3, <2>1, <3>1, <3>2 DEF IxReady, StreamShapes
  <2>2. CASE /\ Moves(c, <<"start">>, IF active THEN <<"await">> ELSE TeardownSteps)
             /\ state' = "CLOSING" /\ (stopping' <=> active) /\ (requested' <=> active)
             /\ UNCHANGED <<active, ix>>
    BY <1>b, <1>k, <2>2
  <2>. QED  BY <1>3, <2>1, <2>2, CallerStarts
<1>4. CASE ConnectLaunch(c)
  <2>1. /\ pc[c] = <<"launch">> /\ active /\ pc'[c] = <<>>
        /\ pc'["worker"] \in {pc["worker"], <<"loop">>}
        /\ (pc'["ix"] = pc["ix"] \/ (pc["ix"] = <<>> /\ pc'["ix"] = <<"dial">>))
        /\ pc'["teardown"] = pc["teardown"]
    BY <1>4, CallerLaunches
  <2>2. pc["teardown"] \in {<<>>, <<"wait">>}
    BY <2>1, CallerReady DEF CallStacks
  <2>3. pc["teardown"] \notin WorkerJoinedStacks
    BY <2>2 DEF WorkerJoinedStacks
  <2>4. <<"loop">> \in WorkerStacks /\ <<"dial">> \in IxStacks /\ <<"dial">> \notin PollStacks
        /\ <<>> \notin PollStacks
    BY DialKinds DEF WorkerStacks
  <2>5. ix'.conn = ix.conn /\ ix'.callback /\ UNCHANGED <<stopping, active, requested>>
    BY <1>4, <1>c DEF ConnectLaunch, IxType
  <2>6. <<>> # <<"launch">> /\ <<>> \notin DisconnectStacks
    BY StacksDisjoint
  <2>. QED  BY <2>1, <2>3, <2>4, <2>5, <2>6 DEF IxReady, StreamShapes
<1>5. CASE Disconnect(c)
  <2>1. ix'.conn = ix.conn /\ ix'.callback = ix.callback
    BY <1>5, <1>c, CallerDisconnects DEF IxType
  <2>. QED  BY <1>b, <1>k, <1>5, <2>1, CallerDisconnects
<1>6. CASE TeardownStep(c)
  <2>1. <<>> # <<"launch">> /\ <<>> \notin DisconnectStacks
    BY StacksDisjoint
  <2>2. Tail(pc[c]) # <<"launch">>
    BY <1>6, <2>1, CallerTears, StacksDisjoint
  <2>3. Tail(pc[c]) \in DisconnectStacks => ~active /\ state' = "CLOSING"
    BY <1>6, <2>1, CallerTears
  <2>. DEFINE from == pc[c]
              to == Tail(pc[c])
  <2>4. /\ Moves(c, from, to) /\ (requested' => stopping') /\ active' = active
        /\ ix'.conn = ix.conn /\ pc["ix"] = <<>> /\ to # <<"launch">>
        /\ (to \in DisconnectStacks => ~active /\ state' = "CLOSING")
    BY <1>s, <1>6, <2>2, <2>3, CallerTears
  <2>. HIDE DEF from, to
  <2>. QED  BY <1>b, <2>4
<1>7. CASE GapStep(c)
  <2>0. UNCHANGED <<stopping, active, requested>>
    BY <1>7 DEF GapStep, MarkGap, DiscardPending, StreamGapCallback, ResnapshotCheck,
       ResnapshotExchange, ResnapshotClose
  <2>1. ix'.callback = ix.callback /\ (ix'.conn # "down" <=> ix.conn # "down")
    <3>1. CASE ResnapshotClose(c)
      BY <3>1, <1>c DEF ResnapshotClose, IxType
    <3>2. CASE UNCHANGED ix
      BY <3>2
    <3>. QED  BY <1>7, <3>1, <3>2 DEF GapStep, MarkGap, DiscardPending, StreamGapCallback,
                 ResnapshotCheck, ResnapshotExchange
  <2>2. ASSUME NEW from, NEW to, Moves(c, from, to), to # <<"launch">>, to \notin DisconnectStacks
        PROVE  StreamShapes(c)'
    BY <1>a, <1>s, <2>0, <2>1, <2>2
  <2>3. \A s \in {<<>>, <<"exchange">>} \cup GapCalls :
            s # <<"launch">> /\ s \notin DisconnectStacks
    BY DEF GapCalls, DisconnectStacks, TeardownSteps
  <2>4. \E from : \E to \in {<<>>, <<"exchange">>} \cup GapCalls : Moves(c, from, to)
    BY <1>7, CallerAsks DEF GapStep, GapCalls
  <2>. QED  BY <2>2, <2>3, <2>4
<1>. QED  BY <1>1, <1>2, <1>3, <1>4, <1>5, <1>6, <1>7 DEF CallStep, CallerMovesOn

LEMMA ShapesTransport ==
    ASSUME NEW c, IxReady(c), TransportStep \/ TeardownStep("teardown")
    PROVE  StreamShapes(c)'
<1>. USE DEF flagVars, teardownVars
<1>c. /\ c # "teardown" /\ c # "ix" /\ c # "worker" /\ c \in Threads
      /\ "ix" \in Threads /\ "worker" \in Threads /\ "teardown" \in Threads
      /\ pc \in [Threads -> Seq(Steps)] /\ ix \in IxType
  BY IxReadyFacts
<1>1. CASE TransportWake
  <2>1. PICK to \in JoinStacks : Moves("teardown", <<"wait">>, to)
    BY <1>1, TransportWakes
  <2>2. to \notin WorkerJoinedStacks
    BY DEF JoinStacks, WorkerJoinedStacks
  <2>3. /\ pc'["ix"] = pc["ix"] /\ pc'["worker"] = pc["worker"] /\ pc'[c] = pc[c]
        /\ pc'["teardown"] = to
    BY <2>1, <1>c DEF Moves
  <2>4. UNCHANGED <<state, stopping, active, requested, ix>>
    BY <1>1, TransportWakes
  <2>. QED  BY <2>2, <2>3, <2>4 DEF IxReady, StreamShapes
<1>2. CASE TransportFinal
  <2>1. /\ pc'["ix"] = pc["ix"] /\ pc'["worker"] = pc["worker"] /\ pc'[c] = pc[c]
        /\ pc'["teardown"] = <<>> /\ pc["worker"] = <<>>
    BY <1>2, <1>c, TransportEnds DEF Moves
  <2>2. ~active' /\ ~requested' /\ UNCHANGED <<state, ix>>
    BY <1>2, TransportEnds
  <2>3. <<>> \notin WorkerJoinedStacks
    BY DEF WorkerJoinedStacks
  <2>. QED  BY <2>1, <2>2, <2>3 DEF IxReady, StreamShapes
<1>3. CASE TeardownStep("teardown")
  <2>1. /\ stopping /\ pc["teardown"] \in JoinStacks \cup JoinedStacks
        /\ pc'["teardown"] = Tail(pc["teardown"]) /\ pc'[c] = pc[c]
        /\ \/ pc' = [pc EXCEPT !["teardown"] = Tail(@)]
           \/ /\ At("teardown", "ws_join") /\ pc["ix"] \in {<<>>, <<"done">>}
              /\ pc' = [pc EXCEPT !["teardown"] = Tail(@), !["ix"] = <<>>]
           \/ /\ At("teardown", "worker_join") /\ pc["worker"] \in {<<>>, <<"done">>}
              /\ pc' = [pc EXCEPT !["teardown"] = Tail(@), !["worker"] = <<>>]
        /\ UNCHANGED <<stopping, active, requested>>
        /\ (ix'.conn # "down" <=> ix.conn # "down")
        /\ (ix'.callback = ix.callback \/ pc["ix"] = <<>>)
    BY <1>3, TransportTears
  <2>2. active /\ pc[c] \in AwaitStacks
    BY <2>1, CallerReady
  <2>3. pc[c] # <<"launch">> /\ pc[c] \notin DisconnectStacks
    BY <2>2, StacksDisjoint
  <2>4. /\ pc'["ix"] = pc["ix"] \/ (pc["ix"] \in {<<>>, <<"done">>} /\ pc'["ix"] = <<>>)
        /\ pc'["worker"] = pc["worker"] \/ pc'["worker"] = <<>>
    BY <2>1, <1>c
  <2>5. /\ <<>> \in IxStacks /\ <<>> \notin PollStacks /\ <<"done">> \notin PollStacks
        /\ <<>> \in WorkerStacks
    BY DialKinds DEF WorkerStacks
  <2>6. Tail(pc["teardown"]) \in WorkerJoinedStacks =>
          pc["teardown"] \in WorkerJoinedStacks \/ At("teardown", "worker_join")
    <3>. DEFINE p == pc["teardown"]
    <3>1. CASE p = <<"ws_stop", "ws_join", "worker_stop", "worker_join", "reset", "clear",
                     "publish", "final">>
      <4>1. Tail(p) = <<"ws_join", "worker_stop", "worker_join", "reset", "clear", "publish",
                        "final">>
        BY <3>1
      <4>. QED  BY <4>1 DEF WorkerJoinedStacks
    <3>2. CASE p = <<"ws_join", "worker_stop", "worker_join", "reset", "clear", "publish", "final">>
      <4>1. Tail(p) = <<"worker_stop", "worker_join", "reset", "clear", "publish", "final">>
        BY <3>2
      <4>. QED  BY <4>1 DEF WorkerJoinedStacks
    <3>3. CASE p = <<"worker_stop", "worker_join", "reset", "clear", "publish", "final">>
      <4>1. Tail(p) = <<"worker_join", "reset", "clear", "publish", "final">>
        BY <3>3
      <4>. QED  BY <4>1 DEF WorkerJoinedStacks
    <3>4. CASE p = <<"worker_join", "reset", "clear", "publish", "final">>
      <4>1. p # <<>> /\ Head(p) = "worker_join"
        BY <3>4
      <4>. QED  BY <4>1 DEF At
    <3>. QED  BY <2>1, <3>1, <3>2, <3>3, <3>4 DEF JoinStacks, JoinedStacks, WorkerJoinedStacks
  <2>7. At("teardown", "worker_join") => pc'["worker"] = <<>>
    <3>1. CASE At("teardown", "worker_join")
      <4>1. ~WsStop("teardown") /\ ~Publish("teardown")
        BY <3>1 DEF WsStop, Publish, At
      <4>2. StopMessageWorker("teardown")
        BY <1>3, <4>1 DEF TeardownStep
      <4>3. pc' = [pc EXCEPT !["teardown"] = Tail(@), !["worker"] = <<>>]
        BY <3>1, <4>2 DEF StopMessageWorker, At
      <4>. QED  BY <4>3, <1>c
    <3>. QED  BY <3>1
  <2>8. pc'["teardown"] \in WorkerJoinedStacks => pc'["worker"] = <<>>
    BY <2>1, <2>4, <2>6, <2>7 DEF IxReady, StreamShapes
  <2>. QED  BY <2>1, <2>2, <2>3, <2>4, <2>5, <2>8 DEF IxReady, StreamShapes
<1>. QED  BY <1>1, <1>2, <1>3 DEF TransportStep

(* Which thread does what, with one caller. *)
LEMMA WhoSteps ==
    ASSUME NEW c, IxReady(c), Next
    PROVE  \/ IxStep \/ Environment \/ GapStep("ix")
           \/ WorkerStep \/ GapStep("worker")
           \/ TransportStep \/ TeardownStep("teardown")
           \/ CallStep(c) \/ CallConnect(c) \/ CallDisconnect(c) \/ CallResnapshot(c)
           \/ Disconnect(c) \/ AwaitTransportStop(c) \/ GapStep(c) \/ TeardownStep(c)
<1>1. ASSUME NEW t \in Threads, ThreadStep(t)
      PROVE  \/ GapStep("ix") \/ GapStep("worker") \/ TeardownStep("teardown")
             \/ Disconnect(c) \/ AwaitTransportStop(c) \/ GapStep(c) \/ TeardownStep(c)
  <2>1. CASE t = c
    BY <1>1, <2>1 DEF ThreadStep
  <2>2. CASE t = "teardown"
    <3>1. ~(GapStep(t) \/ Disconnect(t) \/ AwaitTransportStop(t))
      BY <2>2, TransportAt DEF GapStep, MarkGap, DiscardPending, StreamGapCallback,
         ResnapshotCheck, ResnapshotExchange, ResnapshotClose, Disconnect, AwaitTransportStop,
         IxReady, StopInv, StopShapes
    <3>. QED  BY <1>1, <2>2, <3>1 DEF ThreadStep
  <2>3. CASE t \in {"ix", "worker"}
    <3>1. pc[t] \in Seq(LibrarySteps)
      BY <2>3 DEF IxReady, StopInv, StopShapes
    <3>2. ~(TeardownStep(t) \/ Disconnect(t) \/ AwaitTransportStop(t))
      <4>1. \A x \in {"ws_stop", "ws_join", "worker_stop", "worker_join", "reset", "clear",
                      "publish", "disconnect", "await"} : ~At(t, x)
        BY <3>1, LibraryAt DEF LibrarySteps, IxReady, OneCaller
      <4>. QED  BY <4>1 DEF TeardownStep, WsStop, StopMessageWorker, Publish, Disconnect,
                   AwaitTransportStop
    <3>. QED  BY <1>1, <2>3, <3>2 DEF ThreadStep
  <2>. QED  BY <2>1, <2>2, <2>3, IxReadyFacts
<1>. QED  BY <1>1 DEF Next, IxReady, OneCaller

LEMMA ShapesStep ==
    ASSUME NEW c, IxReady(c), [Next]_vars
    PROVE  IxReady(c)'
<1>1. StopInv(c)' /\ OneCaller(c)'
  BY StopStep DEF IxReady, OneCaller
<1>2. CASE UNCHANGED vars
  <2>1. StreamShapes(c)'
    BY <1>2 DEF vars, IxReady, StreamShapes
  <2>. QED  BY <1>1, <2>1 DEF IxReady
<1>3. CASE Next
  <2>1. StreamShapes(c)'
    BY <1>3, WhoSteps, ShapesIx, ShapesIxGap, ShapesWorker, ShapesTransport, ShapesCaller
  <2>. QED  BY <1>1, <2>1 DEF IxReady
<1>. QED  BY <1>2, <1>3

LEMMA ShapesInit ==
    ASSUME NEW c, OneCaller(c), InitState
    PROVE  IxReady(c)
<1>1. /\ pc[c] = <<>> /\ pc["teardown"] = <<>> /\ pc["ix"] = <<>> /\ pc["worker"] = <<>>
  BY CallerIsUser, LibraryThreads DEF OneCaller, InitState
<1>2. ~requested /\ ix.conn = "down"
  BY DEF InitState
<1>3. /\ <<>> \in IxStacks /\ <<>> \notin PollStacks /\ <<>> \in WorkerStacks
      /\ <<>> # <<"launch">> /\ <<>> \notin DisconnectStacks /\ <<>> \notin WorkerJoinedStacks
  BY DialKinds, StacksDisjoint DEF WorkerStacks, WorkerJoinedStacks
<1>4. StreamShapes(c)
  BY <1>1, <1>2, <1>3 DEF StreamShapes
<1>. QED  BY <1>4, StopInit DEF IxReady
-----------------------------------------------------------------------------
(* The state_ the IX thread publishes, with reconnect_enabled.             *)

(* state_ tells what the IX thread is doing; a thread that finds the client DISCONNECTED
   does not dial again. *)
PhaseAt(st, s, x) ==
    /\ s \in OpenStacks \cup ClosingStacks => st = "CONNECTED"
    /\ s \in OpeningStacks \cup ErrorStacks \cup ClosedStacks
         => st \in {"CONNECTING", "RECONNECTING"}
    /\ s \in RestStacks => st # "CONNECTED"
    /\ st \in {"DISCONNECTED", "CLOSING"} => s \in {<<>>, <<"done">>} \/ (~x.auto /\ ~x.first)
    /\ x.first => s \in {<<>>, <<"dial">>, <<"done">>}
PhaseInv == ~stopping => PhaseAt(state, pc["ix"], ix)

LEMMA PhaseKinds ==
    /\ \A s \in OpenStacks \cup ClosingStacks : \A st, x :
         PhaseAt(st, s, x) <=> st = "CONNECTED" /\ ~x.first
    /\ \A s \in OpeningStacks \cup ErrorStacks \cup ClosedStacks : \A st, x :
         PhaseAt(st, s, x) <=> st \in {"CONNECTING", "RECONNECTING"} /\ ~x.first
    /\ \A s \in RestStacks : \A st, x :
         PhaseAt(st, s, x) <=>
            /\ st # "CONNECTED"
            /\ st \in {"DISCONNECTED", "CLOSING"} =>
                 s \in {<<>>, <<"done">>} \/ (~x.auto /\ ~x.first)
            /\ x.first => s \in {<<>>, <<"dial">>, <<"done">>}
<1>1. {<<>>, <<"dial">>, <<"done">>} \subseteq RestStacks
  BY DEF RestStacks
<1>2. /\ \A s \in OpenStacks \cup ClosingStacks :
           s \notin OpeningStacks \cup ErrorStacks \cup ClosedStacks /\ s \notin RestStacks
      /\ \A s \in OpeningStacks \cup ErrorStacks \cup ClosedStacks :
           s \notin OpenStacks \cup ClosingStacks /\ s \notin RestStacks
      /\ \A s \in RestStacks : /\ s \notin OpenStacks \cup ClosingStacks
                               /\ s \notin OpeningStacks \cup ErrorStacks \cup ClosedStacks
  BY StacksApart DEF DialStacks
<1>3. ASSUME NEW s \in OpenStacks \cup ClosingStacks, NEW st, NEW x
      PROVE  PhaseAt(st, s, x) <=> st = "CONNECTED" /\ ~x.first
  BY <1>1, <1>2 DEF PhaseAt
<1>4. ASSUME NEW s \in OpeningStacks \cup ErrorStacks \cup ClosedStacks, NEW st, NEW x
      PROVE  PhaseAt(st, s, x) <=> st \in {"CONNECTING", "RECONNECTING"} /\ ~x.first
  BY <1>1, <1>2 DEF PhaseAt
<1>5. ASSUME NEW s \in RestStacks, NEW st, NEW x
      PROVE  PhaseAt(st, s, x) <=>
                /\ st # "CONNECTED"
                /\ st \in {"DISCONNECTED", "CLOSING"} =>
                     s \in {<<>>, <<"done">>} \/ (~x.auto /\ ~x.first)
                /\ x.first => s \in {<<>>, <<"dial">>, <<"done">>}
  BY <1>2 DEF PhaseAt
<1>. QED  BY <1>3, <1>4, <1>5

LEMMA StackKinds ==
    /\ {<<"poll">>, <<"restore", "poll">>, <<"on_connect", "poll">>, <<"enqueue", "poll">>,
        <<"stamp", "poll">>, <<"push", "poll">>, <<"resnapshot", "poll">>, <<"exchange", "poll">>,
        <<"close", "poll">>, <<"mark", "close", "poll">>} \subseteq OpenStacks
    /\ {<<"closed", "dial">>, <<"close_state", "dial">>, <<"mark", "close_state", "dial">>}
         \subseteq ClosingStacks
    /\ {<<"on_close", "dial">>, <<"on_disconnect", "dial">>} \subseteq ClosedStacks
    /\ {<<"error", "dial">>, <<"mark", "error_state", "dial">>, <<"error_state", "dial">>}
         \subseteq ErrorStacks
    /\ {<<>>, <<"dial">>, <<"done">>, <<"on_error", "dial">>} \subseteq RestStacks
    /\ {<<"mark", "opened", "poll">>, <<"opened", "poll">>} \subseteq OpeningStacks
BY DEF OpeningStacks, OpenStacks, FlowingStacks, AskingStacks, ClosingStacks, ClosedStacks,
       ErrorStacks, RestStacks

(* A step that leaves the IX thread alone. *)
LEMMA PhaseOther ==
    ASSUME PhaseInv, pc'["ix"] = pc["ix"], state' = state, stopping' = stopping,
           ix'.auto = ix.auto, ix'.first = ix.first
    PROVE  PhaseInv'
BY DEF PhaseInv, PhaseAt

LEMMA PhaseIx ==
    ASSUME NEW c, IxReady(c), PhaseInv, ReconnectEnabled, IxStep \/ Environment \/ GapStep("ix")
    PROVE  PhaseInv'
<1>. USE DEF flagVars, teardownVars
<1>0. stopping' = stopping /\ ix \in IxType /\ "ix" \in Threads /\ pc \in [Threads -> Seq(Steps)]
  BY IxGoes, IxReadyFacts
<1>s. SUFFICES ASSUME ~stopping PROVE PhaseAt(state', pc'["ix"], ix')
  BY <1>0 DEF PhaseInv
<1>p. PhaseAt(state, pc["ix"], ix)
  BY <1>s DEF PhaseInv
<1>m. ASSUME NEW from, NEW to, Moves("ix", from, to)
      PROVE  pc["ix"] = from /\ pc'["ix"] = to
  BY <1>0, <1>m DEF Moves
<1>a. ASSUME NEW from, NEW to, Moves("ix", from, to), state' = state,
             ix'.first = ix.first, ix'.auto = ix.auto,
             \/ from \in OpenStacks \cup ClosingStacks /\ to \in OpenStacks \cup ClosingStacks
             \/ /\ from \in OpeningStacks \cup ErrorStacks \cup ClosedStacks
                /\ to \in OpeningStacks \cup ErrorStacks \cup ClosedStacks
      PROVE  PhaseAt(state', pc'["ix"], ix')
  <2>1. pc["ix"] = from /\ pc'["ix"] = to
    BY <1>a, <1>m
  <2>. QED  BY <1>a, <1>p, <2>1, PhaseKinds
<1>1. CASE GapStep("ix")
  <2>0. state' = state
    BY <1>1 DEF GapStep, MarkGap, DiscardPending, StreamGapCallback, ResnapshotCheck,
       ResnapshotExchange, ResnapshotClose
  <2>1. ix'.auto = ix.auto /\ ix'.first = ix.first
    <3>1. CASE ResnapshotClose("ix")
      BY <3>1, <1>0 DEF ResnapshotClose, IxType
    <3>2. CASE UNCHANGED ix
      BY <3>2
    <3>. QED  BY <1>1, <3>1, <3>2 DEF GapStep, MarkGap, DiscardPending, StreamGapCallback,
                 ResnapshotCheck, ResnapshotExchange
  <2>2. ASSUME NEW y \in Marked, NEW from, NEW to,
             from \in {<<"mark", y, Base(y)>>, <<"discard", y, Base(y)>>, <<"gap", y, Base(y)>>},
             to \in {<<"discard", y, Base(y)>>, <<"gap", y, Base(y)>>, <<y, Base(y)>>},
             Moves("ix", from, to)
        PROVE  PhaseAt(state', pc'["ix"], ix')
    <3>1. /\ (from \in OpeningStacks <=> to \in OpeningStacks)
          /\ (from \in AskingStacks("poll") <=> to \in AskingStacks("poll"))
          /\ (from \in ClosingStacks <=> to \in ClosingStacks)
          /\ (from \in ErrorStacks <=> to \in ErrorStacks)
          /\ \/ from \in OpeningStacks \/ from \in AskingStacks("poll")
             \/ from \in ClosingStacks \/ from \in ErrorStacks
      BY <2>2, MarkingKeeps DEF Marked
    <3>. QED  BY <1>a, <2>0, <2>1, <2>2, <3>1 DEF OpenStacks
  <2>3. CASE MarkGap("ix") \/ DiscardPending("ix") \/ StreamGapCallback("ix")
    <3>1. PICK y \in Marked :
             \/ Moves("ix", <<"mark", y, Base(y)>>, <<y, Base(y)>>)
             \/ Moves("ix", <<"mark", y, Base(y)>>, <<"discard", y, Base(y)>>)
             \/ Moves("ix", <<"discard", y, Base(y)>>, <<"gap", y, Base(y)>>)
             \/ Moves("ix", <<"gap", y, Base(y)>>, <<y, Base(y)>>)
      BY <2>3, IxMark, IxDiscard, IxGap
    <3>. QED  BY <2>2, <3>1
  <2>4. CASE ResnapshotCheck("ix")
    BY <1>a, <2>0, <2>1, <2>4, IxResnapshot, StackKinds
  <2>5. CASE ResnapshotExchange("ix")
    BY <1>a, <2>0, <2>1, <2>5, IxExchange, StackKinds
  <2>6. CASE ResnapshotClose("ix")
    BY <1>a, <2>0, <2>1, <2>6, IxClose, StackKinds
  <2>. QED  BY <1>1, <2>3, <2>4, <2>5, <2>6 DEF GapStep
<1>2. CASE HandleOpen
  <2>1. Moves("ix", <<"opened", "poll">>, <<"restore", "poll">>) /\ state' = "CONNECTED"
        /\ ix' = [ix EXCEPT !.auto = @ /\ ~(resnap /\ ~ReconnectEnabled)]
    BY <1>2, <1>s, IxOpened
  <2>2. ix'.first = ix.first
    BY <1>0, <2>1 DEF IxType
  <2>3. ~ix.first
    BY <1>p, <1>m, <2>1, PhaseKinds, StackKinds
  <2>4. pc'["ix"] = <<"restore", "poll">> /\ state' = "CONNECTED" /\ ~ix'.first
    BY <1>m, <2>1, <2>2, <2>3
  <2>. QED  BY <2>4, PhaseKinds, StackKinds
<1>3. CASE RestoreSubscriptions
  <2>1. ix'.first = ix.first /\ ix'.auto = ix.auto /\ state' = state
    BY <1>0, <1>3 DEF RestoreSubscriptions, IxType
  <2>. QED  BY <1>a, <1>3, <2>1, IxRestore, StackKinds
<1>4. CASE TransportCallback
  <2>1. state' = state /\ ix' = ix
    BY <1>4 DEF TransportCallback
  <2>2. CASE Moves("ix", <<"on_connect", "poll">>, <<"poll">>)
    BY <1>a, <2>1, <2>2, StackKinds
  <2>3. CASE Moves("ix", <<"on_close", "dial">>, <<"on_disconnect", "dial">>)
    BY <1>a, <2>1, <2>3, StackKinds
  <2>4. CASE Moves("ix", <<"on_disconnect", "dial">>, <<"dial">>)
    <3>1. state \in {"CONNECTING", "RECONNECTING"} /\ ~ix.first
      BY <1>p, <1>m, <2>4, PhaseKinds, StackKinds
    <3>. QED  BY <1>m, <2>1, <2>4, <3>1, PhaseKinds, StackKinds
  <2>5. CASE Moves("ix", <<"on_error", "dial">>, <<"dial">>)
    <3>1. /\ pc["ix"] = <<"on_error", "dial">> /\ pc'["ix"] = <<"dial">>
          /\ <<"on_error", "dial">> \notin {<<>>, <<"dial">>, <<"done">>}
      BY <1>m, <2>5
    <3>2. /\ state # "CONNECTED" /\ ~ix.first
          /\ state \in {"DISCONNECTED", "CLOSING"} => ~ix.auto
      BY <1>p, <3>1, PhaseKinds, StackKinds
    <3>. QED  BY <2>1, <3>1, <3>2, PhaseKinds, StackKinds
  <2>. QED  BY <1>4, <1>s, <2>2, <2>3, <2>4, <2>5, IxCallback
<1>5. CASE HandleClose
  <2>1. ix' = ix
    BY <1>5 DEF HandleClose
  <2>2. CASE Moves("ix", <<"closed", "dial">>, <<"mark", "close_state", "dial">>) /\ state' = state
    BY <1>a, <2>1, <2>2, StackKinds
  <2>3. CASE /\ Moves("ix", <<"close_state", "dial">>, <<"on_close", "dial">>)
             /\ state' = "RECONNECTING"
    <3>1. ~ix.first
      BY <1>p, <1>m, <2>3, PhaseKinds, StackKinds
    <3>. QED  BY <1>m, <2>1, <2>3, <3>1, PhaseKinds, StackKinds
  <2>. QED  BY <1>5, <1>s, <2>2, <2>3, IxClosed DEF Reconnecting
<1>6. CASE HandleError
  <2>2. CASE /\ Moves("ix", <<"error", "dial">>, <<"mark", "error_state", "dial">>)
             /\ UNCHANGED <<state, ix>>
    BY <1>a, <2>2, StackKinds
  <2>3. CASE /\ Moves("ix", <<"error_state", "dial">>, <<"on_error", "dial">>)
             /\ ix' = [ix EXCEPT !.auto = @ /\ ~LimitReached]
             /\ state' = IF Reconnecting /\ ~LimitReached THEN "RECONNECTING" ELSE "DISCONNECTED"
    <3>1. ~ix.first
      BY <1>p, <1>m, <2>3, PhaseKinds, StackKinds
    <3>2. ~ix'.first /\ (LimitReached => ~ix'.auto)
      BY <1>0, <2>3, <3>1 DEF IxType
    <3>3. state' = "RECONNECTING" \/ (state' = "DISCONNECTED" /\ LimitReached)
      BY <2>3 DEF Reconnecting
    <3>4. /\ pc'["ix"] = <<"on_error", "dial">> /\ state' # "CONNECTED" /\ ~ix'.first
          /\ state' \in {"DISCONNECTED", "CLOSING"} => ~ix'.auto
      BY <1>m, <2>3, <3>2, <3>3
    <3>. QED  BY <3>4, PhaseKinds, StackKinds
  <2>. QED  BY <1>6, <1>s, <2>2, <2>3, IxError
<1>7. CASE EnqueueCheck
  <2>1. state' = state /\ ix' = ix
    BY <1>7 DEF EnqueueCheck
  <2>. QED  BY <1>a, <1>7, <2>1, IxEnqueue, StackKinds
<1>8. CASE EnqueueStamp
  <2>1. state' = state /\ ix' = ix
    BY <1>8 DEF EnqueueStamp
  <2>. QED  BY <1>a, <1>8, <2>1, IxStamp, StackKinds
<1>9. CASE Push
  <2>1. state' = state /\ ix' = ix
    BY <1>9 DEF Push
  <2>. QED  BY <1>a, <1>9, <2>1, IxPush, StackKinds
<1>10. CASE Receive
  <2>1. state' = state /\ ix' = ix
    BY <1>10 DEF Receive
  <2>. QED  BY <1>a, <1>10, <2>1, IxReceives, StackKinds
<1>11. CASE ConnectionDrops
  <2>1. state' = state /\ ix'.first = ix.first /\ ix'.auto = ix.auto
    BY <1>0, <1>11 DEF ConnectionDrops, IxType
  <2>. QED  BY <1>a, <1>11, <2>1, IxDrops, StackKinds
<1>d. ASSUME pc["ix"] = <<"dial">>, CanDial
      PROVE  state \in {"CONNECTING", "RECONNECTING"}
  <2>1. <<"dial">> \notin {<<>>, <<"done">>}
    OBVIOUS
  <2>2. state # "CONNECTED" /\ state \notin {"DISCONNECTED", "CLOSING"}
    BY <1>d, <1>p, <2>1, PhaseKinds, StackKinds DEF CanDial
  <2>. QED  BY <2>2 DEF IxReady, StopInv, TypeParts, FlagsOK
<1>12. CASE Dial
  <2>1. state' = state
    BY <1>12 DEF Dial
  <2>2. CASE /\ CanDial /\ Moves("ix", <<"dial">>, <<"mark", "opened", "poll">>)
             /\ ix' = [ix EXCEPT !.conn = "open", !.first = FALSE, !.retries = 0,
                                 !.subscribed = FALSE]
    <3>1. ~ix'.first
      BY <1>0, <2>2 DEF IxType
    <3>2. /\ pc'["ix"] = <<"mark", "opened", "poll">> /\ ~ix'.first
          /\ state' \in {"CONNECTING", "RECONNECTING"}
      BY <1>d, <1>m, <2>1, <2>2, <3>1
    <3>. QED  BY <3>2, PhaseKinds, StackKinds
  <2>3. CASE Moves("ix", <<"dial">>, <<"done">>) /\ UNCHANGED ix
    <3>1. state # "CONNECTED"
      BY <1>p, <1>m, <2>3, PhaseKinds, StackKinds
    <3>. QED  BY <1>m, <2>1, <2>3, <3>1, PhaseKinds, StackKinds
  <2>. QED  BY <1>12, <2>2, <2>3, IxDial
<1>13. CASE DialFails
  <2>1. state' = state /\ CanDial /\ ~ix'.first
    BY <1>0, <1>13 DEF DialFails, IxType
  <2>2. Moves("ix", <<"dial">>, <<"error", "dial">>)
    BY <1>13, IxDialFails
  <2>. QED  BY <1>d, <1>m, <2>1, <2>2, PhaseKinds, StackKinds
<1>. QED  BY <1>1, <1>2, <1>3, <1>4, <1>5, <1>6, <1>7, <1>8, <1>9, <1>10, <1>11, <1>12, <1>13
             DEF IxStep, Environment
LEMMA PhaseStep ==
    ASSUME NEW c, IxReady(c), PhaseInv, ReconnectEnabled, [Next]_vars
    PROVE  PhaseInv'
<1>. USE DEF flagVars, teardownVars
<1>0. /\ c # "teardown" /\ c # "ix" /\ c # "worker" /\ c \in Threads
      /\ "ix" \in Threads /\ "worker" \in Threads /\ "teardown" \in Threads
      /\ pc \in [Threads -> Seq(Steps)] /\ ix \in IxType
  BY IxReadyFacts
<1>e. ASSUME pc'["ix"] = <<>>, state' # "CONNECTED" PROVE PhaseInv'
  BY <1>e, PhaseKinds, StackKinds DEF PhaseInv
<1>g. ASSUME NEW t, t # "ix", GapStep(t) PROVE PhaseInv'
  <2>1. state' = state /\ stopping' = stopping
    BY <1>g DEF GapStep, MarkGap, DiscardPending, StreamGapCallback, ResnapshotCheck,
       ResnapshotExchange, ResnapshotClose
  <2>2. ix'.auto = ix.auto /\ ix'.first = ix.first
    <3>1. CASE ResnapshotClose(t)
      BY <3>1, <1>0 DEF ResnapshotClose, IxType
    <3>2. CASE UNCHANGED ix
      BY <3>2
    <3>. QED  BY <1>g, <3>1, <3>2 DEF GapStep, MarkGap, DiscardPending, StreamGapCallback,
                 ResnapshotCheck, ResnapshotExchange
  <2>3. pc'["ix"] = pc["ix"]
    BY <1>g, <1>0 DEF GapStep, MarkGap, DiscardPending, StreamGapCallback, ResnapshotCheck,
       ResnapshotExchange, ResnapshotClose, UserCallback, Go
  <2>. QED  BY <2>1, <2>2, <2>3, PhaseOther
<1>1. CASE IxStep \/ Environment \/ GapStep("ix")
  BY <1>1, PhaseIx
<1>2. CASE WorkerStep
  <2>1. state' = state /\ stopping' = stopping /\ ix' = ix
    BY <1>2 DEF WorkerStep, WorkerLoop, Pop, DispatchMessage, Deliver
  <2>2. PICK next : Go("worker", next)
    BY <1>2, WorkerGoes
  <2>3. pc'["ix"] = pc["ix"]
    BY <2>2, <1>0 DEF Go
  <2>. QED  BY <2>1, <2>3, PhaseOther
<1>3. CASE GapStep("worker") \/ GapStep(c)
  BY <1>3, <1>0, <1>g
<1>4. CASE TransportWake
  <2>1. pc'["ix"] = pc["ix"]
    BY <1>0, <1>4, TransportWakes DEF Moves
  <2>. QED  BY <1>4, <2>1, PhaseOther, TransportWakes
<1>5. CASE TransportFinal
  <2>1. pc'["ix"] = <<>> /\ state' # "CONNECTED"
    BY <1>0, <1>5, TransportEnds DEF Moves
  <2>. QED  BY <1>e, <2>1
<1>6. CASE TeardownStep("teardown")
  <2>1. stopping'
    BY <1>6, TransportTears
  <2>. QED  BY <2>1 DEF PhaseInv
<1>7. CASE CallerMovesOn(c)
  <2>1. pc'["ix"] = pc["ix"]
    BY <1>0, <1>7, CallerPasses DEF Moves
  <2>. QED  BY <1>7, <2>1, PhaseOther, CallerPasses
<1>8. CASE ConnectRetire(c) /\ ~At(c, "retire")
  <2>1. /\ pc'["ix"] = pc["ix"] /\ state' = state /\ ix' = ix /\ ~stopping
        /\ (stopping' => active) /\ (active => stopping')
    BY <1>0, <1>8, CallerRetires DEF Moves
  <2>. QED  BY <2>1, PhaseOther DEF PhaseInv, PhaseAt
<1>9. CASE ConnectStart(c) /\ state = "DISCONNECTED"
  <2>1. pc'["ix"] = pc["ix"]
    BY <1>0, <1>9, CallerStarts DEF Moves
  <2>2. CASE ~stopping' /\ state' = state
    BY <1>9, <2>1, <2>2, PhaseOther, CallerStarts DEF PhaseInv, PhaseAt
  <2>3. CASE active /\ stopping'
    BY <2>3 DEF PhaseInv
  <2>4. CASE ~active /\ state' = "CLOSING"
    <3>1. pc["ix"] = <<>>
      BY <2>4, CallerReady
    <3>. QED  BY <1>e, <2>1, <2>4, <3>1
  <2>. QED  BY <1>9, <2>2, <2>3, <2>4, CallerStarts
<1>10. CASE ConnectLaunch(c)
  <2>1. /\ ~stopping /\ state = "DISCONNECTED" /\ state' = "CONNECTING"
        /\ pc'["ix"] = (IF pc["ix"] = <<>> THEN <<"dial">> ELSE pc["ix"])
    BY <1>10, CallerLaunches DEF ConnectLaunch
  <2>2. PhaseAt(state, pc["ix"], ix)
    BY <2>1 DEF PhaseInv
  <2>3. pc["ix"] \in RestStacks
    BY <2>1, <2>2, IxReadyFacts DEF PhaseAt, IxStacks, PollStacks, DialStacks
  <2>4. pc'["ix"] \in RestStacks
    BY <2>1, <2>3, StackKinds
  <2>5. ix'.first => pc["ix"] = <<>> \/ ix.first
    BY <1>10, <1>0 DEF ConnectLaunch, IxType
  <2>6. ix'.first => pc'["ix"] \in {<<>>, <<"dial">>, <<"done">>}
    BY <2>1, <2>2, <2>5 DEF PhaseAt
  <2>. QED  BY <2>1, <2>4, <2>6, PhaseKinds DEF PhaseInv
<1>11. CASE Disconnect(c)
  <2>1. pc'["ix"] = pc["ix"] /\ state' = "CLOSING" /\ (active => stopping')
    BY <1>0, <1>11, CallerDisconnects DEF Moves
  <2>2. ~active => pc["ix"] = <<>>
    BY CallerReady
  <2>. QED  BY <1>e, <2>1, <2>2 DEF PhaseInv
<1>12. CASE TeardownStep(c)
  <2>1. pc'["ix"] = <<>> /\ state' # "CONNECTED"
    BY <1>0, <1>12, CallerTears DEF Moves
  <2>. QED  BY <1>e, <2>1
<1>13. CASE UNCHANGED vars
  BY <1>13, PhaseOther DEF vars
<1>. QED  BY <1>1, <1>2, <1>3, <1>4, <1>5, <1>6, <1>7, <1>8, <1>9, <1>10, <1>11, <1>12, <1>13,
             WhoSteps DEF TransportStep, CallStep, CallerMovesOn

-----------------------------------------------------------------------------
(* The gaps that are drawn and not reported yet.                           *)

(* What a stack says of its thread's gap: there is one, its stream_gap callback is to
   come, it was drawn by request_resnapshot. *)
Reports(s) == ~DoesIn(s, {"mark"}) /\ DoesIn(s, {"discard", "gap", "close"})
Untold(s) == DoesIn(s, {"discard", "gap"})
Requested(s) == DoesIn(s, {"close"})

IxQuiet ==
    FlowingStacks \cup ClosedStacks \cup RestStacks \cup
    {<<"resnapshot", "poll">>, <<"exchange", "poll">>, <<"closed", "dial">>, <<"error", "dial">>,
     <<"opened", "poll">>, <<"close_state", "dial">>, <<"error_state", "dial">>,
     <<"mark", "opened", "poll">>, <<"mark", "close", "poll">>, <<"mark", "close_state", "dial">>,
     <<"mark", "error_state", "dial">>}
WorkerQuiet ==
    {<<>>, <<"done">>, <<"loop">>, <<"pop">>, <<"typed", "loop">>, <<"resnapshot", "loop">>,
     <<"exchange", "loop">>, <<"mark", "close", "loop">>} \cup HoldingStacks
TransportStacks == {<<>>, <<"wait">>} \cup JoinStacks \cup JoinedStacks

LEMMA QuietStacks ==
    /\ \A s \in IxQuiet : ~Reports(s)
    /\ \A s \in WorkerQuiet : ~Reports(s)
    /\ \A s \in QuietCalls \cup {<<"mark", "close">>} : ~Reports(s)
    /\ \A s \in TransportStacks : ~Reports(s)
<1>. DEFINE Gaps == {"discard", "gap", "close"}
<1>1. \A s \in IxQuiet : ~Reports(s)
  <2>1. \A s \in FlowingStacks : ~DoesIn(s, Gaps)
    BY DEF FlowingStacks, DoesIn
  <2>2. \A s \in ClosedStacks \cup RestStacks : ~DoesIn(s, Gaps)
    BY DEF ClosedStacks, RestStacks, DoesIn
  <2>3. \A s \in {<<"resnapshot", "poll">>, <<"exchange", "poll">>, <<"closed", "dial">>,
                  <<"error", "dial">>, <<"opened", "poll">>, <<"close_state", "dial">>,
                  <<"error_state", "dial">>} : ~DoesIn(s, Gaps)
    BY DEF DoesIn
  <2>4. \A y, z : DoesIn(<<"mark", y, z>>, {"mark"})
    BY DoesLiteral
  <2>. QED  BY <2>1, <2>2, <2>3, <2>4 DEF IxQuiet, Reports
<1>2. \A s \in WorkerQuiet : ~Reports(s)
  <2>1. \A s \in HoldingStacks \cup {<<>>, <<"done">>, <<"loop">>, <<"pop">>, <<"typed", "loop">>,
                  <<"resnapshot", "loop">>, <<"exchange", "loop">>} : ~DoesIn(s, Gaps)
    BY DEF HoldingStacks, DoesIn
  <2>2. DoesIn(<<"mark", "close", "loop">>, {"mark"})
    BY DoesLiteral
  <2>. QED  BY <2>1, <2>2 DEF WorkerQuiet, Reports
<1>3. \A s \in AwaitStacks : ~DoesIn(s, Gaps)
  BY DEF AwaitStacks, DoesIn
<1>4. \A s \in DisconnectStacks : ~DoesIn(s, Gaps)
  BY DEF DisconnectStacks, TeardownSteps, DoesIn
<1>5. \A s \in QuietCalls \cup {<<"mark", "close">>} : ~Reports(s)
  <2>1. \A s \in {<<>>, <<"connect">>, <<"check">>, <<"retire">>, <<"request", "await", "start">>,
                  <<"start">>, <<"launch">>, <<"disconnect">>, <<"resnapshot">>, <<"exchange">>} :
          ~DoesIn(s, Gaps)
    BY DEF DoesIn
  <2>2. DoesIn(<<"mark", "close">>, {"mark"})
    BY DoesLiteral
  <2>. QED  BY <1>3, <1>4, <2>1, <2>2 DEF QuietCalls, Reports
<1>6. \A s \in JoinStacks : ~DoesIn(s, Gaps)
  BY DEF JoinStacks, DoesIn
<1>7. \A s \in JoinedStacks : ~DoesIn(s, Gaps)
  BY DEF JoinedStacks, DoesIn
<1>8. \A s \in TransportStacks : ~Reports(s)
  <2>1. \A s \in {<<>>, <<"wait">>} : ~DoesIn(s, Gaps)
    BY DEF DoesIn
  <2>. QED  BY <1>6, <1>7, <2>1 DEF TransportStacks, Reports
<1>. QED  BY <1>1, <1>2, <1>5, <1>8

(* Inside mark_stream_gap: on the IX thread, the message worker and the user's thread. *)
GapStack(t, x, y) ==
    IF t = "ix" THEN <<x, y, Base(y)>> ELSE IF t = "worker" THEN <<x, y, "loop">> ELSE <<x, y>>
RestStack(t, y) ==
    IF t = "ix" THEN <<y, Base(y)>> ELSE IF t = "worker" THEN <<y, "loop">> ELSE <<y>>
(* The stack once the socket is closed. *)
CloseStack(t) == IF t = "ix" THEN <<"poll">> ELSE IF t = "worker" THEN <<"loop">> ELSE <<>>

LEMMA GapStackKinds ==
    ASSUME NEW t, NEW y \in Marked
    PROVE  /\ ~Reports(GapStack(t, "mark", y))
           /\ \A x \in {"discard", "gap"} :
                /\ Reports(GapStack(t, x, y)) /\ Untold(GapStack(t, x, y))
                /\ Requested(GapStack(t, x, y)) <=> y = "close"
           /\ ~Untold(RestStack(t, y))
           /\ Reports(RestStack(t, y)) <=> y = "close"
           /\ Requested(RestStack(t, y)) <=> y = "close"
           /\ ~Reports(CloseStack(t))
<1>. USE DEF Reports, Untold, Requested, Marked
<1>1. /\ \A y1, z : DoesIn(<<"mark", y1, z>>, {"mark"}) /\ DoesIn(<<"mark", y1>>, {"mark"})
      /\ ~DoesIn(<<"poll">>, {"discard", "gap", "close"})
      /\ ~DoesIn(<<"loop">>, {"discard", "gap", "close"})
      /\ ~DoesIn(<<>>, {"discard", "gap", "close"})
  BY DEF DoesIn
<1>2. ~Reports(GapStack(t, "mark", y)) /\ ~Reports(CloseStack(t))
  BY <1>1 DEF GapStack, CloseStack
<1>3. Base(y) \in {"poll", "dial"}
  BY DEF Base
<1>4. ASSUME NEW x \in {"discard", "gap"}, NEW z \in {"poll", "dial", "loop"}
      PROVE  /\ ~DoesIn(<<x, y, z>>, {"mark"}) /\ ~DoesIn(<<x, y>>, {"mark"})
             /\ DoesIn(<<x, y, z>>, {"discard", "gap", "close"})
             /\ DoesIn(<<x, y>>, {"discard", "gap", "close"})
             /\ DoesIn(<<x, y, z>>, {"discard", "gap"}) /\ DoesIn(<<x, y>>, {"discard", "gap"})
             /\ DoesIn(<<x, y, z>>, {"close"}) <=> y = "close"
             /\ DoesIn(<<x, y>>, {"close"}) <=> y = "close"
  BY <1>4 DEF DoesIn
<1>5. ASSUME NEW x \in {"discard", "gap"}
      PROVE  /\ Reports(GapStack(t, x, y)) /\ Untold(GapStack(t, x, y))
             /\ Requested(GapStack(t, x, y)) <=> y = "close"
  BY <1>3, <1>4, <1>5 DEF GapStack
<1>6. ASSUME NEW z \in {"poll", "dial", "loop"}
      PROVE  /\ ~DoesIn(<<y, z>>, {"mark"}) /\ ~DoesIn(<<y>>, {"mark"})
             /\ DoesIn(<<y, z>>, {"discard", "gap", "close"}) <=> y = "close"
             /\ DoesIn(<<y>>, {"discard", "gap", "close"}) <=> y = "close"
             /\ ~DoesIn(<<y, z>>, {"discard", "gap"}) /\ ~DoesIn(<<y>>, {"discard", "gap"})
             /\ DoesIn(<<y, z>>, {"close"}) <=> y = "close"
             /\ DoesIn(<<y>>, {"close"}) <=> y = "close"
  BY <1>6 DEF DoesIn
<1>7. /\ ~Untold(RestStack(t, y)) /\ (Reports(RestStack(t, y)) <=> y = "close")
      /\ (Requested(RestStack(t, y)) <=> y = "close")
  BY <1>3, <1>6 DEF RestStack
<1>. QED  BY <1>2, <1>5, <1>7

LEMMA GapMoves ==
    ASSUME NEW c, IxReady(c), NEW t \in {c, "ix", "worker"}
    PROVE  /\ MarkGap(t) /\ ~stopping =>
                \E y \in Marked :
                  /\ Moves(t, GapStack(t, "mark", y), GapStack(t, "discard", y))
                  /\ t # "ix" => y = "close"
                  /\ gen' = gen + 1 /\ mark' = [mark EXCEPT ![t] = gen + 1]
           /\ MarkGap(t) /\ stopping => UNCHANGED <<gen, mark>>
           /\ DiscardPending(t) =>
                \E y \in Marked : /\ Moves(t, GapStack(t, "discard", y), GapStack(t, "gap", y))
                                  /\ t # "ix" => y = "close"
           /\ StreamGapCallback(t) =>
                \E y \in Marked : /\ Moves(t, GapStack(t, "gap", y), RestStack(t, y))
                                  /\ t # "ix" => y = "close"
           /\ ResnapshotClose(t) => Moves(t, RestStack(t, "close"), CloseStack(t))
<1>. USE DEF GapStack, RestStack, CloseStack
<1>0. c # "ix" /\ c # "worker" /\ "close" \in Marked
  BY IxReadyFacts DEF Marked
<1>1. CASE t = "ix"
  BY <1>0, <1>1, IxMark, IxDiscard, IxGap, IxClose DEF Base
<1>2. CASE t = "worker"
  BY <1>0, <1>2, WorkerAsks
<1>3. CASE t = c
  BY <1>0, <1>3, CallerAsks
<1>. QED  BY <1>1, <1>2, <1>3
(* A step in which no gap is drawn, reported or given up. *)
QuietStep ==
    /\ UNCHANGED <<gen, mark>>
    /\ \A t \in Threads : pc'[t] # pc[t] => ~Reports(pc[t]) /\ ~Reports(pc'[t])

LEMMA QuietMove ==
    ASSUME NEW c, IxReady(c), NEW t \in Threads, NEW from, NEW to, Moves(t, from, to),
           ~Reports(from), ~Reports(to), UNCHANGED <<gen, mark>>
    PROVE  QuietStep
BY IxReadyFacts DEF Moves, QuietStep

LEMMA QuietIx ==
    ASSUME NEW c, IxReady(c),
           IxStep \/ Environment \/ ResnapshotCheck("ix") \/ ResnapshotExchange("ix")
    PROVE  QuietStep
<1>. USE DEF streamVars
<1>0. UNCHANGED <<gen, mark>>
  BY DEF IxStep, Environment, HandleOpen, RestoreSubscriptions, TransportCallback, HandleClose,
     HandleError, EnqueueCheck, EnqueueStamp, Push, Dial, DialFails, ConnectionDrops, Receive,
     ResnapshotCheck, ResnapshotExchange
<1>1. ASSUME NEW from \in IxQuiet, NEW to \in IxQuiet, Moves("ix", from, to)
      PROVE  QuietStep
  BY <1>0, <1>1, IxReadyFacts, QuietMove, QuietStacks
<1>k. /\ {<<"poll">>, <<"restore", "poll">>, <<"on_connect", "poll">>, <<"enqueue", "poll">>,
          <<"stamp", "poll">>, <<"push", "poll">>, <<"resnapshot", "poll">>, <<"exchange", "poll">>,
          <<"opened", "poll">>} \subseteq IxQuiet
      /\ {<<"mark", "opened", "poll">>, <<"mark", "close", "poll">>,
          <<"mark", "close_state", "dial">>, <<"mark", "error_state", "dial">>} \subseteq IxQuiet
      /\ {<<"closed", "dial">>, <<"close_state", "dial">>, <<"on_close", "dial">>,
          <<"on_disconnect", "dial">>, <<"error", "dial">>, <<"error_state", "dial">>,
          <<"on_error", "dial">>, <<"dial">>, <<"done">>} \subseteq IxQuiet
  BY DEF IxQuiet, FlowingStacks, ClosedStacks, RestStacks
<1>2. CASE HandleOpen
  BY <1>1, <1>k, <1>2, IxOpened
<1>3. CASE RestoreSubscriptions
  BY <1>1, <1>k, <1>3, IxRestore
<1>4. CASE TransportCallback
  BY <1>1, <1>k, <1>4, IxCallback
<1>5. CASE HandleClose
  BY <1>1, <1>k, <1>5, IxClosed
<1>6. CASE HandleError
  BY <1>1, <1>k, <1>6, IxError
<1>7. CASE EnqueueCheck
  BY <1>1, <1>k, <1>7, IxEnqueue
<1>8. CASE EnqueueStamp
  BY <1>1, <1>k, <1>8, IxStamp
<1>9. CASE Push
  BY <1>1, <1>k, <1>9, IxPush
<1>10. CASE Dial
  BY <1>1, <1>k, <1>10, IxDial
<1>11. CASE DialFails
  BY <1>1, <1>k, <1>11, IxDialFails
<1>12. CASE ConnectionDrops
  BY <1>1, <1>k, <1>12, IxDrops
<1>13. CASE Receive
  BY <1>1, <1>k, <1>13, IxReceives
<1>14. CASE ResnapshotCheck("ix")
  BY <1>1, <1>k, <1>14, IxResnapshot
<1>15. CASE ResnapshotExchange("ix")
  BY <1>1, <1>k, <1>15, IxExchange
<1>. QED  BY <1>2, <1>3, <1>4, <1>5, <1>6, <1>7, <1>8, <1>9, <1>10, <1>11, <1>12, <1>13, <1>14,
             <1>15 DEF IxStep, Environment

LEMMA QuietWorker ==
    ASSUME NEW c, IxReady(c),
           WorkerStep \/ ResnapshotCheck("worker") \/ ResnapshotExchange("worker")
    PROVE  QuietStep
<1>. USE DEF streamVars
<1>0. UNCHANGED <<gen, mark>>
  BY DEF WorkerStep, WorkerLoop, Pop, DispatchMessage, Deliver, ResnapshotCheck, ResnapshotExchange
<1>1. ASSUME NEW from \in WorkerQuiet, NEW to \in WorkerQuiet, Moves("worker", from, to)
      PROVE  QuietStep
  BY <1>0, <1>1, IxReadyFacts, QuietMove, QuietStacks
<1>k. {<<"done">>, <<"loop">>, <<"pop">>, <<"typed", "loop">>, <<"message", "loop">>,
       <<"sequenced", "loop">>, <<"deliver", "loop">>, <<"resnapshot", "loop">>,
       <<"exchange", "loop">>, <<"mark", "close", "loop">>} \subseteq WorkerQuiet
  BY DEF WorkerQuiet, HoldingStacks
<1>2. CASE WorkerLoop \/ Pop
  BY <1>1, <1>k, <1>2, WorkerPops
<1>3. CASE DispatchMessage
  BY <1>1, <1>k, <1>3, WorkerDispatches
<1>4. CASE Deliver
  BY <1>1, <1>k, <1>4, WorkerDelivers
<1>5. CASE ResnapshotCheck("worker")
  BY <1>1, <1>k, <1>5, WorkerAsks
<1>6. CASE ResnapshotExchange("worker")
  BY <1>1, <1>k, <1>6, WorkerAsks
<1>. QED  BY <1>2, <1>3, <1>4, <1>5, <1>6 DEF WorkerStep

LEMMA QuietCaller ==
    ASSUME NEW c, IxReady(c),
           \/ CallStep(c) \/ CallConnect(c) \/ CallDisconnect(c) \/ CallResnapshot(c)
           \/ Disconnect(c) \/ AwaitTransportStop(c) \/ TeardownStep(c)
           \/ ResnapshotCheck(c) \/ ResnapshotExchange(c)
    PROVE  QuietStep
<1>. USE DEF streamVars
<1>c. /\ c # "teardown" /\ c # "ix" /\ c # "worker" /\ c \in Threads
      /\ "ix" \in Threads /\ "worker" \in Threads /\ "teardown" \in Threads
      /\ pc \in [Threads -> Seq(Steps)] /\ Threads = {c, "ix", "worker", "teardown"}
  BY IxReadyFacts
<1>0. UNCHANGED <<gen, mark>>
  BY DEF CallStep, CallConnect, CallDisconnect, CallResnapshot, ConnectEntry, ConnectRetire,
     ConnectStart, ConnectLaunch, Disconnect, AwaitTransportStop, TeardownStep, WsStop,
     StopMessageWorker, Publish, ResnapshotCheck, ResnapshotExchange
<1>1. ASSUME NEW from, from \in QuietCalls \cup {<<"mark", "close">>},
             NEW to, to \in QuietCalls \cup {<<"mark", "close">>}, Moves(c, from, to)
      PROVE  QuietStep
  BY <1>0, <1>1, <1>c, QuietMove, QuietStacks
<1>k. /\ {<<>>, <<"start">>, <<"launch">>, <<"disconnect">>, <<"resnapshot">>, <<"exchange">>,
          <<"request", "await", "start">>} \subseteq QuietCalls
      /\ AwaitStacks \subseteq QuietCalls /\ DisconnectStacks \subseteq QuietCalls
      /\ <<"await">> \in QuietCalls /\ TeardownSteps \in QuietCalls
      /\ <<"await", "start">> \in QuietCalls
  BY DEF QuietCalls, AwaitStacks, DisconnectStacks
<1>2. CASE CallerMovesOn(c)
  BY <1>1, <1>2, CallerPasses
<1>3. CASE ConnectRetire(c) /\ ~At(c, "retire")
  BY <1>1, <1>k, <1>3, CallerRetires
<1>4. CASE ConnectStart(c) /\ state = "DISCONNECTED"
  <2>1. CASE /\ pc[c] = <<"start">>
             /\ pc' = [pc EXCEPT ![c] = <<"launch">>,
                                 !["teardown"] = IF active THEN @ ELSE <<"wait">>]
    <3>1. /\ pc'["ix"] = pc["ix"] /\ pc'["worker"] = pc["worker"] /\ pc'[c] = <<"launch">>
          /\ pc'["teardown"] \in {pc["teardown"], <<"wait">>}
      BY <2>1, <1>c
    <3>2. pc["teardown"] \in TransportStacks /\ <<"wait">> \in TransportStacks
      BY DEF IxReady, StopInv, StopShapes, TransportStacks
    <3>3. ~Reports(pc["teardown"]) /\ ~Reports(<<"wait">>) /\ ~Reports(<<"start">>)
          /\ ~Reports(<<"launch">>)
      BY <1>k, <3>2, QuietStacks
    <3>. QED  BY <1>0, <1>c, <2>1, <3>1, <3>3 DEF QuietStep
  <2>2. CASE Moves(c, <<"start">>, IF active THEN <<"await">> ELSE TeardownSteps)
    BY <1>1, <1>k, <2>2
  <2>. QED  BY <1>4, <2>1, <2>2, CallerStarts
<1>5. CASE ConnectLaunch(c)
  <2>1. /\ pc[c] = <<"launch">> /\ pc'[c] = <<>> /\ pc'["teardown"] = pc["teardown"]
        /\ pc'["worker"] = (IF running THEN pc["worker"] ELSE <<"loop">>)
        /\ pc'["ix"] = (IF pc["ix"] = <<>> THEN <<"dial">> ELSE pc["ix"])
    BY <1>5, CallerLaunches
  <2>2. ~running => pc["worker"] \in {<<>>, <<"done">>}
    BY <1>5 DEF ConnectLaunch
  <2>3. /\ ~Reports(<<"launch">>) /\ ~Reports(<<>>) /\ ~Reports(<<"loop">>) /\ ~Reports(<<"dial">>)
        /\ ~Reports(<<"done">>)
    BY <1>k, QuietStacks DEF WorkerQuiet, IxQuiet, RestStacks
  <2>. QED  BY <1>0, <1>c, <2>1, <2>2, <2>3 DEF QuietStep
<1>6. CASE Disconnect(c)
  BY <1>1, <1>k, <1>6, CallerDisconnects
<1>7. CASE TeardownStep(c)
  <2>. DEFINE from == pc[c]
              to == Tail(pc[c])
  <2>1. Moves(c, from, to) /\ from \in QuietCalls /\ to \in QuietCalls
    BY <1>k, <1>7, CallerTears
  <2>. HIDE DEF from, to
  <2>. QED  BY <1>1, <2>1
<1>8. CASE ResnapshotCheck(c)
  BY <1>1, <1>k, <1>8, CallerAsks
<1>9. CASE ResnapshotExchange(c)
  BY <1>1, <1>k, <1>9, CallerAsks
<1>. QED  BY <1>2, <1>3, <1>4, <1>5, <1>6, <1>7, <1>8, <1>9 DEF CallStep, CallerMovesOn

LEMMA QuietTransport ==
    ASSUME NEW c, IxReady(c), TransportStep \/ TeardownStep("teardown")
    PROVE  QuietStep
<1>. USE DEF streamVars
<1>c. /\ c # "teardown" /\ "ix" \in Threads /\ "worker" \in Threads /\ "teardown" \in Threads
      /\ pc \in [Threads -> Seq(Steps)] /\ Threads = {c, "ix", "worker", "teardown"}
  BY IxReadyFacts
<1>0. UNCHANGED <<gen, mark>>
  BY DEF TransportStep, TransportWake, TransportFinal, TeardownStep, WsStop,
     StopMessageWorker, Publish
<1>1. /\ <<"wait">> \in TransportStacks /\ JoinStacks \subseteq TransportStacks
      /\ JoinedStacks \subseteq TransportStacks /\ <<"final">> \in TransportStacks
      /\ <<>> \in TransportStacks
  BY DEF TransportStacks, JoinedStacks
<1>2. CASE TransportWake
  BY <1>0, <1>1, <1>2, <1>c, TransportWakes, QuietMove, QuietStacks
<1>3. CASE TransportFinal
  BY <1>0, <1>1, <1>3, <1>c, TransportEnds, QuietMove, QuietStacks
<1>4. CASE TeardownStep("teardown")
  <2>1. pc'["teardown"] \in TransportStacks /\ pc["teardown"] \in TransportStacks
    <3>1. StopInv(c)'
      BY <1>4, IxReadyFacts, StopStep DEF IxReady, Next, ThreadStep
    <3>. QED  BY <3>1 DEF StopInv, StopShapes, TransportStacks, IxReady
  <2>2. /\ ~Reports(pc["teardown"]) /\ ~Reports(pc'["teardown"]) /\ ~Reports(<<>>)
        /\ ~Reports(<<"done">>)
    BY <2>1, QuietStacks DEF WorkerQuiet
  <2>3. /\ \A t \in Threads \ {"ix", "worker", "teardown"} : pc'[t] = pc[t]
        /\ pc'["ix"] = pc["ix"] \/ (pc["ix"] \in {<<>>, <<"done">>} /\ pc'["ix"] = <<>>)
        /\ pc'["worker"] = pc["worker"]
             \/ (pc["worker"] \in {<<>>, <<"done">>} /\ pc'["worker"] = <<>>)
    BY <1>c, <1>4, TransportTears
  <2>. QED  BY <1>0, <1>c, <2>2, <2>3 DEF QuietStep
<1>. QED  BY <1>2, <1>3, <1>4 DEF TransportStep

(* Every step is quiet, or one of mark_stream_gap or of a resnapshot's close. *)
LEMMA QuietOrGap ==
    ASSUME NEW c, IxReady(c), Next
    PROVE  \/ QuietStep
           \/ \E t \in {c, "ix", "worker"} :
                MarkGap(t) \/ DiscardPending(t) \/ StreamGapCallback(t) \/ ResnapshotClose(t)
BY WhoSteps, QuietIx, QuietWorker, QuietTransport, QuietCaller DEF GapStep

-----------------------------------------------------------------------------
(* Two gaps under way have two generations.                                *)

MarkInv ==
    /\ \A t \in Threads : mark[t] <= gen
    /\ ~stopping => \A t, u \in Threads :
          t # u /\ Reports(pc[t]) /\ Reports(pc[u]) => mark[t] # mark[u]

(* When a teardown ends, no thread has a gap to report. *)
LEMMA StopClears ==
    ASSUME NEW c, IxReady(c), Next, stopping, ~stopping'
    PROVE  /\ TransportFinal /\ QuietStep
           /\ \A t \in Threads : ~Reports(pc[t]) /\ ~Reports(pc'[t])
<1>. USE DEF flagVars
<1>1. TransportFinal
  <2>1. CASE IxStep \/ Environment \/ GapStep("ix")
    BY <2>1, IxGoes, IxReadyFacts
  <2>2. CASE WorkerStep
    BY <2>2 DEF WorkerStep, WorkerLoop, Pop, DispatchMessage, Deliver
  <2>3. CASE GapStep("worker") \/ GapStep(c)
    BY <2>3 DEF GapStep, MarkGap, DiscardPending, StreamGapCallback, ResnapshotCheck,
       ResnapshotExchange, ResnapshotClose
  <2>4. CASE TransportWake \/ TeardownStep("teardown")
    BY <2>4, TransportTears DEF TransportWake
  <2>5. CASE CallStep(c)
    BY <2>5, CallerStarts
       DEF CallStep, ConnectEntry, ConnectRetire, ConnectStart, ConnectLaunch
  <2>6. CASE \/ CallConnect(c) \/ CallDisconnect(c) \/ CallResnapshot(c) \/ AwaitTransportStop(c)
             \/ Disconnect(c) \/ TeardownStep(c)
    BY <2>6, CallerDisconnects, CallerTears
       DEF CallConnect, CallDisconnect, CallResnapshot, AwaitTransportStop
  <2>. QED  BY <2>1, <2>2, <2>3, <2>4, <2>5, <2>6, WhoSteps DEF TransportStep
<1>2. QuietStep
  BY <1>1, QuietTransport DEF TransportStep
<1>3. /\ Moves("teardown", <<"final">>, <<>>) /\ pc["ix"] = <<>> /\ pc["worker"] = <<>>
      /\ pc[c] \in AwaitStacks
  BY <1>1, TransportEnds, CallerReady
<1>4. ~Reports(<<>>) /\ ~Reports(<<"final">>) /\ ~Reports(pc[c])
  BY <1>3, QuietStacks DEF WorkerQuiet, QuietCalls, TransportStacks, JoinedStacks
<1>5. \A t \in Threads : ~Reports(pc[t])
  BY <1>3, <1>4, IxReadyFacts DEF Moves
<1>. QED  BY <1>1, <1>2, <1>5 DEF QuietStep

(* Only the thread that draws, reports or closes moves, and no flag does. *)
LEMMA GapKeeps ==
    ASSUME NEW t, MarkGap(t) \/ DiscardPending(t) \/ StreamGapCallback(t) \/ ResnapshotClose(t)
    PROVE  /\ stopping' = stopping /\ state' = state /\ resnap' = resnap
           /\ (MarkGap(t) /\ ~stopping) \/ UNCHANGED <<gen, mark>>
           /\ ResnapshotClose(t) \/ UNCHANGED ix
<1>. USE DEF flagVars, streamVars
<1>1. CASE MarkGap(t)
  BY <1>1 DEF MarkGap
<1>2. CASE DiscardPending(t)
  BY <1>2 DEF DiscardPending
<1>3. CASE StreamGapCallback(t)
  BY <1>3 DEF StreamGapCallback
<1>4. CASE ResnapshotClose(t)
  BY <1>4 DEF ResnapshotClose
<1>. QED  BY <1>1, <1>2, <1>3, <1>4

LEMMA MarkStep ==
    ASSUME NEW c, IxReady(c), MarkInv, [Next]_vars
    PROVE  MarkInv'
<1>0. /\ gen \in Nat /\ mark \in [Threads -> Nat] /\ pc \in [Threads -> Seq(Steps)]
      /\ {c, "ix", "worker"} \subseteq Threads
  BY IxReadyFacts DEF IxReady, StopInv, TypeParts, StreamOK
<1>1. CASE UNCHANGED vars
  BY <1>1 DEF vars, MarkInv
<1>2. CASE Next /\ QuietStep
  <2>1. CASE stopping => stopping'
    <3>1. \A t \in Threads : Reports(pc'[t]) => Reports(pc[t])
      BY <1>2 DEF QuietStep
    <3>. QED  BY <1>2, <2>1, <3>1 DEF QuietStep, MarkInv
  <2>2. CASE stopping /\ ~stopping'
    <3>1. \A t \in Threads : ~Reports(pc'[t])
      BY <1>2, <2>2, StopClears
    <3>. QED  BY <1>2, <3>1 DEF QuietStep, MarkInv
  <2>. QED  BY <2>1, <2>2
<1>3. ASSUME NEW t \in {c, "ix", "worker"}, NEW from, NEW to, Moves(t, from, to),
             Reports(from), UNCHANGED <<gen, mark, stopping>>
      PROVE  MarkInv'
  <2>1. \A u \in Threads : Reports(pc'[u]) => Reports(pc[u])
    BY <1>0, <1>3 DEF Moves
  <2>. QED  BY <1>3, <2>1 DEF MarkInv
<1>4. ASSUME NEW t \in {c, "ix", "worker"},
             MarkGap(t) \/ DiscardPending(t) \/ StreamGapCallback(t) \/ ResnapshotClose(t)
      PROVE  MarkInv'
  <2>1. CASE MarkGap(t) /\ ~stopping
    <3>1. PICK y \in Marked :
             /\ Moves(t, GapStack(t, "mark", y), GapStack(t, "discard", y))
             /\ gen' = gen + 1 /\ mark' = [mark EXCEPT ![t] = gen + 1]
      BY <1>4, <2>1, GapMoves
    <3>2. /\ \A u \in Threads \ {t} : pc'[u] = pc[u] /\ mark'[u] = mark[u] /\ mark[u] \in Nat
          /\ mark'[t] = gen + 1 /\ t \in Threads
      BY <1>0, <1>4, <3>1 DEF Moves
    <3>3. \A u \in Threads \ {t} : mark'[u] <= gen
      BY <3>2 DEF MarkInv
    <3>4. \A u \in Threads : mark'[u] <= gen'
      BY <1>0, <3>1, <3>2, <3>3
    <3>5. stopping' = stopping
      BY <1>4, GapKeeps
    <3>6. ASSUME NEW u \in Threads, NEW v \in Threads, u # v, Reports(pc'[u]), Reports(pc'[v])
          PROVE  mark'[u] # mark'[v]
      <4>1. CASE u = t
        BY <1>0, <3>2, <3>3, <3>6, <4>1
      <4>2. CASE v = t
        BY <1>0, <3>2, <3>3, <3>6, <4>2
      <4>3. CASE u # t /\ v # t
        BY <2>1, <3>2, <3>6, <4>3 DEF MarkInv
      <4>. QED  BY <4>1, <4>2, <4>3
    <3>. QED  BY <3>4, <3>6 DEF MarkInv
  <2>2. CASE MarkGap(t) /\ stopping
    BY <1>4, <2>2, GapKeeps DEF MarkInv
  <2>3. UNCHANGED stopping /\ (~MarkGap(t) => UNCHANGED <<gen, mark>>)
    BY <1>4, GapKeeps
  <2>4. CASE ~MarkGap(t) /\ DiscardPending(t)
    <3>1. PICK y \in Marked : Moves(t, GapStack(t, "discard", y), GapStack(t, "gap", y))
      BY <1>4, <2>4, GapMoves
    <3>2. Reports(GapStack(t, "discard", y))
      BY GapStackKinds
    <3>. QED  BY <1>3, <2>3, <2>4, <3>1, <3>2
  <2>5. CASE ~MarkGap(t) /\ StreamGapCallback(t)
    <3>1. PICK y \in Marked : Moves(t, GapStack(t, "gap", y), RestStack(t, y))
      BY <1>4, <2>5, GapMoves
    <3>2. Reports(GapStack(t, "gap", y))
      BY GapStackKinds
    <3>. QED  BY <1>3, <2>3, <2>5, <3>1, <3>2
  <2>6. CASE ~MarkGap(t) /\ ResnapshotClose(t)
    <3>1. Moves(t, RestStack(t, "close"), CloseStack(t))
      BY <1>4, <2>6, GapMoves
    <3>2. Reports(RestStack(t, "close"))
      BY GapStackKinds DEF Marked
    <3>. QED  BY <1>3, <2>3, <2>6, <3>1, <3>2
  <2>. QED  BY <1>4, <2>1, <2>2, <2>4, <2>5, <2>6
<1>. QED  BY <1>1, <1>2, <1>4, QuietOrGap

LEMMA StreamInit ==
    ASSUME NEW c, OneCaller(c), InitState
    PROVE  IxReady(c) /\ PhaseInv /\ MarkInv
<1>1. IxReady(c)
  BY ShapesInit
<1>2. /\ \A t \in Threads : pc[t] = <<>> /\ mark[t] = 0
      /\ gen = 0 /\ state = "DISCONNECTED" /\ ~ix.first /\ "ix" \in Threads
  BY <1>1, IxReadyFacts DEF InitState
<1>3. <<>> \in RestStacks
  BY DEF RestStacks
<1>4. PhaseInv
  BY <1>2, <1>3, PhaseKinds DEF PhaseInv
<1>5. ~Reports(<<>>)
  BY QuietStacks DEF WorkerQuiet
<1>6. MarkInv
  BY <1>2, <1>5 DEF MarkInv
<1>. QED  BY <1>1, <1>4, <1>6

-----------------------------------------------------------------------------
(* The gaps under way, as GapStream sees them.                             *)

RepRec(s, m) == [gen |-> m, own |-> ~Requested(s), told |-> ~Untold(s)]

LEMMA ReportsAre ==
    /\ \A r : r \in ReportsOf <=>
         \E t \in Threads : ~stopping /\ Reports(pc[t]) /\ r = RepRec(pc[t], mark[t])
    /\ \A r : r \in ReportsOf' <=>
         \E t \in Threads : ~stopping' /\ Reports(pc'[t]) /\ r = RepRec(pc'[t], mark'[t])
<1>1. /\ \A t \in Threads : /\ Reports(pc[t]) <=>
                                 ~Does(t, {"mark"}) /\ Does(t, {"discard", "gap", "close"})
                            /\ Requested(pc[t]) <=> Does(t, {"close"})
                            /\ Untold(pc[t]) <=> Does(t, {"discard", "gap"})
      /\ \A t \in Threads : /\ Reports(pc'[t]) <=>
                                 ~Does(t, {"mark"})' /\ Does(t, {"discard", "gap", "close"})'
                            /\ Requested(pc'[t]) <=> Does(t, {"close"})'
                            /\ Untold(pc'[t]) <=> Does(t, {"discard", "gap"})'
  BY DoesOf, Zenon DEF Reports, Requested, Untold
<1>2. ASSUME NEW r
      PROVE  r \in ReportsOf <=>
               \E t \in Threads : ~stopping /\ Reports(pc[t]) /\ r = RepRec(pc[t], mark[t])
  <2>1. r \in ReportsOf <=>
          \E t \in Threads : /\ ~stopping /\ ~Does(t, {"mark"}) /\ Does(t, {"discard", "gap",
                                                                            "close"})
                             /\ r = [gen |-> mark[t], own |-> ~Does(t, {"close"}),
                                     told |-> ~Does(t, {"discard", "gap"})]
    BY Zenon DEF ReportsOf
  <2>. QED  BY <1>1, <2>1 DEF RepRec
<1>3. ASSUME NEW r
      PROVE  r \in ReportsOf' <=>
               \E t \in Threads : ~stopping' /\ Reports(pc'[t]) /\ r = RepRec(pc'[t], mark'[t])
  <2>1. r \in ReportsOf' <=>
          \E t \in Threads : /\ ~stopping' /\ ~Does(t, {"mark"})'
                             /\ Does(t, {"discard", "gap", "close"})'
                             /\ r = [gen |-> mark'[t], own |-> ~Does(t, {"close"})',
                                     told |-> ~Does(t, {"discard", "gap"})']
    BY Zenon DEF ReportsOf
  <2>. QED  BY <1>1, <2>1 DEF RepRec
<1>. QED  BY <1>2, <1>3

LEMMA ReportsStopped ==
    (stopping => ReportsOf = {}) /\ (stopping' => ReportsOf' = {})
BY ReportsAre

LEMMA ReportsQuiet ==
    ASSUME QuietStep, stopping' <=> stopping
    PROVE  ReportsOf' = ReportsOf
<1>1. ASSUME NEW t \in Threads
      PROVE  /\ Reports(pc'[t]) <=> Reports(pc[t])
             /\ Reports(pc[t]) => pc'[t] = pc[t] /\ mark'[t] = mark[t]
  BY <1>1 DEF QuietStep
<1>2. \A r : r \in ReportsOf' <=> r \in ReportsOf
  BY <1>1, ReportsAre
<1>. QED  BY <1>2

(* One thread moves: its own gap changes, the others do not. *)
LEMMA ReportsMove ==
    ASSUME NEW c, IxReady(c), NEW t \in Threads, NEW from, NEW to, Moves(t, from, to),
           ~stopping, ~stopping', \A u \in Threads : u # t => mark'[u] = mark[u]
    PROVE  \A r :
             /\ r \in ReportsOf <=>
                  \/ Reports(from) /\ r = RepRec(from, mark[t])
                  \/ \E u \in Threads : u # t /\ Reports(pc[u]) /\ r = RepRec(pc[u], mark[u])
             /\ r \in ReportsOf' <=>
                  \/ Reports(to) /\ r = RepRec(to, mark'[t])
                  \/ \E u \in Threads : u # t /\ Reports(pc[u]) /\ r = RepRec(pc[u], mark[u])
<1>1. pc[t] = from /\ pc'[t] = to /\ \A u \in Threads : u # t => pc'[u] = pc[u]
  BY IxReadyFacts DEF Moves
<1>. QED  BY <1>1, ReportsAre

(* mark_stream_gap adds a gap ... *)
LEMMA ReportsDraw ==
    ASSUME NEW c, IxReady(c), NEW t \in {c, "ix", "worker"}, NEW y \in Marked,
           Moves(t, GapStack(t, "mark", y), GapStack(t, "discard", y)),
           mark' = [mark EXCEPT ![t] = gen + 1], ~stopping, ~stopping'
    PROVE  /\ y = "close" =>
                ReportsOf' = ReportsOf \cup {[gen |-> gen + 1, own |-> FALSE, told |-> FALSE]}
           /\ y # "close" =>
                ReportsOf' = ReportsOf \cup {[gen |-> gen + 1, own |-> TRUE, told |-> FALSE]}
<1>. DEFINE from == GapStack(t, "mark", y)
            to == GapStack(t, "discard", y)
<1>0. t \in Threads /\ mark \in [Threads -> Nat]
  BY IxReadyFacts DEF IxReady, StopInv, TypeParts, StreamOK
<1>1. ~Reports(from) /\ Reports(to) /\ Untold(to) /\ (Requested(to) <=> y = "close")
  BY GapStackKinds
<1>. HIDE DEF from, to
<1>2. \A u \in Threads : u # t => mark'[u] = mark[u]
  BY <1>0
<1>3. mark'[t] = gen + 1
  BY <1>0
<1>. DEFINE r0 == RepRec(to, gen + 1)
<1>4. \A r : r \in ReportsOf' <=> r \in ReportsOf \/ r = r0
  <2>1. Moves(t, from, to)
    BY DEF from, to
  <2>. QED  BY <1>0, <1>1, <1>2, <1>3, <2>1, ReportsMove
<1>5. /\ y = "close" => r0 = [gen |-> gen + 1, own |-> FALSE, told |-> FALSE]
      /\ y # "close" => r0 = [gen |-> gen + 1, own |-> TRUE, told |-> FALSE]
  BY <1>1 DEF RepRec
<1>. HIDE DEF r0
<1>6. ReportsOf' = ReportsOf \cup {r0}
  BY <1>4
<1>. QED  BY <1>5, <1>6

(* ... discard_pending leaves it ... *)
LEMMA ReportsDiscard ==
    ASSUME NEW c, IxReady(c), NEW t \in {c, "ix", "worker"}, NEW y \in Marked,
           Moves(t, GapStack(t, "discard", y), GapStack(t, "gap", y)),
           UNCHANGED mark, ~stopping, ~stopping'
    PROVE  ReportsOf' = ReportsOf
<1>. DEFINE from == GapStack(t, "discard", y)
            to == GapStack(t, "gap", y)
<1>0. t \in Threads
  BY IxReadyFacts
<1>1. /\ Reports(from) /\ Untold(from) /\ (Requested(from) <=> y = "close")
      /\ Reports(to) /\ Untold(to) /\ (Requested(to) <=> y = "close")
  BY GapStackKinds
<1>2. Moves(t, from, to)
  OBVIOUS
<1>. HIDE DEF from, to
<1>3. RepRec(from, mark[t]) = RepRec(to, mark[t])
  BY <1>1 DEF RepRec
<1>4. \A r : r \in ReportsOf' <=> r \in ReportsOf
  BY <1>0, <1>1, <1>2, <1>3, ReportsMove
<1>. QED  BY <1>4

(* ... and the callback reports it: it is over, or the socket is to be closed. *)
LEMMA ReportsTell ==
    ASSUME NEW c, IxReady(c), MarkInv, NEW t \in {c, "ix", "worker"}, NEW y \in Marked,
           Moves(t, GapStack(t, "gap", y), RestStack(t, y)),
           UNCHANGED mark, ~stopping, ~stopping'
    PROVE  \E r \in ReportsOf :
             /\ ~r.told
             /\ ReportsOf' = (ReportsOf \ {r})
                               \cup (IF r.own THEN {} ELSE {[r EXCEPT !.told = TRUE]})
<1>. DEFINE from == GapStack(t, "gap", y)
            to == RestStack(t, y)
<1>0. t \in Threads
  BY IxReadyFacts
<1>1. /\ Reports(from) /\ Untold(from) /\ (Requested(from) <=> y = "close")
      /\ ~Untold(to) /\ (Requested(to) <=> y = "close") /\ (Reports(to) <=> y = "close")
  BY GapStackKinds
<1>2. Moves(t, from, to)
  OBVIOUS
<1>. HIDE DEF from, to
<1>3. pc[t] = from
  BY <1>2 DEF Moves
<1>. DEFINE r0 == RepRec(from, mark[t])
            r1 == RepRec(to, mark[t])
<1>4. ASSUME NEW u \in Threads, u # t, Reports(pc[u]) PROVE r0 # RepRec(pc[u], mark[u])
  <2>1. mark[t] # mark[u]
    BY <1>0, <1>1, <1>3, <1>4 DEF MarkInv
  <2>2. r0.gen = mark[t] /\ RepRec(pc[u], mark[u]).gen = mark[u]
    BY DEF RepRec
  <2>. QED  BY <2>1, <2>2
<1>5. ~r0.told /\ (r0.own <=> y # "close") /\ (y = "close" => r1 = [r0 EXCEPT !.told = TRUE])
  <2>1. ~r0.told /\ (r0.own <=> y # "close")
    BY <1>1 DEF RepRec
  <2>. DEFINE o == ~Requested(from)
              b == ~Untold(from)
              v == TRUE
  <2>2. /\ r0 = [gen |-> mark[t], own |-> o, told |-> b]
        /\ y = "close" => r1 = [gen |-> mark[t], own |-> o, told |-> v]
    BY <1>1 DEF RepRec
  <2>. HIDE DEF o, b, v
  <2>3. [[gen |-> mark[t], own |-> o, told |-> b] EXCEPT !.told = v]
            = [gen |-> mark[t], own |-> o, told |-> v]
    OBVIOUS
  <2>. HIDE DEF r0, r1
  <2>4. y = "close" => r1 = [r0 EXCEPT !.told = v]
    BY <2>2, <2>3
  <2>. QED  BY <2>1, <2>4 DEF v
<1>6. r1 # r0
  <2>1. r1.told
    BY <1>1 DEF RepRec
  <2>. QED  BY <1>5, <2>1
<1>. HIDE DEF r0, r1
<1>7. \A r : /\ r \in ReportsOf <=>
                  r = r0 \/ \E u \in Threads : u # t /\ Reports(pc[u]) /\ r = RepRec(pc[u], mark[u])
             /\ r \in ReportsOf' <=>
                  \/ y = "close" /\ r = r1
                  \/ \E u \in Threads : u # t /\ Reports(pc[u]) /\ r = RepRec(pc[u], mark[u])
  BY <1>0, <1>1, <1>2, ReportsMove DEF r0, r1
<1>8. \A r : r \in ReportsOf' <=> (r \in ReportsOf /\ r # r0) \/ (y = "close" /\ r = r1)
  BY <1>4, <1>7
<1>9. r0 \in ReportsOf
  BY <1>7
<1>10. ReportsOf' = (ReportsOf \ {r0}) \cup (IF r0.own THEN {} ELSE {[r0 EXCEPT !.told = TRUE]})
  <2>. DEFINE r2 == [r0 EXCEPT !.told = TRUE]
  <2>0. y = "close" => r1 = r2
    BY <1>5
  <2>. HIDE DEF r2
  <2>1. CASE y = "close"
    <3>1. ReportsOf' = (ReportsOf \ {r0}) \cup {r2} /\ ~r0.own
      BY <1>5, <1>8, <2>0, <2>1
    <3>. QED  BY <3>1 DEF r2
  <2>2. CASE y # "close"
    <3>1. ReportsOf' = ReportsOf \ {r0} /\ r0.own
      BY <1>5, <1>8, <2>2
    <3>. QED  BY <3>1
  <2>. QED  BY <2>1, <2>2
<1>. QED  BY <1>5, <1>9, <1>10

LEMMA ReportsClose ==
    ASSUME NEW c, IxReady(c), MarkInv, NEW t \in {c, "ix", "worker"},
           Moves(t, RestStack(t, "close"), CloseStack(t)),
           UNCHANGED mark, ~stopping, ~stopping'
    PROVE  \E r \in ReportsOf : r.told /\ ReportsOf' = ReportsOf \ {r}
<1>. DEFINE from == RestStack(t, "close")
            to == CloseStack(t)
<1>0. t \in Threads /\ "close" \in Marked
  BY IxReadyFacts DEF Marked
<1>1. Reports(from) /\ ~Untold(from) /\ ~Reports(to)
  BY <1>0, GapStackKinds
<1>2. Moves(t, from, to)
  OBVIOUS
<1>. HIDE DEF from, to
<1>3. pc[t] = from
  BY <1>2 DEF Moves
<1>. DEFINE r0 == RepRec(from, mark[t])
<1>4. ASSUME NEW u \in Threads, u # t, Reports(pc[u]) PROVE r0 # RepRec(pc[u], mark[u])
  <2>1. mark[t] # mark[u]
    BY <1>0, <1>1, <1>3, <1>4 DEF MarkInv
  <2>2. r0.gen = mark[t] /\ RepRec(pc[u], mark[u]).gen = mark[u]
    BY DEF RepRec
  <2>. QED  BY <2>1, <2>2
<1>5. r0.told
  BY <1>1 DEF RepRec
<1>. HIDE DEF r0
<1>7. \A r : /\ r \in ReportsOf <=>
                  r = r0 \/ \E u \in Threads : u # t /\ Reports(pc[u]) /\ r = RepRec(pc[u], mark[u])
             /\ r \in ReportsOf' <=>
                  \E u \in Threads : u # t /\ Reports(pc[u]) /\ r = RepRec(pc[u], mark[u])
  BY <1>0, <1>1, <1>2, ReportsMove DEF r0
<1>8. \A r : r \in ReportsOf' <=> r \in ReportsOf /\ r # r0
  BY <1>4, <1>7
<1>9. r0 \in ReportsOf /\ ReportsOf' = ReportsOf \ {r0}
  BY <1>7, <1>8
<1>. QED  BY <1>5, <1>9

(* The gaps of the other threads are those of request_resnapshot. *)
LEMMA OwnIsIx ==
    ASSUME NEW c, IxReady(c), pc["ix"] \in IxQuiet
    PROVE  \A r \in ReportsOf : ~r.own
<1>1. ~Reports(pc["ix"]) /\ ~Reports(pc["teardown"])
  BY QuietStacks DEF IxReady, StopInv, StopShapes, TransportStacks
<1>2. Reports(pc["worker"]) => Requested(pc["worker"])
  <2>1. \A s \in {<<"discard", "close", "loop">>, <<"gap", "close", "loop">>, <<"close", "loop">>} :
          DoesIn(s, {"close"})
    BY DEF DoesIn
  <2>2. pc["worker"] \in WorkerQuiet \/ pc["worker"] \in
          {<<"discard", "close", "loop">>, <<"gap", "close", "loop">>, <<"close", "loop">>}
    BY IxReadyFacts DEF WorkerStacks, WorkerQuiet, AskingStacks
  <2>. QED  BY <2>1, <2>2, QuietStacks DEF Requested
<1>3. Reports(pc[c]) => Requested(pc[c])
  <2>1. \A s \in {<<"discard", "close">>, <<"gap", "close">>, <<"close">>} : DoesIn(s, {"close"})
    BY DEF DoesIn
  <2>2. pc[c] \in QuietCalls \cup {<<"mark", "close">>}
          \/ pc[c] \in {<<"discard", "close">>, <<"gap", "close">>, <<"close">>}
    BY CallerReady, CallKinds DEF GapCalls
  <2>. QED  BY <2>1, <2>2, QuietStacks DEF Requested
<1>4. \A t \in Threads : Reports(pc[t]) => Requested(pc[t])
  <2>1. Threads = {c, "ix", "worker", "teardown"}
    BY IxReadyFacts
  <2>. QED  BY <1>1, <1>2, <1>3, <2>1
<1>5. ASSUME NEW r \in ReportsOf PROVE ~r.own
  <2>1. PICK t \in Threads : Reports(pc[t]) /\ r = RepRec(pc[t], mark[t])
    BY ReportsAre
  <2>. QED  BY <1>4, <2>1 DEF RepRec
<1>. QED  BY <1>5

-----------------------------------------------------------------------------
(* The phase of the connection, as GapStream sees it.                      *)

LinkAt(st, stp, s) ==
    IF stp \/ st \in {"DISCONNECTED", "CLOSING"} THEN "off"
    ELSE IF st = "CONNECTED"
         THEN IF DoesIn(s, {"restore"}) THEN "restore"
              ELSE IF DoesIn(s, {"on_connect"}) THEN "connect"
              ELSE IF DoesIn(s, {"close_state"}) /\ ~DoesIn(s, {"mark"}) THEN "lost"
              ELSE "up"
         ELSE IF DoesIn(s, {"mark"}) THEN "dial"
              ELSE IF DoesIn(s, {"opened"}) THEN "opened"
              ELSE IF DoesIn(s, {"error_state"}) THEN "failed"
              ELSE IF DoesIn(s, {"on_close", "on_disconnect"}) THEN "closed"
              ELSE "dial"

LEMMA LinkIs ==
    /\ LinkOf = LinkAt(state, stopping, pc["ix"])
    /\ LinkOf' = LinkAt(state', stopping', pc'["ix"])
BY Zenon DEF LinkOf, LinkAt, Does, DoesIn

UpStacks ==
    {<<"poll">>, <<"enqueue", "poll">>, <<"stamp", "poll">>, <<"push", "poll">>,
     <<"closed", "dial">>, <<"mark", "close_state", "dial">>} \cup AskingStacks("poll")
LostStacks ==
    {<<"discard", "close_state", "dial">>, <<"gap", "close_state", "dial">>,
     <<"close_state", "dial">>}
OpenedStacks ==
    {<<"discard", "opened", "poll">>, <<"gap", "opened", "poll">>, <<"opened", "poll">>}
FailedStacks ==
    {<<"discard", "error_state", "dial">>, <<"gap", "error_state", "dial">>,
     <<"error_state", "dial">>}
DialingStacks ==
    {<<"mark", "opened", "poll">>, <<"error", "dial">>, <<"mark", "error_state", "dial">>}

LEMMA LinkTable ==
    ASSUME NEW st, NEW stp, ~stp, NEW s, NEW x, PhaseAt(st, s, x)
    PROVE  /\ s = <<"restore", "poll">> => LinkAt(st, stp, s) = "restore"
           /\ s = <<"on_connect", "poll">> => LinkAt(st, stp, s) = "connect"
           /\ s \in UpStacks => LinkAt(st, stp, s) = "up"
           /\ s \in LostStacks => LinkAt(st, stp, s) = "lost"
           /\ s \in OpenedStacks => LinkAt(st, stp, s) = "opened"
           /\ s \in DialingStacks => LinkAt(st, stp, s) = "dial"
           /\ s \in FailedStacks => LinkAt(st, stp, s) = "failed"
           /\ s \in ClosedStacks => LinkAt(st, stp, s) = "closed"
           /\ s \in RestStacks => LinkAt(st, stp, s) =
                (IF st \in {"DISCONNECTED", "CLOSING"} THEN "off" ELSE "dial")
<1>1. ASSUME s \in OpenStacks \cup ClosingStacks
      PROVE  LinkAt(st, stp, s) =
                IF DoesIn(s, {"restore"}) THEN "restore"
                ELSE IF DoesIn(s, {"on_connect"}) THEN "connect"
                ELSE IF DoesIn(s, {"close_state"}) /\ ~DoesIn(s, {"mark"}) THEN "lost"
                ELSE "up"
  BY <1>1 DEF LinkAt, PhaseAt
<1>2. ASSUME s \in OpeningStacks \cup ErrorStacks \cup ClosedStacks
      PROVE  LinkAt(st, stp, s) =
                IF DoesIn(s, {"mark"}) THEN "dial"
                ELSE IF DoesIn(s, {"opened"}) THEN "opened"
                ELSE IF DoesIn(s, {"error_state"}) THEN "failed"
                ELSE IF DoesIn(s, {"on_close", "on_disconnect"}) THEN "closed"
                ELSE "dial"
  BY <1>2 DEF LinkAt, PhaseAt
<1>3. /\ <<"restore", "poll">> \in OpenStacks /\ <<"on_connect", "poll">> \in OpenStacks
      /\ UpStacks \subseteq OpenStacks \cup ClosingStacks /\ LostStacks \subseteq ClosingStacks
  BY DEF OpenStacks, FlowingStacks, ClosingStacks, UpStacks, LostStacks
<1>4. /\ OpenedStacks \subseteq OpeningStacks /\ FailedStacks \subseteq ErrorStacks
      /\ DialingStacks \subseteq OpeningStacks \cup ErrorStacks
  BY DEF OpeningStacks, ErrorStacks, OpenedStacks, FailedStacks, DialingStacks
<1>5. /\ DoesIn(<<"restore", "poll">>, {"restore"})
      /\ ~DoesIn(<<"on_connect", "poll">>, {"restore"})
      /\ DoesIn(<<"on_connect", "poll">>, {"on_connect"})
  BY DEF DoesIn
<1>6. /\ \A u \in UpStacks : ~DoesIn(u, {"restore"}) /\ ~DoesIn(u, {"on_connect"})
      /\ \A u \in UpStacks : DoesIn(u, {"close_state"}) => DoesIn(u, {"mark"})
  <2>1. \A u \in UpStacks : ~DoesIn(u, {"restore"}) /\ ~DoesIn(u, {"on_connect"})
    BY DEF UpStacks, AskingStacks, DoesIn
  <2>2. DoesIn(<<"mark", "close_state", "dial">>, {"mark"})
    BY DoesLiteral
  <2>3. \A u \in UpStacks \ {<<"mark", "close_state", "dial">>} : ~DoesIn(u, {"close_state"})
    BY DEF UpStacks, AskingStacks, DoesIn
  <2>. QED  BY <2>1, <2>2, <2>3
<1>7. /\ \A u \in LostStacks : /\ ~DoesIn(u, {"restore"}) /\ ~DoesIn(u, {"on_connect"})
                               /\ ~DoesIn(u, {"mark"})
      /\ \A u \in LostStacks : DoesIn(u, {"close_state"})
  <2>1. \A u \in LostStacks : /\ ~DoesIn(u, {"restore"}) /\ ~DoesIn(u, {"on_connect"})
                              /\ ~DoesIn(u, {"mark"})
    BY DEF LostStacks, DoesIn
  <2>2. \A a, z : DoesIn(<<a, "close_state", z>>, {"close_state"})
                  /\ DoesIn(<<"close_state", z>>, {"close_state"})
    BY DoesLiteral
  <2>. QED  BY <2>1, <2>2 DEF LostStacks
<1>8. /\ \A u \in OpenedStacks : ~DoesIn(u, {"mark"})
      /\ \A u \in OpenedStacks : DoesIn(u, {"opened"})
  <2>1. \A u \in OpenedStacks : ~DoesIn(u, {"mark"})
    BY DEF OpenedStacks, DoesIn
  <2>2. \A a, z : DoesIn(<<a, "opened", z>>, {"opened"}) /\ DoesIn(<<"opened", z>>, {"opened"})
    BY DoesLiteral
  <2>. QED  BY <2>1, <2>2 DEF OpenedStacks
<1>9. /\ \A u \in FailedStacks : ~DoesIn(u, {"mark"}) /\ ~DoesIn(u, {"opened"})
      /\ \A u \in FailedStacks : DoesIn(u, {"error_state"})
  <2>1. \A u \in FailedStacks : ~DoesIn(u, {"mark"}) /\ ~DoesIn(u, {"opened"})
    BY DEF FailedStacks, DoesIn
  <2>2. \A a, z : DoesIn(<<a, "error_state", z>>, {"error_state"})
                  /\ DoesIn(<<"error_state", z>>, {"error_state"})
    BY DoesLiteral
  <2>. QED  BY <2>1, <2>2 DEF FailedStacks
<1>10. \A u \in DialingStacks :
         \/ DoesIn(u, {"mark"})
         \/ /\ ~DoesIn(u, {"opened"}) /\ ~DoesIn(u, {"error_state"})
            /\ ~DoesIn(u, {"on_close", "on_disconnect"})
  <2>1. \A y, z : DoesIn(<<"mark", y, z>>, {"mark"})
    BY DoesLiteral
  <2>2. LET u == <<"error", "dial">>
        IN  /\ ~DoesIn(u, {"opened"}) /\ ~DoesIn(u, {"error_state"})
            /\ ~DoesIn(u, {"on_close", "on_disconnect"})
    BY DEF DoesIn
  <2>. QED  BY <2>1, <2>2 DEF DialingStacks
<1>11. \A u \in ClosedStacks :
         /\ ~DoesIn(u, {"mark"}) /\ ~DoesIn(u, {"opened"}) /\ ~DoesIn(u, {"error_state"})
         /\ DoesIn(u, {"on_close", "on_disconnect"})
  <2>1. \A u \in ClosedStacks :
          ~DoesIn(u, {"mark"}) /\ ~DoesIn(u, {"opened"}) /\ ~DoesIn(u, {"error_state"})
    BY DEF ClosedStacks, DoesIn
  <2>2. \A z : DoesIn(<<"on_close", z>>, {"on_close", "on_disconnect"})
               /\ DoesIn(<<"on_disconnect", z>>, {"on_close", "on_disconnect"})
    BY DoesLiteral
  <2>. QED  BY <2>1, <2>2 DEF ClosedStacks
<1>12. \A u \in RestStacks :
         /\ ~DoesIn(u, {"mark"}) /\ ~DoesIn(u, {"opened"}) /\ ~DoesIn(u, {"error_state"})
         /\ ~DoesIn(u, {"on_close", "on_disconnect"})
  BY DEF RestStacks, DoesIn
<1>13. s = <<"restore", "poll">> => LinkAt(st, stp, s) = "restore"
  BY <1>1, <1>3, <1>5
<1>14. s = <<"on_connect", "poll">> => LinkAt(st, stp, s) = "connect"
  BY <1>1, <1>3, <1>5
<1>15. s \in UpStacks => LinkAt(st, stp, s) = "up"
  BY <1>1, <1>3, <1>6
<1>16. s \in LostStacks => LinkAt(st, stp, s) = "lost"
  BY <1>1, <1>3, <1>7
<1>17. s \in OpenedStacks => LinkAt(st, stp, s) = "opened"
  BY <1>2, <1>4, <1>8
<1>18. s \in DialingStacks => LinkAt(st, stp, s) = "dial"
  BY <1>2, <1>4, <1>10
<1>19. s \in FailedStacks => LinkAt(st, stp, s) = "failed"
  BY <1>2, <1>4, <1>9
<1>20. s \in ClosedStacks => LinkAt(st, stp, s) = "closed"
  BY <1>2, <1>11
<1>21. s \in RestStacks => LinkAt(st, stp, s) =
                (IF st \in {"DISCONNECTED", "CLOSING"} THEN "off" ELSE "dial")
  BY <1>12 DEF LinkAt, PhaseAt
<1>. QED  BY <1>13, <1>14, <1>15, <1>16, <1>17, <1>18, <1>19, <1>20, <1>21

LEMMA LinkOff ==
    /\ stopping \/ state \in {"DISCONNECTED", "CLOSING"} => LinkOf = "off"
    /\ stopping' \/ state' \in {"DISCONNECTED", "CLOSING"} => LinkOf' = "off"
BY LinkIs DEF LinkAt

LEMMA LinkSame ==
    ASSUME pc'["ix"] = pc["ix"], state' = state, stopping' <=> stopping
    PROVE  LinkOf' = LinkOf
BY LinkIs DEF LinkAt

(* The phase from the stack, before and after a step. *)
LEMMA LinkNow ==
    ASSUME PhaseInv, ~stopping
    PROVE  /\ pc["ix"] = <<"restore", "poll">> => LinkOf = "restore"
           /\ pc["ix"] = <<"on_connect", "poll">> => LinkOf = "connect"
           /\ pc["ix"] \in UpStacks => LinkOf = "up"
           /\ pc["ix"] \in LostStacks => LinkOf = "lost"
           /\ pc["ix"] \in OpenedStacks => LinkOf = "opened"
           /\ pc["ix"] \in DialingStacks => LinkOf = "dial"
           /\ pc["ix"] \in FailedStacks => LinkOf = "failed"
           /\ pc["ix"] \in ClosedStacks => LinkOf = "closed"
           /\ pc["ix"] \in RestStacks => LinkOf =
                (IF state \in {"DISCONNECTED", "CLOSING"} THEN "off" ELSE "dial")
BY LinkIs, LinkTable DEF PhaseInv

LEMMA LinkNext ==
    ASSUME PhaseInv', ~stopping'
    PROVE  /\ pc'["ix"] = <<"restore", "poll">> => LinkOf' = "restore"
           /\ pc'["ix"] = <<"on_connect", "poll">> => LinkOf' = "connect"
           /\ pc'["ix"] \in UpStacks => LinkOf' = "up"
           /\ pc'["ix"] \in LostStacks => LinkOf' = "lost"
           /\ pc'["ix"] \in OpenedStacks => LinkOf' = "opened"
           /\ pc'["ix"] \in DialingStacks => LinkOf' = "dial"
           /\ pc'["ix"] \in FailedStacks => LinkOf' = "failed"
           /\ pc'["ix"] \in ClosedStacks => LinkOf' = "closed"
           /\ pc'["ix"] \in RestStacks => LinkOf' =
                (IF state' \in {"DISCONNECTED", "CLOSING"} THEN "off" ELSE "dial")
BY LinkIs, LinkTable DEF PhaseInv

(* A connection that is given up is down. *)
LEMMA LinkDown ==
    ASSUME NEW c, IxReady(c), PhaseInv, LinkOf \in {"lost", "closed", "failed"}
    PROVE  ix.conn = "down"
<1>1. ~stopping
  BY LinkOff
<1>2. pc["ix"] \in DialStacks
  <2>1. \/ pc["ix"] \in {<<"restore", "poll">>, <<"on_connect", "poll">>} \cup OpenedStacks
        \/ pc["ix"] \in UpStacks \cup DialingStacks \/ pc["ix"] \in DialStacks
    BY IxReadyFacts DEF IxStacks, PollStacks, OpeningStacks, OpenStacks, FlowingStacks, UpStacks,
       OpenedStacks, DialingStacks
  <2>2. ASSUME pc["ix"] \notin DialStacks PROVE LinkOf \in {"restore", "connect", "opened", "up",
                                                            "dial"}
    BY <1>1, <2>1, <2>2, LinkNow
  <2>. QED  BY <2>2
<1>. QED  BY <1>2, DialKinds DEF IxReady, StreamShapes, StopInv, TypeParts, IxType

-----------------------------------------------------------------------------
(* Every step is one of GapStream, or leaves what it sees alone.           *)

GapReady(c) == IxReady(c) /\ PhaseInv /\ MarkInv
GapAllows == Gap!GapNext \/ UNCHANGED Gap!gapVars

LEMMA GapStutters ==
    ASSUME gen' = gen, ReportsOf' = ReportsOf, LinkOf' = LinkOf,
           LinkOf = "off" \/ (resnap' = resnap /\ ix'.conn = ix.conn)
    PROVE  GapAllows
<1>. HIDE DEF LinkOf, ReportsOf
<1>. QED  BY DEF GapAllows, Gap!gapVars

LEMMA GapStops ==
    ASSUME gen' = gen, ReportsOf' \in {ReportsOf, {}}, LinkOf' = "off"
    PROVE  GapAllows
<1>. HIDE DEF LinkOf, ReportsOf
<1>1. Gap!Stop
  BY DEF Gap!Stop
<1>. QED  BY <1>1 DEF GapAllows, Gap!GapNext

(* The IX thread, between the gaps it draws. *)
LEMMA GapIx ==
    ASSUME NEW c, GapReady(c), PhaseInv', ReconnectEnabled, ~stopping, IxStep \/ Environment
    PROVE  GapAllows
<1>. USE DEF flagVars
<1>. HIDE DEF LinkOf, ReportsOf, GapAllows
<1>0. /\ IxReady(c) /\ PhaseInv /\ "ix" \in Threads /\ pc \in [Threads -> Seq(Steps)]
      /\ ix \in IxType /\ resnap \in BOOLEAN
  BY IxReadyFacts DEF GapReady, IxReady, StopInv, TypeParts, FlagsOK
<1>1. ~stopping' /\ stopping' = stopping
  BY <1>0, IxGoes
<1>2. QuietStep
  BY <1>0, QuietIx
<1>3. ReportsOf' = ReportsOf /\ gen' = gen
  BY <1>1, <1>2, ReportsQuiet DEF QuietStep
<1>4. pc["ix"] \in IxQuiet => \A r \in ReportsOf : ~r.own
  BY <1>0, OwnIsIx
<1>5. pc["ix"] \in DialStacks => ix.conn = "down"
  BY <1>0, DialKinds DEF IxReady, StreamShapes, IxType
<1>m. ASSUME NEW from, NEW to, Moves("ix", from, to)
      PROVE  pc["ix"] = from /\ pc'["ix"] = to
  BY <1>0, <1>m DEF Moves
<1>u. ASSUME NEW from \in UpStacks, NEW to \in UpStacks, Moves("ix", from, to), resnap' = resnap,
             ix'.conn = ix.conn
      PROVE  GapAllows
  <2>1. pc["ix"] \in UpStacks /\ pc'["ix"] \in UpStacks
    BY <1>u, <1>m
  <2>2. LinkOf = "up" /\ LinkOf' = "up"
    BY <1>0, <1>1, <2>1, LinkNow, LinkNext
  <2>. QED  BY <1>3, <1>u, <2>2, GapStutters
<1>k. /\ {<<"poll">>, <<"enqueue", "poll">>, <<"stamp", "poll">>, <<"push", "poll">>,
          <<"resnapshot", "poll">>, <<"closed", "dial">>, <<"mark", "close_state", "dial">>}
            \subseteq UpStacks
      /\ <<"opened", "poll">> \in OpenedStacks /\ <<"opened", "poll">> \in IxQuiet
      /\ <<"close_state", "dial">> \in LostStacks /\ <<"close_state", "dial">> \in IxQuiet
      /\ <<"error_state", "dial">> \in FailedStacks /\ <<"error_state", "dial">> \in IxQuiet
      /\ {<<"on_close", "dial">>, <<"on_disconnect", "dial">>} \subseteq ClosedStacks
      /\ {<<"mark", "opened", "poll">>, <<"error", "dial">>, <<"mark", "error_state", "dial">>}
            \subseteq DialingStacks
      /\ {<<"dial">>, <<"done">>, <<"on_error", "dial">>} \subseteq RestStacks
      /\ <<"mark", "opened", "poll">> \in OpeningStacks /\ <<"error", "dial">> \in ErrorStacks
  BY DEF UpStacks, AskingStacks, OpenedStacks, LostStacks, FailedStacks, ClosedStacks,
     DialingStacks, RestStacks, IxQuiet, OpeningStacks, ErrorStacks
<1>6. CASE HandleOpen
  <2>1. /\ Moves("ix", <<"opened", "poll">>, <<"restore", "poll">>) /\ resnap' = FALSE
        /\ ix' = [ix EXCEPT !.auto = @ /\ ~(resnap /\ ~ReconnectEnabled)]
    BY <1>0, <1>6, IxOpened
  <2>2. pc["ix"] = <<"opened", "poll">> /\ pc'["ix"] = <<"restore", "poll">>
    BY <1>m, <2>1
  <2>3. LinkOf = "opened" /\ LinkOf' = "restore" /\ \A r \in ReportsOf : ~r.own
    BY <1>0, <1>1, <1>4, <1>k, <2>2, LinkNow, LinkNext
  <2>4. ix'.conn = ix.conn
    BY <1>0, <2>1 DEF IxType
  <2>5. Gap!Publish
    BY <1>3, <2>1, <2>3, <2>4 DEF Gap!Publish, Gap!OwnReported
  <2>. QED  BY <2>5 DEF GapAllows, Gap!GapNext
<1>7. CASE RestoreSubscriptions
  <2>0. resnap' = resnap
    BY <1>7 DEF RestoreSubscriptions
  <2>1. CASE /\ ix.conn = "open" /\ ix' = [ix EXCEPT !.subscribed = TRUE]
             /\ Moves("ix", <<"restore", "poll">>, <<"on_connect", "poll">>)
    <3>1. pc["ix"] = <<"restore", "poll">> /\ pc'["ix"] = <<"on_connect", "poll">>
      BY <1>m, <2>1
    <3>2. LinkOf = "restore" /\ LinkOf' = "connect" /\ ix'.conn = ix.conn
      BY <1>0, <1>1, <2>1, <3>1, LinkNow, LinkNext DEF IxType
    <3>3. Gap!Replay
      BY <1>3, <2>0, <3>2 DEF Gap!Replay
    <3>. QED  BY <3>3 DEF GapAllows, Gap!GapNext
  <2>2. CASE UNCHANGED ix /\ Moves("ix", <<"restore", "poll">>, <<"resnapshot", "poll">>)
    <3>1. pc["ix"] = <<"restore", "poll">> /\ pc'["ix"] = <<"resnapshot", "poll">>
      BY <1>m, <2>2
    <3>2. LinkOf = "restore" /\ LinkOf' = "up" /\ ix'.conn = ix.conn
      BY <1>0, <1>1, <1>k, <2>2, <3>1, LinkNow, LinkNext
    <3>3. Gap!ReplayFails
      BY <1>3, <2>0, <3>2 DEF Gap!ReplayFails
    <3>. QED  BY <3>3 DEF GapAllows, Gap!GapNext
  <2>. QED  BY <1>0, <1>7, <2>1, <2>2, IxRestore
<1>8. CASE TransportCallback
  <2>0. resnap' = resnap /\ ix'.conn = ix.conn /\ state' = state
    BY <1>8 DEF TransportCallback
  <2>1. CASE Moves("ix", <<"on_connect", "poll">>, <<"poll">>)
    <3>1. pc["ix"] = <<"on_connect", "poll">> /\ pc'["ix"] = <<"poll">>
      BY <1>m, <2>1
    <3>2. LinkOf = "connect" /\ LinkOf' = "up"
      BY <1>0, <1>1, <1>k, <3>1, LinkNow, LinkNext
    <3>3. Gap!OnConnect
      BY <1>3, <2>0, <3>2 DEF Gap!OnConnect
    <3>. QED  BY <3>3 DEF GapAllows, Gap!GapNext
  <2>2. CASE Moves("ix", <<"on_close", "dial">>, <<"on_disconnect", "dial">>)
    <3>1. pc["ix"] = <<"on_close", "dial">> /\ pc'["ix"] = <<"on_disconnect", "dial">>
      BY <1>m, <2>2
    <3>2. LinkOf = "closed" /\ LinkOf' = "closed"
      BY <1>0, <1>1, <1>k, <3>1, LinkNow, LinkNext
    <3>. QED  BY <1>3, <2>0, <3>2, GapStutters
  <2>3. CASE Moves("ix", <<"on_disconnect", "dial">>, <<"dial">>)
    <3>1. pc["ix"] = <<"on_disconnect", "dial">> /\ pc'["ix"] = <<"dial">>
      BY <1>m, <2>3
    <3>2. state' \in {"CONNECTING", "RECONNECTING"}
      BY <1>0, <1>k, <2>0, <3>1 DEF PhaseInv, PhaseAt
    <3>3. LinkOf = "closed" /\ LinkOf' = "dial" /\ ix.conn = "down"
      BY <1>0, <1>1, <1>5, <1>k, <3>1, <3>2, LinkNow, LinkNext DEF DialStacks
    <3>4. Gap!Closed
      BY <1>3, <2>0, <3>3 DEF Gap!Closed
    <3>. QED  BY <3>4 DEF GapAllows, Gap!GapNext
  <2>4. CASE Moves("ix", <<"on_error", "dial">>, <<"dial">>)
    <3>1. pc["ix"] \in RestStacks /\ pc'["ix"] \in RestStacks
      BY <1>k, <1>m, <2>4
    <3>2. LinkOf' = LinkOf
      BY <1>0, <1>1, <2>0, <3>1, LinkNow, LinkNext
    <3>. QED  BY <1>3, <2>0, <3>2, GapStutters
  <2>. QED  BY <1>0, <1>8, <2>1, <2>2, <2>3, <2>4, IxCallback
<1>9. CASE HandleClose
  <2>0. resnap' = resnap /\ ix' = ix
    BY <1>9 DEF HandleClose
  <2>1. CASE Moves("ix", <<"closed", "dial">>, <<"mark", "close_state", "dial">>)
    BY <1>u, <1>k, <2>0, <2>1
  <2>2. CASE /\ Moves("ix", <<"close_state", "dial">>, <<"on_close", "dial">>)
             /\ state' = IF stopping THEN state
                         ELSE IF Reconnecting THEN "RECONNECTING" ELSE "DISCONNECTED"
    <3>1. pc["ix"] = <<"close_state", "dial">> /\ pc'["ix"] = <<"on_close", "dial">>
      BY <1>m, <2>2
    <3>2. LinkOf = "lost" /\ LinkOf' = "closed" /\ \A r \in ReportsOf : ~r.own
      BY <1>0, <1>1, <1>4, <1>k, <3>1, LinkNow, LinkNext
    <3>3. ix.conn = "down"
      BY <1>0, <3>2, LinkDown
    <3>4. Gap!Lost
      BY <1>3, <2>0, <3>2, <3>3 DEF Gap!Lost, Gap!OwnReported
    <3>. QED  BY <3>4 DEF GapAllows, Gap!GapNext
  <2>. QED  BY <1>0, <1>9, <2>1, <2>2, IxClosed
<1>10. CASE HandleError
  <2>0. resnap' = resnap
    BY <1>10 DEF HandleError
  <2>1. CASE Moves("ix", <<"error", "dial">>, <<"mark", "error_state", "dial">>)
             /\ UNCHANGED <<state, ix>>
    <3>1. pc["ix"] \in DialingStacks /\ pc'["ix"] \in DialingStacks
      BY <1>k, <1>m, <2>1
    <3>2. LinkOf = "dial" /\ LinkOf' = "dial"
      BY <1>0, <1>1, <3>1, LinkNow, LinkNext
    <3>. QED  BY <1>3, <2>0, <2>1, <3>2, GapStutters
  <2>2. CASE /\ Moves("ix", <<"error_state", "dial">>, <<"on_error", "dial">>)
             /\ ix' = [ix EXCEPT !.auto = @ /\ ~LimitReached]
             /\ state' = IF Reconnecting /\ ~LimitReached THEN "RECONNECTING" ELSE "DISCONNECTED"
    <3>1. pc["ix"] = <<"error_state", "dial">> /\ pc'["ix"] = <<"on_error", "dial">>
      BY <1>m, <2>2
    <3>2. /\ LinkOf = "failed" /\ \A r \in ReportsOf : ~r.own
          /\ LinkOf' = (IF state' \in {"DISCONNECTED", "CLOSING"} THEN "off" ELSE "dial")
      BY <1>0, <1>1, <1>4, <1>k, <3>1, LinkNow, LinkNext
    <3>3. ix'.conn = "down" /\ ix.conn = "down"
      <4>1. ix.conn = "down"
        BY <1>0, <3>2, LinkDown
      <4>. QED  BY <1>0, <2>2, <4>1 DEF IxType
    <3>4. CASE state' = "DISCONNECTED"
      BY <1>3, <3>2, <3>4, GapStops
    <3>5. CASE state' = "RECONNECTING"
      <4>1. Gap!Failed
        BY <1>3, <2>0, <3>2, <3>3, <3>5 DEF Gap!Failed, Gap!OwnReported
      <4>. QED  BY <4>1 DEF GapAllows, Gap!GapNext
    <3>. QED  BY <2>2, <3>4, <3>5
  <2>. QED  BY <1>0, <1>10, <2>1, <2>2, IxError
<1>11. CASE EnqueueCheck
  <2>1. resnap' = resnap /\ ix' = ix
    BY <1>11 DEF EnqueueCheck
  <2>. QED  BY <1>0, <1>11, <1>u, <1>k, <2>1, IxEnqueue
<1>12. CASE EnqueueStamp
  <2>1. resnap' = resnap /\ ix' = ix
    BY <1>12 DEF EnqueueStamp
  <2>. QED  BY <1>0, <1>12, <1>u, <1>k, <2>1, IxStamp
<1>13. CASE Push
  <2>1. resnap' = resnap /\ ix' = ix
    BY <1>13 DEF Push
  <2>. QED  BY <1>0, <1>13, <1>u, <1>k, <2>1, IxPush
<1>14. CASE Receive
  <2>1. resnap' = resnap /\ ix' = ix
    BY <1>14 DEF Receive
  <2>. QED  BY <1>0, <1>14, <1>u, <1>k, <2>1, IxReceives
<1>15. CASE ConnectionDrops
  <2>1. resnap' = resnap /\ ix'.conn = "down"
    BY <1>0, <1>15 DEF ConnectionDrops, IxType
  <2>2. Moves("ix", <<"poll">>, <<"closed", "dial">>)
    BY <1>0, <1>15, IxDrops
  <2>3. pc["ix"] \in UpStacks /\ pc'["ix"] \in UpStacks
    BY <1>k, <1>m, <2>2
  <2>4. LinkOf = "up" /\ LinkOf' = "up"
    BY <1>0, <1>1, <2>3, LinkNow, LinkNext
  <2>5. Gap!PeerCloses
    BY <1>3, <2>1, <2>4 DEF Gap!PeerCloses
  <2>. QED  BY <2>5 DEF GapAllows, Gap!GapNext
<1>16. CASE Dial
  <2>0. resnap' = resnap /\ state' = state
    BY <1>16 DEF Dial
  <2>1. CASE /\ Moves("ix", <<"dial">>, <<"mark", "opened", "poll">>)
             /\ ix' = [ix EXCEPT !.conn = "open", !.first = FALSE, !.retries = 0,
                                 !.subscribed = FALSE]
    <3>1. pc["ix"] = <<"dial">> /\ pc'["ix"] = <<"mark", "opened", "poll">>
      BY <1>m, <2>1
    <3>2. state \in {"CONNECTING", "RECONNECTING"}
      BY <1>1, <1>k, <2>0, <3>1 DEF PhaseInv, PhaseAt
    <3>3. LinkOf = "dial" /\ LinkOf' = "dial"
      BY <1>0, <1>1, <1>k, <3>1, <3>2, LinkNow, LinkNext
    <3>4. ix.conn = "down" /\ ix'.conn = "open"
      BY <1>0, <1>5, <1>k, <2>1, <3>1 DEF DialStacks, IxType
    <3>5. UNCHANGED Gap!gapVars
      BY <1>3, <2>0, <3>3, <3>4 DEF Gap!gapVars
    <3>. QED  BY <3>5 DEF GapAllows
  <2>2. CASE Moves("ix", <<"dial">>, <<"done">>) /\ UNCHANGED ix
    <3>1. pc["ix"] \in RestStacks /\ pc'["ix"] \in RestStacks
      BY <1>k, <1>m, <2>2
    <3>2. LinkOf' = LinkOf
      BY <1>0, <1>1, <2>0, <3>1, LinkNow, LinkNext
    <3>. QED  BY <1>3, <2>0, <2>2, <3>2, GapStutters
  <2>. QED  BY <1>0, <1>16, <2>1, <2>2, IxDial
<1>17. CASE DialFails
  <2>0. resnap' = resnap /\ state' = state /\ ix'.conn = ix.conn
    BY <1>0, <1>17 DEF DialFails, IxType
  <2>1. Moves("ix", <<"dial">>, <<"error", "dial">>)
    BY <1>0, <1>17, IxDialFails
  <2>2. pc["ix"] = <<"dial">> /\ pc'["ix"] = <<"error", "dial">>
    BY <1>m, <2>1
  <2>3. state \in {"CONNECTING", "RECONNECTING"}
    BY <1>1, <1>k, <2>0, <2>2 DEF PhaseInv, PhaseAt
  <2>4. LinkOf = "dial" /\ LinkOf' = "dial"
    BY <1>0, <1>1, <1>k, <2>2, <2>3, LinkNow, LinkNext
  <2>. QED  BY <1>3, <2>0, <2>4, GapStutters
<1>. QED  BY <1>6, <1>7, <1>8, <1>9, <1>10, <1>11, <1>12, <1>13, <1>14, <1>15, <1>16, <1>17
             DEF IxStep, Environment

(* mark_stream_gap and the close of a resnapshot, on any thread. *)
LEMMA GapMarking ==
    ASSUME NEW c, GapReady(c), PhaseInv', ~stopping, NEW t \in {c, "ix", "worker"},
           MarkGap(t) \/ DiscardPending(t) \/ StreamGapCallback(t) \/ ResnapshotClose(t)
    PROVE  GapAllows
<1>. HIDE DEF LinkOf, ReportsOf, GapAllows
<1>0. /\ IxReady(c) /\ PhaseInv /\ MarkInv /\ t \in Threads /\ pc \in [Threads -> Seq(Steps)]
      /\ ix \in IxType /\ resnap \in BOOLEAN /\ "ix" \in Threads /\ c # "ix"
  BY IxReadyFacts DEF GapReady, IxReady, StopInv, TypeParts, FlagsOK
<1>1. /\ ~stopping' /\ stopping' = stopping /\ state' = state /\ resnap' = resnap
      /\ MarkGap(t) \/ UNCHANGED <<gen, mark>>
      /\ ResnapshotClose(t) \/ UNCHANGED ix
  BY GapKeeps
<1>2. ix.conn \in {"down", "open", "closing"}
  BY <1>0 DEF IxType
<1>m. ASSUME NEW from, NEW to, Moves(t, from, to)
      PROVE  /\ t = "ix" => pc["ix"] = from /\ pc'["ix"] = to
             /\ t # "ix" => pc'["ix"] = pc["ix"]
  BY <1>0, <1>m DEF Moves
<1>o. t # "ix" /\ pc'["ix"] = pc["ix"] => LinkOf' = LinkOf
  BY <1>1, LinkSame
<1>b. Base("opened") = "poll" /\ Base("close") = "poll" /\ Base("close_state") = "dial"
      /\ Base("error_state") = "dial"
  BY DEF Base
<1>k. /\ \A x \in {"discard", "gap"} : /\ <<x, "opened", "poll">> \in OpenedStacks
                                       /\ <<x, "close_state", "dial">> \in LostStacks
                                       /\ <<x, "error_state", "dial">> \in FailedStacks
                                       /\ <<x, "close", "poll">> \in UpStacks
      /\ <<"opened", "poll">> \in OpenedStacks /\ <<"close_state", "dial">> \in LostStacks
      /\ <<"error_state", "dial">> \in FailedStacks /\ <<"close", "poll">> \in UpStacks
      /\ <<"mark", "close", "poll">> \in UpStacks /\ <<"poll">> \in UpStacks
      /\ <<"mark", "close_state", "dial">> \in UpStacks
      /\ <<"mark", "opened", "poll">> \in DialingStacks
      /\ <<"mark", "error_state", "dial">> \in DialingStacks
  BY DEF OpenedStacks, LostStacks, FailedStacks, UpStacks, AskingStacks, DialingStacks
<1>q. ASSUME t = "ix", NEW y \in Marked, pc["ix"] = <<"mark", y, Base(y)>>
      PROVE  /\ \A r \in ReportsOf : ~r.own
             /\ (ix.conn = "down" <=> y \in {"close_state", "error_state"})
  <2>1. pc["ix"] \in IxQuiet
    BY <1>q, <1>b DEF Marked, IxQuiet
  <2>2. pc["ix"] \in PollStacks <=> y \in {"opened", "close"}
    <3>1. <<"mark", y, Base(y)>> \in PollStacks \/ <<"mark", y, Base(y)>> \in DialStacks
      BY <1>b, <1>q, DialKinds, PollKinds DEF Marked
    <3>2. y \in {"opened", "close"} => <<"mark", y, Base(y)>> \in PollStacks
      BY <1>b, PollKinds
    <3>3. y \notin {"opened", "close"} => <<"mark", y, Base(y)>> \in DialStacks
      BY <1>b, <1>q, DialKinds DEF Marked
    <3>. QED  BY <1>q, <3>2, <3>3, DialKinds
  <2>3. ix.conn = "down" <=> y \notin {"opened", "close"}
    BY <1>0, <2>2 DEF IxReady, StreamShapes
  <2>. QED  BY <1>0, <1>q, <2>1, <2>3, OwnIsIx DEF Marked
<1>3. CASE MarkGap(t)
  <2>1. PICK y \in Marked :
             /\ Moves(t, GapStack(t, "mark", y), GapStack(t, "discard", y))
             /\ t # "ix" => y = "close"
             /\ gen' = gen + 1 /\ mark' = [mark EXCEPT ![t] = gen + 1]
    BY <1>0, <1>3, GapMoves
  <2>2. /\ y = "close" =>
             ReportsOf' = ReportsOf \cup {[gen |-> gen + 1, own |-> FALSE, told |-> FALSE]}
        /\ y # "close" =>
             ReportsOf' = ReportsOf \cup {[gen |-> gen + 1, own |-> TRUE, told |-> FALSE]}
    BY <1>0, <1>1, <2>1, ReportsDraw
  <2>3. UNCHANGED ix
    BY <1>3 DEF MarkGap
  <2>i. t = "ix" => pc["ix"] = <<"mark", y, Base(y)>> /\ pc'["ix"] = <<"discard", y, Base(y)>>
    BY <1>m, <2>1 DEF GapStack
  <2>4. CASE y = "close"
    <3>1. LinkOf' = LinkOf
      <4>1. CASE t = "ix"
        BY <1>0, <1>1, <1>b, <1>k, <2>4, <2>i, <4>1, LinkNow, LinkNext
      <4>2. CASE t # "ix"
        BY <1>m, <1>o, <2>1, <4>2
      <4>. QED  BY <4>1, <4>2
    <3>2. Gap!DrawRequest
      BY <1>1, <2>1, <2>2, <2>3, <2>4, <3>1 DEF Gap!DrawRequest, Gap!Draw
    <3>. QED  BY <3>2 DEF GapAllows, Gap!GapNext
  <2>5. CASE y = "opened"
    <3>1. /\ pc["ix"] = <<"mark", "opened", "poll">> /\ pc'["ix"] = <<"discard", "opened", "poll">>
          /\ ix.conn # "down" /\ \A r \in ReportsOf : ~r.own
      BY <1>b, <1>q, <2>1, <2>5, <2>i
    <3>2. LinkOf = "dial" /\ LinkOf' = "opened"
      BY <1>0, <1>1, <1>k, <3>1, LinkNow, LinkNext
    <3>3. Gap!Open
      BY <1>1, <2>1, <2>2, <2>3, <2>5, <3>1, <3>2 DEF Gap!Open, Gap!Draw, Gap!OwnReported
    <3>. QED  BY <3>3 DEF GapAllows, Gap!GapNext
  <2>6. CASE y = "close_state"
    <3>1. /\ pc["ix"] = <<"mark", "close_state", "dial">>
          /\ pc'["ix"] = <<"discard", "close_state", "dial">>
          /\ ix.conn = "down" /\ \A r \in ReportsOf : ~r.own
      BY <1>b, <1>q, <2>1, <2>6, <2>i
    <3>2. LinkOf = "up" /\ LinkOf' = "lost"
      BY <1>0, <1>1, <1>k, <3>1, LinkNow, LinkNext
    <3>3. Gap!Drop
      BY <1>1, <2>1, <2>2, <2>3, <2>6, <3>1, <3>2 DEF Gap!Drop, Gap!Draw, Gap!OwnReported
    <3>. QED  BY <3>3 DEF GapAllows, Gap!GapNext
  <2>7. CASE y = "error_state"
    <3>1. /\ pc["ix"] = <<"mark", "error_state", "dial">>
          /\ pc'["ix"] = <<"discard", "error_state", "dial">>
          /\ ix.conn = "down" /\ \A r \in ReportsOf : ~r.own
      BY <1>b, <1>q, <2>1, <2>7, <2>i
    <3>2. LinkOf = "dial" /\ LinkOf' = "failed"
      BY <1>0, <1>1, <1>k, <3>1, LinkNow, LinkNext
    <3>3. Gap!DialFails
      BY <1>1, <2>1, <2>2, <2>3, <2>7, <3>1, <3>2 DEF Gap!DialFails, Gap!Draw, Gap!OwnReported
    <3>. QED  BY <3>3 DEF GapAllows, Gap!GapNext
  <2>. QED  BY <2>4, <2>5, <2>6, <2>7 DEF Marked
<1>4. CASE ~MarkGap(t) /\ DiscardPending(t)
  <2>1. PICK y \in Marked : /\ Moves(t, GapStack(t, "discard", y), GapStack(t, "gap", y))
                            /\ t # "ix" => y = "close"
    BY <1>0, <1>4, GapMoves
  <2>2. ReportsOf' = ReportsOf
    BY <1>0, <1>1, <1>4, <2>1, ReportsDiscard
  <2>3. LinkOf' = LinkOf
    <3>1. CASE t = "ix"
      <4>1. pc["ix"] = <<"discard", y, Base(y)>> /\ pc'["ix"] = <<"gap", y, Base(y)>>
        BY <1>m, <2>1, <3>1 DEF GapStack
      <4>. QED  BY <1>0, <1>1, <1>b, <1>k, <4>1, LinkNow, LinkNext DEF Marked
    <3>2. CASE t # "ix"
      BY <1>m, <1>o, <2>1, <3>2
    <3>. QED  BY <3>1, <3>2
  <2>4. UNCHANGED ix
    BY <1>4 DEF DiscardPending
  <2>. QED  BY <1>1, <1>4, <2>2, <2>3, <2>4, GapStutters
<1>5. CASE ~MarkGap(t) /\ StreamGapCallback(t)
  <2>1. PICK y \in Marked : /\ Moves(t, GapStack(t, "gap", y), RestStack(t, y))
                            /\ t # "ix" => y = "close"
    BY <1>0, <1>5, GapMoves
  <2>2. PICK r \in ReportsOf :
             /\ ~r.told
             /\ ReportsOf' = (ReportsOf \ {r})
                               \cup (IF r.own THEN {} ELSE {[r EXCEPT !.told = TRUE]})
    BY <1>0, <1>1, <1>5, <2>1, ReportsTell
  <2>3. LinkOf' = LinkOf
    <3>1. CASE t = "ix"
      <4>1. pc["ix"] = <<"gap", y, Base(y)>> /\ pc'["ix"] = <<y, Base(y)>>
        BY <1>m, <2>1, <3>1 DEF GapStack, RestStack
      <4>. QED  BY <1>0, <1>1, <1>b, <1>k, <4>1, LinkNow, LinkNext DEF Marked
    <3>2. CASE t # "ix"
      BY <1>m, <1>o, <2>1, <3>2
    <3>. QED  BY <3>1, <3>2
  <2>4. UNCHANGED ix
    BY <1>5 DEF StreamGapCallback
  <2>5. Gap!Report(r)
    BY <1>1, <1>5, <2>2, <2>3, <2>4 DEF Gap!Report
  <2>. QED  BY <2>5 DEF GapAllows, Gap!GapNext
<1>6. CASE ~MarkGap(t) /\ ResnapshotClose(t)
  <2>1. Moves(t, RestStack(t, "close"), CloseStack(t))
    BY <1>0, <1>6, GapMoves
  <2>2. PICK r \in ReportsOf : r.told /\ ReportsOf' = ReportsOf \ {r}
    BY <1>0, <1>1, <1>6, <2>1, ReportsClose
  <2>3. LinkOf' = LinkOf
    <3>1. CASE t = "ix"
      <4>1. pc["ix"] = <<"close", "poll">> /\ pc'["ix"] = <<"poll">>
        BY <1>b, <1>m, <2>1, <3>1 DEF RestStack, CloseStack
      <4>. QED  BY <1>0, <1>1, <1>k, <4>1, LinkNow, LinkNext
    <3>2. CASE t # "ix"
      BY <1>m, <1>o, <2>1, <3>2
    <3>. QED  BY <3>1, <3>2
  <2>4. ix'.conn = (IF ix.conn = "open" THEN "closing" ELSE ix.conn)
    BY <1>0, <1>6 DEF ResnapshotClose, IxType
  <2>5. LinkOf \in {"lost", "closed", "failed"} => ix.conn = "down"
    BY <1>0, LinkDown
  <2>6. LinkOf \in {"off", "dial", "opened", "restore", "connect", "up", "lost", "closed", "failed"}
    BY LinkIs DEF LinkAt
  <2>7. Gap!CloseSocket(r)
    <3>1. CASE LinkOf \in {"opened", "restore", "connect", "up"}
      BY <1>1, <1>2, <1>6, <2>2, <2>3, <2>4, <3>1 DEF Gap!CloseSocket
    <3>2. CASE LinkOf = "dial"
      BY <1>1, <1>2, <1>6, <2>2, <2>3, <2>4, <3>2 DEF Gap!CloseSocket
    <3>3. CASE LinkOf = "off"
      BY <1>1, <1>2, <1>6, <2>2, <2>3, <2>4, <3>3 DEF Gap!CloseSocket
    <3>4. CASE LinkOf \in {"lost", "closed", "failed"}
      BY <1>1, <1>2, <1>6, <2>2, <2>3, <2>4, <2>5, <3>4 DEF Gap!CloseSocket
    <3>. QED  BY <2>6, <3>1, <3>2, <3>3, <3>4
  <2>. QED  BY <2>7 DEF GapAllows, Gap!GapNext
<1>. QED  BY <1>3, <1>4, <1>5, <1>6

(* request_resnapshot, up to its exchange. *)
LEMMA GapAsking ==
    ASSUME NEW c, GapReady(c), PhaseInv', ~stopping, NEW t \in {c, "ix", "worker"},
           ResnapshotCheck(t) \/ ResnapshotExchange(t)
    PROVE  GapAllows
<1>. USE DEF flagVars
<1>. HIDE DEF LinkOf, ReportsOf, GapAllows
<1>0. /\ IxReady(c) /\ PhaseInv /\ t \in Threads /\ pc \in [Threads -> Seq(Steps)]
      /\ "ix" \in Threads /\ c # "ix"
  BY IxReadyFacts DEF GapReady
<1>1. ~stopping' /\ stopping' = stopping /\ state' = state /\ ix' = ix
  BY DEF ResnapshotCheck, ResnapshotExchange
<1>2. QuietStep
  BY <1>0, QuietIx, QuietWorker, QuietCaller
<1>3. ReportsOf' = ReportsOf /\ gen' = gen
  BY <1>1, <1>2, ReportsQuiet DEF QuietStep
<1>4. LinkOf' = LinkOf
  <2>1. CASE t = "ix"
    <3>1. \/ Moves("ix", <<"resnapshot", "poll">>, <<"exchange", "poll">>)
          \/ Moves("ix", <<"exchange", "poll">>, <<"poll">>)
          \/ Moves("ix", <<"exchange", "poll">>, <<"mark", "close", "poll">>)
      BY <1>0, <2>1, IxResnapshot, IxExchange
    <3>2. pc["ix"] \in UpStacks /\ pc'["ix"] \in UpStacks
      BY <1>0, <3>1 DEF Moves, UpStacks, AskingStacks
    <3>. QED  BY <1>0, <1>1, <3>2, LinkNow, LinkNext
  <2>2. CASE t # "ix"
    <3>1. pc'["ix"] = pc["ix"]
      BY <1>0, <2>2 DEF ResnapshotCheck, ResnapshotExchange, Go
    <3>. QED  BY <1>1, <3>1, LinkSame
  <2>. QED  BY <2>1, <2>2
<1>5. CASE ResnapshotCheck(t)
  <2>1. resnap' = resnap
    BY <1>5 DEF ResnapshotCheck
  <2>. QED  BY <1>1, <1>3, <1>4, <2>1, GapStutters
<1>6. CASE ResnapshotExchange(t)
  <2>1. resnap' = TRUE
    BY <1>6 DEF ResnapshotExchange
  <2>2. CASE LinkOf = "off"
    BY <1>1, <1>3, <1>4, <2>2, GapStutters
  <2>3. CASE LinkOf # "off"
    <3>1. Gap!Ask
      BY <1>1, <1>3, <1>4, <2>1, <2>3 DEF Gap!Ask
    <3>. QED  BY <3>1 DEF GapAllows, Gap!GapNext
  <2>. QED  BY <2>2, <2>3
<1>. QED  BY <1>5, <1>6

(* The user's thread. *)
LEMMA GapCaller ==
    ASSUME NEW c, GapReady(c), PhaseInv', ~stopping, ~stopping',
           \/ CallStep(c) \/ CallConnect(c) \/ CallDisconnect(c) \/ CallResnapshot(c)
           \/ Disconnect(c) \/ AwaitTransportStop(c) \/ TeardownStep(c)
    PROVE  GapAllows
<1>. USE DEF flagVars, teardownVars
<1>. HIDE DEF LinkOf, ReportsOf, GapAllows
<1>0. /\ c # "teardown" /\ c # "ix" /\ c # "worker" /\ c \in Threads
      /\ "ix" \in Threads /\ "worker" \in Threads /\ "teardown" \in Threads
      /\ pc \in [Threads -> Seq(Steps)] /\ IxReady(c) /\ PhaseInv /\ ix \in IxType
  BY IxReadyFacts DEF GapReady
<1>1. QuietStep
  BY <1>0, QuietCaller
<1>2. ReportsOf' = ReportsOf /\ gen' = gen
  BY <1>1, ReportsQuiet DEF QuietStep
<1>s. ASSUME pc'["ix"] = pc["ix"], state' = state, resnap' = resnap, ix' = ix
      PROVE  GapAllows
  <2>1. LinkOf' = LinkOf
    BY <1>s, LinkSame
  <2>. QED  BY <1>2, <1>s, <2>1, GapStutters
<1>3. CASE CallerMovesOn(c)
  <2>1. pc'["ix"] = pc["ix"] /\ state' = state /\ resnap' = resnap /\ ix' = ix
    BY <1>0, <1>3, CallerPasses DEF Moves
  <2>. QED  BY <1>s, <2>1
<1>4. CASE ConnectRetire(c) /\ ~At(c, "retire")
  <2>1. pc'["ix"] = pc["ix"] /\ state' = state /\ resnap' = resnap /\ ix' = ix
    BY <1>0, <1>4, CallerRetires DEF Moves
  <2>. QED  BY <1>s, <2>1
<1>5. CASE ConnectStart(c) /\ state = "DISCONNECTED"
  <2>1. state' \in {"DISCONNECTED", "CLOSING"}
    BY <1>0, <1>5, CallerStarts
  <2>2. LinkOf = "off" /\ LinkOf' = "off"
    BY <1>5, <2>1, LinkOff
  <2>. QED  BY <1>2, <2>2, GapStutters
<1>6. CASE ConnectLaunch(c)
  <2>1. /\ state = "DISCONNECTED" /\ state' = "CONNECTING" /\ resnap' = FALSE
        /\ pc'["ix"] = (IF pc["ix"] = <<>> THEN <<"dial">> ELSE pc["ix"])
    BY <1>0, <1>6, CallerLaunches DEF ConnectLaunch
  <2>2. pc["ix"] \in RestStacks
    BY <1>0, <2>1, IxReadyFacts DEF PhaseInv, PhaseAt, IxStacks, PollStacks, DialStacks
  <2>3. pc'["ix"] \in RestStacks
    BY <2>1, <2>2, StackKinds
  <2>4. LinkOf = "off" /\ LinkOf' = "dial"
    BY <2>1, <2>3, LinkOff, LinkNext
  <2>5. ix.conn = "down"
    BY <1>0, <2>2, DialKinds DEF DialStacks, IxReady, StreamShapes, IxType
  <2>6. ix'.conn = "down"
    BY <1>0, <1>6, <2>5 DEF ConnectLaunch, IxType
  <2>7. Gap!Start
    BY <1>2, <2>1, <2>4, <2>6 DEF Gap!Start
  <2>. QED  BY <2>7 DEF GapAllows, Gap!GapNext
<1>7. CASE Disconnect(c)
  <2>1. state' = "CLOSING"
    BY <1>0, <1>7, CallerDisconnects
  <2>2. LinkOf' = "off"
    BY <2>1, LinkOff
  <2>. QED  BY <1>2, <2>2, GapStops
<1>8. CASE TeardownStep(c)
  <2>1. state = "CLOSING" /\ state' \in {"CLOSING", "DISCONNECTED"}
    BY <1>0, <1>8, CallerTears
  <2>2. LinkOf = "off" /\ LinkOf' = "off"
    BY <2>1, LinkOff
  <2>. QED  BY <1>2, <2>2, GapStutters
<1>. QED  BY <1>3, <1>4, <1>5, <1>6, <1>7, <1>8 DEF CallStep, CallerMovesOn

LEMMA GapWorker ==
    ASSUME NEW c, GapReady(c), ~stopping, WorkerStep
    PROVE  GapAllows
<1>. USE DEF flagVars
<1>. HIDE DEF LinkOf, ReportsOf, GapAllows
<1>0. IxReady(c) /\ "ix" \in Threads /\ "worker" \in Threads /\ pc \in [Threads -> Seq(Steps)]
  BY IxReadyFacts DEF GapReady
<1>1. state' = state /\ stopping' = stopping /\ resnap' = resnap /\ ix' = ix
  BY DEF WorkerStep, WorkerLoop, Pop, DispatchMessage, Deliver
<1>2. QuietStep
  BY <1>0, QuietWorker
<1>3. ReportsOf' = ReportsOf /\ gen' = gen
  BY <1>1, <1>2, ReportsQuiet DEF QuietStep
<1>4. PICK next : Go("worker", next)
  BY WorkerGoes
<1>5. pc'["ix"] = pc["ix"]
  BY <1>0, <1>4 DEF Go
<1>6. LinkOf' = LinkOf
  BY <1>1, <1>5, LinkSame
<1>. QED  BY <1>1, <1>3, <1>6, GapStutters

(* A teardown is pending, begins or ends: the connection is off. *)
LEMMA GapStopping ==
    ASSUME NEW c, GapReady(c), Next, stopping \/ stopping'
    PROVE  GapAllows
<1>. HIDE DEF LinkOf, ReportsOf, GapAllows
<1>0. IxReady(c)
  BY DEF GapReady
<1>1. gen' = gen
  <2>1. CASE QuietStep
    BY <2>1 DEF QuietStep
  <2>2. CASE \E t \in {c, "ix", "worker"} :
                MarkGap(t) \/ DiscardPending(t) \/ StreamGapCallback(t) \/ ResnapshotClose(t)
    BY <2>2, GapKeeps
  <2>. QED  BY <1>0, <2>1, <2>2, QuietOrGap
<1>2. CASE stopping'
  BY <1>1, <1>2, LinkOff, ReportsStopped, GapStops
<1>3. CASE stopping /\ ~stopping'
  <2>1. TransportFinal /\ \A t \in Threads : ~Reports(pc'[t])
    BY <1>0, <1>3, StopClears
  <2>2. state' = "DISCONNECTED"
    BY <1>0, <2>1, TransportEnds
  <2>3. ReportsOf' = {}
    BY <2>1, ReportsAre
  <2>. QED  BY <1>1, <2>2, <2>3, LinkOff, GapStops
<1>. QED  BY <1>2, <1>3

LEMMA GapStepOK ==
    ASSUME NEW c, GapReady(c), ReconnectEnabled, [Next]_vars
    PROVE  GapAllows /\ GapReady(c)'
<1>. HIDE DEF LinkOf, ReportsOf, GapAllows
<1>0. IxReady(c) /\ PhaseInv /\ MarkInv
  BY DEF GapReady
<1>1. GapReady(c)'
  BY <1>0, ShapesStep, PhaseStep, MarkStep DEF GapReady
<1>p. PhaseInv'
  BY <1>1 DEF GapReady
<1>2. CASE UNCHANGED vars
  <2>1. /\ pc' = pc /\ state' = state /\ stopping' = stopping /\ resnap' = resnap /\ ix' = ix
        /\ gen' = gen /\ mark' = mark
    BY <1>2 DEF vars
  <2>2. QuietStep
    BY <2>1 DEF QuietStep
  <2>3. LinkOf' = LinkOf /\ ReportsOf' = ReportsOf
    BY <2>1, <2>2, LinkSame, ReportsQuiet
  <2>4. GapAllows
    BY <2>1, <2>3, GapStutters
  <2>. QED  BY <1>1, <2>4
<1>3. CASE Next /\ (stopping \/ stopping')
  BY <1>1, <1>3, GapStopping
<1>4. CASE Next /\ ~stopping /\ ~stopping'
  <2>1. CASE IxStep \/ Environment
    BY <1>1, <1>4, <1>p, <2>1, GapIx
  <2>2. CASE GapStep("ix") \/ GapStep("worker") \/ GapStep(c)
    BY <1>1, <1>4, <1>p, <2>2, GapMarking, GapAsking DEF GapStep
  <2>3. CASE WorkerStep
    BY <1>1, <1>4, <2>3, GapWorker
  <2>4. CASE TransportStep \/ TeardownStep("teardown")
    BY <1>0, <1>4, <2>4, TransportWakes, TransportEnds, TransportTears DEF TransportStep
  <2>5. CASE \/ CallStep(c) \/ CallConnect(c) \/ CallDisconnect(c) \/ CallResnapshot(c)
             \/ Disconnect(c) \/ AwaitTransportStop(c) \/ TeardownStep(c)
    BY <1>1, <1>4, <1>p, <2>5, GapCaller
  <2>. QED  BY <1>0, <1>4, <2>1, <2>2, <2>3, <2>4, <2>5, WhoSteps
<1>. QED  BY <1>2, <1>3, <1>4

LEMMA GapStarts ==
    ASSUME NEW c, OneCaller(c), Init
    PROVE  Gap!GapInit
<1>. HIDE DEF LinkOf, ReportsOf
<1>1. IxReady(c)
  BY ShapesInit DEF Init
<1>2. /\ \A t \in Threads : pc[t] = <<>>
      /\ gen = 0 /\ state = "DISCONNECTED" /\ resnap = FALSE /\ ix.conn = "down"
  BY DEF Init, InitState
<1>3. LinkOf = "off"
  BY <1>2, LinkOff
<1>4. ~Reports(<<>>)
  BY QuietStacks DEF WorkerQuiet
<1>5. ReportsOf = {}
  BY <1>2, <1>4, ReportsAre
<1>. QED  BY <1>2, <1>3, <1>5 DEF Gap!GapInit

(* THE CLIENT IMPLEMENTS GapStream.  For every queue limit, number of attempts and bound,
   with one user thread that does not stop the client from a callback and with
   reconnect_enabled, a behaviour of the client is one of GapStream: the connection comes
   up and goes down only after the IX thread drew a new generation and its stream_gap
   callback returned, and a resnapshot closes the socket only after its gap was reported. *)
THEOREM ClientImplementsGapStream ==
    ASSUME NEW c, OneCaller(c), ReconnectEnabled
    PROVE  Spec => ImplementsGapStream
<1>. HIDE DEF LinkOf, ReportsOf
<1>1. Init => Gap!GapInit
  BY GapStarts
<1>2. Init => GapReady(c)
  BY StreamInit DEF GapReady, Init
<1>3. GapReady(c) /\ [Next]_vars => GapReady(c)'
  BY GapStepOK
<1>4. GapReady(c) /\ [Next]_vars => [Gap!GapNext]_(Gap!gapVars)
  BY GapStepOK DEF GapAllows
<1>. QED  BY <1>1, <1>2, <1>3, <1>4, PTL DEF Spec, ImplementsGapStream, Gap!GapSpec

(***************************************************************************)
(* No message is lost silently.                                            *)
(***************************************************************************)

(* While no stop is pending the queue is open and the worker runs; a transport that is
   torn down leaves neither. *)
Running(c) ==
    ~stopping /\ pc[c] \notin DisconnectStacks =>
       /\ ~closed
       /\ running => pc["worker"] \notin {<<>>, <<"done">>}
       /\ ~running => pc["worker"] = <<>> /\ pc["ix"] = <<>>
TornDown(c) ==
    /\ pc["teardown"] \in {<<"worker_join", "reset", "clear", "publish", "final">>,
                           <<"reset", "clear", "publish", "final">>,
                           <<"clear", "publish", "final">>, <<"publish", "final">>, <<"final">>}
         => ~running
    /\ pc["teardown"] \in {<<"clear", "publish", "final">>, <<"publish", "final">>, <<"final">>}
         => ~closed
    /\ pc[c] \in DisconnectStacks => ~running
    /\ pc[c] \in {<<"clear", "publish">>, <<"publish">>} => ~closed
(* An open connection is CONNECTED. *)
OpenState == ~stopping /\ pc["ix"] \in OpenStacks \cup ClosingStacks => state = "CONNECTED"

RunInv(c) == Running(c) /\ TornDown(c) /\ OpenState

LEMMA RunIx ==
    ASSUME NEW c, IxReady(c), RunInv(c), IxStep \/ Environment \/ GapStep("ix")
    PROVE  RunInv(c)'
<1>. USE DEF flagVars, queueVars
<1>0. /\ "ix" \in Threads /\ pc \in [Threads -> Seq(Steps)] /\ c # "ix"
      /\ pc["ix"] # <<>> /\ UNCHANGED stopping
  BY IxReadyFacts, IxGoes
<1>1. UNCHANGED <<running, closed>>
  BY DEF IxStep, Environment, GapStep, HandleOpen, RestoreSubscriptions, TransportCallback,
     HandleClose, HandleError, EnqueueCheck, EnqueueStamp, Push, Dial, DialFails, ConnectionDrops,
     Receive, MarkGap, DiscardPending, StreamGapCallback, ResnapshotCheck, ResnapshotExchange,
     ResnapshotClose
<1>2. PICK next : Go("ix", next)
  BY IxGoes
<1>3. pc'["worker"] = pc["worker"] /\ pc'["teardown"] = pc["teardown"] /\ pc'[c] = pc[c]
  BY <1>0, <1>2, IxReadyFacts DEF Go
<1>4. Running(c)' /\ TornDown(c)'
  BY <1>0, <1>1, <1>3 DEF RunInv, Running, TornDown
<1>m. ASSUME NEW from, NEW to, Moves("ix", from, to)
      PROVE  pc["ix"] = from /\ pc'["ix"] = to
  BY <1>0, <1>m DEF Moves
<1>a. ASSUME NEW from, NEW to, Moves("ix", from, to), state' = state,
             from \in OpenStacks \cup ClosingStacks \/ to \notin OpenStacks \cup ClosingStacks
      PROVE  OpenState'
  BY <1>0, <1>a, <1>m DEF RunInv, OpenState
<1>n. /\ \A s \in OpeningStacks : s \notin OpenStacks \cup ClosingStacks
      /\ \A s \in ClosedStacks \cup ErrorStacks \cup RestStacks :
             s \notin OpenStacks \cup ClosingStacks
  BY StacksApart DEF DialStacks
<1>5. OpenState'
  <2>1. CASE GapStep("ix")
    <3>0. state' = state
      BY <2>1 DEF GapStep, MarkGap, DiscardPending, StreamGapCallback, ResnapshotCheck,
         ResnapshotExchange, ResnapshotClose
    <3>1. ASSUME NEW y \in Marked, NEW from, NEW to,
             from \in {<<"mark", y, Base(y)>>, <<"discard", y, Base(y)>>, <<"gap", y, Base(y)>>},
             to \in {<<"discard", y, Base(y)>>, <<"gap", y, Base(y)>>, <<y, Base(y)>>},
             Moves("ix", from, to)
          PROVE  OpenState'
      <4>1. /\ (from \in AskingStacks("poll") <=> to \in AskingStacks("poll"))
            /\ (from \in ClosingStacks <=> to \in ClosingStacks)
            /\ to \notin FlowingStacks
        BY <3>1, MarkingKeeps
      <4>. QED  BY <1>a, <3>0, <3>1, <4>1 DEF OpenStacks
    <3>2. CASE MarkGap("ix") \/ DiscardPending("ix") \/ StreamGapCallback("ix")
      <4>1. PICK y \in Marked :
             \/ Moves("ix", <<"mark", y, Base(y)>>, <<y, Base(y)>>)
             \/ Moves("ix", <<"mark", y, Base(y)>>, <<"discard", y, Base(y)>>)
             \/ Moves("ix", <<"discard", y, Base(y)>>, <<"gap", y, Base(y)>>)
             \/ Moves("ix", <<"gap", y, Base(y)>>, <<y, Base(y)>>)
        BY <3>2, IxMark, IxDiscard, IxGap
      <4>. QED  BY <3>1, <4>1
    <3>3. CASE ResnapshotCheck("ix")
      BY <1>a, <3>0, <3>3, IxResnapshot, StackKinds
    <3>4. CASE ResnapshotExchange("ix")
      BY <1>a, <3>0, <3>4, IxExchange, StackKinds
    <3>5. CASE ResnapshotClose("ix")
      BY <1>a, <3>0, <3>5, IxClose, StackKinds
    <3>. QED  BY <2>1, <3>2, <3>3, <3>4, <3>5 DEF GapStep
  <2>2. CASE HandleOpen
    BY <1>0, <2>2, IxOpened DEF OpenState
  <2>3. CASE RestoreSubscriptions
    <3>1. state' = state
      BY <2>3 DEF RestoreSubscriptions
    <3>. QED  BY <1>a, <2>3, <3>1, IxRestore, StackKinds
  <2>4. CASE TransportCallback
    <3>1. state' = state
      BY <2>4 DEF TransportCallback
    <3>. QED  BY <1>a, <1>n, <2>4, <3>1, IxCallback, StackKinds
  <2>5. CASE HandleClose
    <3>1. CASE state' = state /\ \E to \in ClosingStacks : Moves("ix", <<"closed", "dial">>, to)
      BY <1>a, <3>1, StackKinds
    <3>2. CASE Moves("ix", <<"close_state", "dial">>, <<"on_close", "dial">>)
      BY <1>m, <1>n, <3>2, StackKinds DEF OpenState
    <3>. QED  BY <2>5, <3>1, <3>2, IxClosed, StackKinds
  <2>6. CASE HandleError
    <3>1. pc'["ix"] \in ErrorStacks \cup RestStacks
      BY <1>m, <2>6, IxError, StackKinds
    <3>. QED  BY <1>n, <3>1 DEF OpenState
  <2>7. CASE EnqueueCheck
    <3>1. state' = state
      BY <2>7 DEF EnqueueCheck
    <3>. QED  BY <1>a, <2>7, <3>1, IxEnqueue, StackKinds
  <2>8. CASE EnqueueStamp
    <3>1. state' = state
      BY <2>8 DEF EnqueueStamp
    <3>. QED  BY <1>a, <2>8, <3>1, IxStamp, StackKinds
  <2>9. CASE Push
    <3>1. state' = state
      BY <2>9 DEF Push
    <3>. QED  BY <1>a, <2>9, <3>1, IxPush, StackKinds
  <2>10. CASE Receive
    <3>1. state' = state
      BY <2>10 DEF Receive
    <3>. QED  BY <1>a, <2>10, <3>1, IxReceives, StackKinds
  <2>11. CASE ConnectionDrops
    <3>1. state' = state
      BY <2>11 DEF ConnectionDrops
    <3>. QED  BY <1>a, <2>11, <3>1, IxDrops, StackKinds
  <2>12. CASE Dial
    <3>1. pc'["ix"] \in OpeningStacks \cup RestStacks
      BY <1>m, <2>12, IxDial, StackKinds
    <3>. QED  BY <1>n, <3>1 DEF OpenState
  <2>13. CASE DialFails
    <3>1. pc'["ix"] \in ErrorStacks
      BY <1>m, <2>13, IxDialFails, StackKinds
    <3>. QED  BY <1>n, <3>1 DEF OpenState
  <2>. QED  BY <2>1, <2>2, <2>3, <2>4, <2>5, <2>6, <2>7, <2>8, <2>9, <2>10, <2>11, <2>12, <2>13
               DEF IxStep, Environment
<1>. QED  BY <1>4, <1>5 DEF RunInv

LEMMA RunWorker ==
    ASSUME NEW c, IxReady(c), RunInv(c), WorkerStep \/ GapStep("worker")
    PROVE  RunInv(c)'
<1>. USE DEF flagVars, queueVars
<1>0. /\ "ix" \in Threads /\ "worker" \in Threads /\ pc \in [Threads -> Seq(Steps)] /\ c # "worker"
      /\ pc["worker"] # <<>> /\ UNCHANGED <<state, stopping>>
  BY IxReadyFacts, WorkerGoes
<1>1. UNCHANGED <<running, closed>>
  BY DEF WorkerStep, WorkerLoop, Pop, DispatchMessage, Deliver, GapStep, MarkGap, DiscardPending,
     StreamGapCallback, ResnapshotCheck, ResnapshotExchange, ResnapshotClose
<1>2. PICK next : Go("worker", next)
  BY WorkerGoes
<1>3. pc'["ix"] = pc["ix"] /\ pc'["teardown"] = pc["teardown"] /\ pc'[c] = pc[c]
  BY <1>0, <1>2, IxReadyFacts DEF Go
<1>m. ASSUME NEW from, NEW to, Moves("worker", from, to)
      PROVE  pc["worker"] = from /\ pc'["worker"] = to
  BY <1>0, <1>m DEF Moves
<1>4. ASSUME ~stopping, pc[c] \notin DisconnectStacks PROVE pc'["worker"] \notin {<<>>, <<"done">>}
  <2>1. running /\ ~closed
    BY <1>0, <1>4 DEF RunInv, Running
  <2>2. CASE WorkerLoop \/ Pop
    BY <1>m, <2>1, <2>2, WorkerPops
  <2>3. CASE DispatchMessage
    BY <1>m, <2>3, WorkerDispatches
  <2>4. CASE Deliver
    BY <1>m, <2>4, WorkerDelivers
  <2>5. CASE GapStep("worker")
    BY <1>m, <2>5, WorkerAsks DEF GapStep
  <2>. QED  BY <2>2, <2>3, <2>4, <2>5 DEF WorkerStep
<1>. QED  BY <1>0, <1>1, <1>3, <1>4 DEF RunInv, Running, TornDown, OpenState

(* What a stack of teardown steps leaves when its head is done. *)
LEMMA DisconnectTails ==
    ASSUME NEW s \in DisconnectStacks,
           Tail(s) \in {<<"clear", "publish">>, <<"publish">>, <<>>}
    PROVE  s \in {<<"reset", "clear", "publish">>, <<"clear", "publish">>, <<"publish">>}
<1>1. s # TeardownSteps
  <2>1. Tail(TeardownSteps) =
          <<"ws_join", "worker_stop", "worker_join", "reset", "clear", "publish">>
    BY DEF TeardownSteps
  <2>2. Tail(TeardownSteps) \notin {<<"clear", "publish">>, <<"publish">>, <<>>}
    BY <2>1
  <2>. QED  BY <2>2
<1>2. s # <<"ws_join", "worker_stop", "worker_join", "reset", "clear", "publish">>
  <2>1. Tail(<<"ws_join", "worker_stop", "worker_join", "reset", "clear",
               "publish">>) = <<"worker_stop", "worker_join", "reset", "clear", "publish">>
    OBVIOUS
  <2>2. Tail(<<"ws_join", "worker_stop", "worker_join", "reset", "clear",
               "publish">>) \notin {<<"clear", "publish">>, <<"publish">>, <<>>}
    BY <2>1
  <2>. QED  BY <2>2
<1>3. s # <<"worker_stop", "worker_join", "reset", "clear", "publish">>
  <2>1. Tail(<<"worker_stop", "worker_join", "reset", "clear",
               "publish">>) = <<"worker_join", "reset", "clear", "publish">>
    OBVIOUS
  <2>2. Tail(<<"worker_stop", "worker_join", "reset", "clear",
               "publish">>) \notin {<<"clear", "publish">>, <<"publish">>, <<>>}
    BY <2>1
  <2>. QED  BY <2>2
<1>4. s # <<"worker_join", "reset", "clear", "publish">>
  <2>1. Tail(<<"worker_join", "reset", "clear", "publish">>) = <<"reset", "clear", "publish">>
    OBVIOUS
  <2>2. Tail(<<"worker_join", "reset", "clear", "publish">>) \notin {<<"clear", "publish">>,
                                                                     <<"publish">>, <<>>}
    BY <2>1
  <2>. QED  BY <2>2
<1>. QED  BY <1>1, <1>2, <1>3, <1>4 DEF DisconnectStacks

LEMMA TeardownTails ==
    ASSUME NEW s \in JoinStacks \cup JoinedStacks
    PROVE  /\ Tail(s) \in {<<"worker_join", "reset", "clear", "publish", "final">>,
                           <<"reset", "clear", "publish", "final">>,
                           <<"clear", "publish", "final">>, <<"publish", "final">>, <<"final">>}
               => s \in {<<"worker_stop", "worker_join", "reset", "clear", "publish", "final">>,
                          <<"worker_join", "reset", "clear", "publish", "final">>,
                          <<"reset", "clear", "publish", "final">>,
                          <<"clear", "publish", "final">>, <<"publish", "final">>, <<"final">>}
           /\ Tail(s) \in {<<"clear", "publish", "final">>, <<"publish", "final">>, <<"final">>}
               => s \in {<<"reset", "clear", "publish", "final">>,
                          <<"clear", "publish", "final">>, <<"publish", "final">>, <<"final">>}
<1>1. CASE s = <<"ws_stop", "ws_join", "worker_stop", "worker_join", "reset", "clear", "publish",
                 "final">>
  <2>1. Tail(<<"ws_stop", "ws_join", "worker_stop", "worker_join", "reset", "clear", "publish",
               "final">>) =
          <<"ws_join", "worker_stop", "worker_join", "reset", "clear", "publish", "final">>
    OBVIOUS
  <2>. QED  BY <1>1, <2>1
<1>2. CASE s = <<"ws_join", "worker_stop", "worker_join", "reset", "clear", "publish", "final">>
  <2>1. Tail(<<"ws_join", "worker_stop", "worker_join", "reset", "clear", "publish", "final">>) =
          <<"worker_stop", "worker_join", "reset", "clear", "publish", "final">>
    OBVIOUS
  <2>. QED  BY <1>2, <2>1
<1>3. CASE s = <<"worker_stop", "worker_join", "reset", "clear", "publish", "final">>
  <2>1. Tail(<<"worker_stop", "worker_join", "reset", "clear", "publish", "final">>) =
          <<"worker_join", "reset", "clear", "publish", "final">>
    OBVIOUS
  <2>. QED  BY <1>3, <2>1
<1>4. CASE s = <<"worker_join", "reset", "clear", "publish", "final">>
  <2>1. Tail(<<"worker_join", "reset", "clear", "publish", "final">>) =
          <<"reset", "clear", "publish", "final">>
    OBVIOUS
  <2>. QED  BY <1>4, <2>1
<1>. QED  BY <1>1, <1>2, <1>3, <1>4 DEF JoinStacks, JoinedStacks

LEMMA RunCaller ==
    ASSUME NEW c, IxReady(c), RunInv(c),
           \/ CallStep(c) \/ CallConnect(c) \/ CallDisconnect(c) \/ CallResnapshot(c)
           \/ Disconnect(c) \/ AwaitTransportStop(c) \/ GapStep(c) \/ TeardownStep(c)
    PROVE  RunInv(c)'
<1>. USE DEF flagVars, teardownVars, queueVars
<1>0. /\ c # "teardown" /\ c # "ix" /\ c # "worker" /\ c \in Threads
      /\ "ix" \in Threads /\ "worker" \in Threads /\ "teardown" \in Threads
      /\ pc \in [Threads -> Seq(Steps)]
  BY IxReadyFacts
<1>r. Running(c) /\ TornDown(c) /\ OpenState
  BY DEF RunInv
<1>d. /\ \A s \in QuietCalls \cup GapCalls : s \notin DisconnectStacks =>
           s \notin {<<"clear", "publish">>, <<"publish">>}
      /\ <<"launch">> \notin DisconnectStacks /\ <<"start">> \notin DisconnectStacks
      /\ <<"disconnect">> \notin DisconnectStacks /\ <<>> \notin DisconnectStacks
      /\ \A s \in AwaitStacks : s \notin DisconnectStacks
      /\ TeardownSteps \notin {<<"clear", "publish">>, <<"publish">>}
      /\ TeardownSteps \in DisconnectStacks
  <2>1. /\ <<"launch">> \notin DisconnectStacks /\ <<"start">> \notin DisconnectStacks
        /\ <<"disconnect">> \notin DisconnectStacks
    BY DEF DisconnectStacks, TeardownSteps
  <2>2. TeardownSteps \notin {<<"clear", "publish">>, <<"publish">>}
    BY DEF TeardownSteps
  <2>. QED  BY <2>1, <2>2, StacksDisjoint DEF DisconnectStacks
(* A call that only moves on. *)
<1>p. ASSUME NEW from, NEW to, Moves(c, from, to), from \notin DisconnectStacks,
             to \notin DisconnectStacks, to \in QuietCalls \cup GapCalls,
             UNCHANGED <<state, stopping, running, closed>>
      PROVE  RunInv(c)'
  <2>1. /\ pc[c] = from /\ pc'[c] = to /\ pc'["ix"] = pc["ix"] /\ pc'["worker"] = pc["worker"]
        /\ pc'["teardown"] = pc["teardown"]
    BY <1>0, <1>p DEF Moves
  <2>2. to \notin {<<"clear", "publish">>, <<"publish">>}
    BY <1>d, <1>p
  <2>. QED  BY <1>p, <1>r, <2>1, <2>2 DEF RunInv, Running, TornDown, OpenState
<1>1. CASE CallerMovesOn(c)
  <2>1. UNCHANGED <<state, stopping, running, closed>>
    BY <1>1, CallerPasses
  <2>2. PICK from \in (QuietCalls \ {<<"launch">>}) \ DisconnectStacks :
          \E to \in (QuietCalls \ {<<"launch">>}) \ DisconnectStacks : Moves(c, from, to)
    BY <1>1, CallerPasses
  <2>. QED  BY <1>p, <2>1, <2>2
<1>2. CASE GapStep(c)
  <2>1. UNCHANGED <<state, stopping, running, closed>>
    BY <1>2 DEF GapStep, MarkGap, DiscardPending, StreamGapCallback, ResnapshotCheck,
       ResnapshotExchange, ResnapshotClose
  <2>2. /\ {<<"resnapshot">>, <<"exchange">>, <<>>} \subseteq QuietCalls
        /\ {<<"mark", "close">>, <<"discard", "close">>, <<"gap", "close">>,
            <<"close">>} \subseteq GapCalls
        /\ <<"resnapshot">> \notin DisconnectStacks /\ <<"exchange">> \notin DisconnectStacks
        /\ \A s \in GapCalls : s \notin DisconnectStacks
    BY CallKinds DEF QuietCalls, GapCalls, DisconnectStacks, TeardownSteps
  <2>3. PICK from, to :
          /\ Moves(c, from, to) /\ from \notin DisconnectStacks /\ to \notin DisconnectStacks
          /\ to \in QuietCalls \cup GapCalls
    BY <1>2, <1>d, <2>2, CallerAsks DEF GapStep
  <2>. QED  BY <1>p, <2>1, <2>3
<1>3. CASE ConnectRetire(c) /\ ~At(c, "retire")
  <2>1. /\ Moves(c, <<"request", "await", "start">>, <<"await", "start">>) /\ ~stopping
        /\ UNCHANGED <<state, running, closed>>
    BY <1>3, CallerRetires
  <2>2. /\ pc'[c] = <<"await", "start">> /\ pc'["ix"] = pc["ix"] /\ pc'["worker"] = pc["worker"]
        /\ pc'["teardown"] = pc["teardown"] /\ pc[c] \notin DisconnectStacks
    BY <1>0, <2>1 DEF Moves, DisconnectStacks, TeardownSteps
  <2>3. <<"await", "start">> \notin DisconnectStacks
        /\ <<"await", "start">> \notin {<<"clear", "publish">>, <<"publish">>}
    BY <1>d DEF AwaitStacks
  <2>. QED  BY <1>r, <2>1, <2>2, <2>3 DEF RunInv, Running, TornDown, OpenState
<1>4. CASE ConnectStart(c) /\ state = "DISCONNECTED"
  <2>1. pc[c] = <<"start">> /\ ~stopping /\ pc["teardown"] \in {<<>>, <<"wait">>}
    BY <1>4, CallerStarts, CallerReady DEF CallStacks
  <2>2. CASE /\ pc' = [pc EXCEPT ![c] = <<"launch">>,
                                 !["teardown"] = IF active THEN @ ELSE <<"wait">>]
             /\ ~stopping' /\ UNCHANGED <<state, running, closed>>
    <3>1. /\ pc'["ix"] = pc["ix"] /\ pc'["worker"] = pc["worker"] /\ pc'[c] = <<"launch">>
          /\ pc'["teardown"] \in {<<>>, <<"wait">>}
      BY <1>0, <2>1, <2>2
    <3>2. /\ pc'["teardown"] \notin
               {<<"worker_join", "reset", "clear", "publish", "final">>,
                <<"reset", "clear", "publish", "final">>,
                <<"clear", "publish", "final">>, <<"publish", "final">>, <<"final">>}
          /\ pc'[c] \notin DisconnectStacks
          /\ pc'[c] \notin {<<"clear", "publish">>, <<"publish">>}
      BY <1>d, <3>1
    <3>3. pc[c] \notin DisconnectStacks
      BY <1>d, <2>1
    <3>4. Running(c)'
      BY <1>r, <2>1, <2>2, <3>1, <3>3 DEF Running
    <3>5. OpenState'
      BY <1>r, <2>1, <2>2, <3>1 DEF OpenState
    <3>. QED  BY <3>2, <3>4, <3>5 DEF RunInv, TornDown
  <2>3. CASE /\ Moves(c, <<"start">>, IF active THEN <<"await">> ELSE TeardownSteps)
             /\ state' = "CLOSING" /\ running' = FALSE /\ (stopping' <=> active)
    <3>1. /\ pc'["ix"] = pc["ix"] /\ pc'["teardown"] = pc["teardown"]
          /\ pc'[c] = (IF active THEN <<"await">> ELSE TeardownSteps)
      BY <1>0, <2>3 DEF Moves
    <3>2. pc'[c] \notin {<<"clear", "publish">>, <<"publish">>} /\ pc["teardown"] \notin
            {<<"clear", "publish", "final">>, <<"publish", "final">>, <<"final">>}
      BY <1>d, <2>1, <3>1
    <3>3. stopping' \/ (pc'[c] \in DisconnectStacks /\ pc'["ix"] = <<>>)
      BY <1>d, <2>3, <3>1, CallerReady
    <3>4. <<>> \notin OpenStacks \cup ClosingStacks
      BY StackKinds, StacksApart DEF DialStacks
    <3>. QED  BY <1>d, <1>r, <2>1, <2>3, <3>1, <3>2, <3>3, <3>4
                 DEF RunInv, Running, TornDown, OpenState
  <2>. QED  BY <1>4, <2>2, <2>3, CallerStarts
<1>5. CASE ConnectLaunch(c)
  <2>1. /\ pc[c] = <<"launch">> /\ pc'[c] = <<>> /\ pc'["teardown"] = pc["teardown"] /\ ~stopping
        /\ pc'["worker"] = (IF running THEN pc["worker"] ELSE <<"loop">>)
        /\ pc'["ix"] = (IF pc["ix"] = <<>> THEN <<"dial">> ELSE pc["ix"])
        /\ state = "DISCONNECTED" /\ pc["teardown"] \in {<<>>, <<"wait">>}
    BY <1>5, CallerLaunches, CallerReady DEF CallStacks
  <2>2. running' = TRUE /\ stopping' = stopping /\ state' = "CONNECTING"
    BY <1>5 DEF ConnectLaunch
  <2>3. ~closed /\ (~running => pc["worker"] = <<>>)
    BY <1>d, <1>r, <2>1 DEF Running
  <2>4. ~closed'
    BY <1>5, <2>3 DEF ConnectLaunch
  <2>5. pc'["worker"] \notin {<<>>, <<"done">>}
    <3>1. running => pc["worker"] \notin {<<>>, <<"done">>}
      BY <1>d, <1>r, <2>1 DEF Running
    <3>. QED  BY <2>1, <3>1
  <2>6. pc'["ix"] \notin OpenStacks \cup ClosingStacks
    <3>1. <<"dial">> \notin OpenStacks \cup ClosingStacks
      BY StackKinds, StacksApart DEF DialStacks
    <3>. QED  BY <1>r, <2>1, <3>1 DEF OpenState
  <2>. QED  BY <1>d, <2>1, <2>2, <2>4, <2>5, <2>6 DEF RunInv, Running, TornDown, OpenState
<1>6. CASE Disconnect(c)
  <2>1. /\ Moves(c, <<"disconnect">>, IF active THEN <<"await">> ELSE TeardownSteps)
        /\ (stopping' <=> active) /\ running' = FALSE /\ ~stopping /\ state' = "CLOSING"
    BY <1>6, CallerDisconnects
  <2>2. /\ pc'["ix"] = pc["ix"] /\ pc'["teardown"] = pc["teardown"]
        /\ pc'[c] = (IF active THEN <<"await">> ELSE TeardownSteps) /\ pc[c] = <<"disconnect">>
    BY <1>0, <2>1 DEF Moves
  <2>3. pc["teardown"] \in {<<>>, <<"wait">>}
    BY <2>2, CallerReady DEF CallStacks
  <2>4. pc'[c] \notin {<<"clear", "publish">>, <<"publish">>} /\ pc["teardown"] \notin
            {<<"clear", "publish", "final">>, <<"publish", "final">>, <<"final">>}
    BY <1>d, <2>2, <2>3
  <2>5. stopping' \/ (pc'[c] \in DisconnectStacks /\ pc'["ix"] = <<>>)
    BY <1>d, <2>1, <2>2, CallerReady
  <2>6. <<>> \notin OpenStacks \cup ClosingStacks
    BY StackKinds, StacksApart DEF DialStacks
  <2>. QED  BY <1>d, <1>r, <2>1, <2>2, <2>4, <2>5, <2>6 DEF RunInv, Running, TornDown, OpenState
<1>7. CASE TeardownStep(c)
  <2>1. /\ pc[c] \in DisconnectStacks /\ pc["ix"] = <<>> /\ pc["worker"] = <<>> /\ ~active
        /\ Moves(c, pc[c], Tail(pc[c])) /\ stopping' = stopping
        /\ Tail(pc[c]) \in DisconnectStacks \/ Tail(pc[c]) = <<>>
    BY <1>7, CallerTears
  <2>2. /\ pc'[c] = Tail(pc[c]) /\ pc'["ix"] = <<>> /\ pc'["worker"] = <<>>
        /\ pc'["teardown"] = pc["teardown"]
    BY <1>0, <2>1 DEF Moves
  <2>3. pc["teardown"] \in {<<>>, <<"wait">>}
    BY <2>1, StacksDisjoint, NotWaiting DEF IxReady
  <2>4. ~running
    BY <1>r, <2>1 DEF TornDown
  <2>5. ~running'
    BY <1>7, <2>4 DEF TeardownStep, WsStop, StopMessageWorker, Publish
  <2>6. ASSUME pc'[c] \in {<<"clear", "publish">>, <<"publish">>, <<>>} PROVE ~closed'
    <3>1. pc[c] \in {<<"reset", "clear", "publish">>, <<"clear", "publish">>, <<"publish">>}
      <4>. DEFINE s == pc[c]
      <4>1. s \in DisconnectStacks /\ Tail(s) \in {<<"clear", "publish">>, <<"publish">>, <<>>}
        BY <2>1, <2>2, <2>6
      <4>. HIDE DEF s
      <4>2. s \in {<<"reset", "clear", "publish">>, <<"clear", "publish">>, <<"publish">>}
        BY <4>1, DisconnectTails
      <4>. QED  BY <4>2 DEF s
    <3>2. CASE pc[c] = <<"reset", "clear", "publish">>
      BY <1>7, <3>2 DEF At, TeardownStep, WsStop, StopMessageWorker, Publish
    <3>3. CASE pc[c] \in {<<"clear", "publish">>, <<"publish">>}
      <4>1. ~closed
        BY <1>r, <3>3 DEF TornDown
      <4>. QED  BY <1>7, <3>3, <4>1 DEF At, TeardownStep, WsStop, StopMessageWorker, Publish
    <3>. QED  BY <3>1, <3>2, <3>3
  <2>7. <<>> \notin OpenStacks \cup ClosingStacks
    BY StackKinds, StacksApart DEF DialStacks
  <2>8. pc'[c] \notin DisconnectStacks => pc'[c] = <<>>
    BY <2>1, <2>2
  <2>9. Running(c)'
    BY <2>2, <2>5, <2>6, <2>8 DEF Running
  <2>10. TornDown(c)'
    <3>1. pc'["teardown"] \notin
            {<<"worker_join", "reset", "clear", "publish", "final">>,
             <<"reset", "clear", "publish", "final">>,
             <<"clear", "publish", "final">>, <<"publish", "final">>, <<"final">>}
      BY <2>2, <2>3
    <3>. QED  BY <2>5, <2>6, <3>1 DEF TornDown
  <2>11. OpenState'
    BY <2>2, <2>7 DEF OpenState
  <2>. QED  BY <2>9, <2>10, <2>11 DEF RunInv
<1>. QED  BY <1>1, <1>2, <1>3, <1>4, <1>5, <1>6, <1>7 DEF CallStep, CallerMovesOn

LEMMA RunTransport ==
    ASSUME NEW c, IxReady(c), RunInv(c), TransportStep \/ TeardownStep("teardown")
    PROVE  RunInv(c)'
<1>. USE DEF flagVars, teardownVars, queueVars
<1>0. /\ c # "teardown" /\ "ix" \in Threads /\ "worker" \in Threads /\ "teardown" \in Threads
      /\ pc \in [Threads -> Seq(Steps)] /\ c \in Threads
      /\ pc["teardown"] \in {<<>>, <<"wait">>} \cup JoinStacks \cup JoinedStacks
  BY IxReadyFacts DEF IxReady, StopInv, StopShapes
<1>r. Running(c) /\ TornDown(c) /\ OpenState
  BY DEF RunInv
<1>a. stopping => pc[c] \notin DisconnectStacks
  BY CallerReady, StacksDisjoint
<1>b. \A s \in DisconnectStacks : s \notin AwaitStacks
  BY StacksDisjoint
<1>1. CASE TransportWake
  <2>1. PICK to \in JoinStacks : Moves("teardown", <<"wait">>, to)
    BY <1>1, TransportWakes
  <2>2. /\ stopping /\ UNCHANGED <<state, stopping, running, closed>>
        /\ pc'["teardown"] \in JoinStacks /\ pc'[c] = pc[c]
    BY <1>0, <1>1, <2>1, TransportWakes DEF Moves
  <2>3. pc'["teardown"] \notin {<<"worker_join", "reset", "clear", "publish", "final">>,
                           <<"reset", "clear", "publish", "final">>,
                           <<"clear", "publish", "final">>, <<"publish", "final">>, <<"final">>}
    BY <2>2 DEF JoinStacks
  <2>. QED  BY <1>r, <2>2, <2>3 DEF RunInv, Running, TornDown, OpenState
<1>2. CASE TransportFinal
  <2>1. /\ Moves("teardown", <<"final">>, <<>>) /\ stopping
        /\ pc["ix"] = <<>> /\ pc["worker"] = <<>> /\ UNCHANGED <<running, closed>>
    BY <1>2, TransportEnds
  <2>2. /\ pc["teardown"] = <<"final">> /\ pc'["teardown"] = <<>> /\ pc'[c] = pc[c]
        /\ pc'["ix"] = <<>> /\ pc'["worker"] = <<>>
    BY <1>0, <2>1, IxReadyFacts DEF Moves
  <2>3. ~running' /\ ~closed'
    BY <1>r, <2>1, <2>2 DEF TornDown
  <2>4. <<>> \notin OpenStacks \cup ClosingStacks
    BY StackKinds, StacksApart DEF DialStacks
  <2>. QED  BY <1>a, <2>1, <2>2, <2>3, <2>4 DEF RunInv, Running, TornDown, OpenState
<1>3. CASE TeardownStep("teardown")
  <2>1. /\ stopping /\ stopping' = stopping /\ pc'[c] = pc[c]
        /\ pc'["teardown"] = Tail(pc["teardown"])
    BY <1>3, TransportTears
  <2>2. pc[c] \notin DisconnectStacks /\ pc[c] \notin {<<"clear", "publish">>, <<"publish">>}
    BY <1>a, <2>1 DEF DisconnectStacks
  <2>. DEFINE At1 == {<<"worker_join", "reset", "clear", "publish", "final">>,
                           <<"reset", "clear", "publish", "final">>,
                           <<"clear", "publish", "final">>, <<"publish", "final">>, <<"final">>}
              At2 == {<<"clear", "publish", "final">>, <<"publish", "final">>, <<"final">>}
  <2>3. ASSUME pc'["teardown"] \in At1 PROVE ~running'
    <3>1. pc["teardown"] \in At1 \/
          pc["teardown"] = <<"worker_stop", "worker_join", "reset", "clear", "publish", "final">>
      BY <1>3, <2>1, <2>3, TransportTears, TeardownTails
    <3>2. CASE pc["teardown"] \in At1
      <4>1. ~running
        BY <1>r, <3>2 DEF TornDown
      <4>. QED  BY <1>3, <4>1 DEF TeardownStep, WsStop, StopMessageWorker, Publish
    <3>3. CASE pc["teardown"] =
                 <<"worker_stop", "worker_join", "reset", "clear", "publish", "final">>
      BY <1>3, <3>3 DEF At, TeardownStep, WsStop, StopMessageWorker, Publish
    <3>. QED  BY <3>1, <3>2, <3>3
  <2>4. ASSUME pc'["teardown"] \in At2 PROVE ~closed'
    <3>1. pc["teardown"] \in At2 \/ pc["teardown"] = <<"reset", "clear", "publish", "final">>
      BY <1>3, <2>1, <2>4, TransportTears, TeardownTails
    <3>2. CASE pc["teardown"] \in At2
      <4>1. ~closed
        BY <1>r, <3>2 DEF TornDown
      <4>. QED  BY <1>3, <3>2, <4>1 DEF At, TeardownStep, WsStop, StopMessageWorker, Publish
    <3>3. CASE pc["teardown"] = <<"reset", "clear", "publish", "final">>
      BY <1>3, <3>3 DEF At, TeardownStep, WsStop, StopMessageWorker, Publish
    <3>. QED  BY <3>1, <3>2, <3>3
  <2>. QED  BY <2>1, <2>2, <2>3, <2>4 DEF RunInv, Running, TornDown, OpenState
<1>. QED  BY <1>1, <1>2, <1>3 DEF TransportStep

LEMMA RunStep ==
    ASSUME NEW c, IxReady(c), RunInv(c), [Next]_vars
    PROVE  RunInv(c)'
<1>1. CASE UNCHANGED vars
  BY <1>1 DEF vars, RunInv, Running, TornDown, OpenState
<1>. QED  BY <1>1, WhoSteps, RunIx, RunWorker, RunCaller, RunTransport

LEMMA RunInit ==
    ASSUME NEW c, OneCaller(c), InitState
    PROVE  RunInv(c)
<1>1. /\ "ix" \in Threads /\ "worker" \in Threads /\ "teardown" \in Threads /\ c \in Threads
  BY StreamInit, IxReadyFacts
<1>2. /\ pc["ix"] = <<>> /\ pc["worker"] = <<>> /\ pc["teardown"] = <<>> /\ pc[c] = <<>>
      /\ ~running /\ ~closed
  BY <1>1 DEF InitState
<1>3. <<>> \notin OpenStacks \cup ClosingStacks /\ <<>> \notin DisconnectStacks
  BY StackKinds, StacksApart, StacksDisjoint DEF DialStacks
<1>4. Running(c) /\ OpenState
  BY <1>2, <1>3 DEF Running, OpenState
<1>5. TornDown(c)
  BY <1>2, <1>3 DEF TornDown
<1>. QED  BY <1>4, <1>5 DEF RunInv

(* What the threads other than the IX thread do. *)
CallerSteps(c) ==
    \/ CallStep(c) \/ CallConnect(c) \/ CallDisconnect(c) \/ CallResnapshot(c)
    \/ Disconnect(c) \/ AwaitTransportStop(c)
OtherStep(c) ==
    \/ WorkerStep \/ GapStep("worker") \/ TransportStep \/ TeardownStep("teardown")
    \/ CallerSteps(c) \/ GapStep(c) \/ TeardownStep(c)

(* Closing a socket changes only its connection and its stop flags. *)
LEMMA SocketFields ==
    ASSUME ix \in IxType
    PROVE  /\ \A a : ix' = [ix EXCEPT !.auto = a] =>
                ix'.subscribed = ix.subscribed /\ ix'.conn = ix.conn
           /\ \A a : ix' = [ix EXCEPT !.stop = a] =>
                ix'.subscribed = ix.subscribed /\ ix'.conn = ix.conn
           /\ \A a : ix' = [ix EXCEPT !.callback = a] =>
                ix'.subscribed = ix.subscribed /\ ix'.conn = ix.conn
           /\ \A a, b : ix' = [ix EXCEPT !.auto = a, !.conn = b] =>
                ix'.subscribed = ix.subscribed /\ ix'.conn = b
           /\ \A a, b : ix' = [ix EXCEPT !.stop = a, !.conn = b] =>
                ix'.subscribed = ix.subscribed /\ ix'.conn = b
           /\ \A a, b, d : ix' = [ix EXCEPT !.auto = a, !.callback = b, !.first = d] =>
                ix'.subscribed = ix.subscribed /\ ix'.conn = ix.conn
BY DEF IxType

LEMMA CloseFields ==
    ASSUME ix \in IxType, NEW t, ResnapshotClose(t)
    PROVE  /\ ix'.subscribed = ix.subscribed
           /\ stopping => ix'.conn = ix.conn
           /\ ~stopping => ix'.conn = (IF ix.conn = "open" THEN "closing" ELSE ix.conn)
<1>. DEFINE a == ix.auto \/ ~ReconnectEnabled
            b == IF ix.conn = "open" THEN "closing" ELSE ix.conn
<1>1. stopping \/ ix' = [ix EXCEPT !.auto = a, !.conn = b]
  BY DEF ResnapshotClose
<1>2. stopping => ix' = ix
  BY DEF ResnapshotClose
<1>. HIDE DEF a
<1>. QED  BY <1>1, <1>2, SocketFields

LEMMA OtherIx ==
    ASSUME NEW c, IxReady(c), OtherStep(c)
    PROVE  /\ \/ pc'["ix"] = pc["ix"]
              \/ pc["ix"] \in {<<>>, <<"done">>} /\ pc'["ix"] \in {<<>>, <<"dial">>}
           /\ ix'.subscribed = ix.subscribed
           /\ ix'.conn = ix.conn \/ ix'.conn = "closing"
<1>0. /\ c # "teardown" /\ c # "ix" /\ c # "worker" /\ c \in Threads
      /\ "ix" \in Threads /\ "worker" \in Threads /\ "teardown" \in Threads
      /\ pc \in [Threads -> Seq(Steps)] /\ ix \in IxType
  BY IxReadyFacts
<1>g. ASSUME NEW t \in {c, "worker", "teardown"}, NEW next, Go(t, next)
      PROVE  pc'["ix"] = pc["ix"]
  BY <1>0, <1>g DEF Go
<1>1. CASE WorkerStep
  <2>1. PICK next : Go("worker", next)
    BY <1>1, WorkerGoes
  <2>2. UNCHANGED ix
    BY <1>1 DEF WorkerStep, WorkerLoop, Pop, DispatchMessage, Deliver
  <2>. QED  BY <1>g, <2>1, <2>2
<1>2. ASSUME NEW t \in {c, "worker"}, GapStep(t)
      PROVE  /\ pc'["ix"] = pc["ix"] /\ ix'.subscribed = ix.subscribed
             /\ ix'.conn = ix.conn \/ ix'.conn = "closing"
  <2>1. CASE ResnapshotClose(t)
    <3>1. pc'["ix"] = pc["ix"]
      BY <1>g, <1>2, <2>1 DEF ResnapshotClose
    <3>. QED  BY <1>0, <2>1, <3>1, CloseFields
  <2>2. CASE ~ResnapshotClose(t)
    <3>1. UNCHANGED ix
      BY <1>2, <2>2 DEF GapStep, MarkGap, DiscardPending, StreamGapCallback, ResnapshotCheck,
         ResnapshotExchange
    <3>2. \E next : Go(t, next)
      BY <1>2, <2>2 DEF GapStep, MarkGap, DiscardPending, StreamGapCallback, ResnapshotCheck,
         ResnapshotExchange, UserCallback
    <3>. QED  BY <1>g, <1>2, <3>1, <3>2
  <2>. QED  BY <2>1, <2>2
<1>3. CASE TransportStep
  <2>1. UNCHANGED ix /\ \E next : Go("teardown", next)
    BY <1>3 DEF TransportStep, TransportWake, TransportFinal
  <2>. QED  BY <1>g, <2>1
<1>4. ASSUME NEW t \in {c, "teardown"}, TeardownStep(t)
      PROVE  /\ \/ pc'["ix"] = pc["ix"]
                \/ pc["ix"] \in {<<>>, <<"done">>} /\ pc'["ix"] = <<>>
             /\ ix'.subscribed = ix.subscribed
             /\ ix'.conn = ix.conn \/ ix'.conn = "closing"
  <2>1. CASE WsStop(t) /\ At(t, "ws_stop") /\ Go(t, <<>>)
             /\ ix' = [ix EXCEPT !.stop = pc["ix"] # <<>>,
                                 !.conn = IF @ = "open" THEN "closing" ELSE @]
    <3>. DEFINE a == pc["ix"] # <<>>
                b == IF ix.conn = "open" THEN "closing" ELSE ix.conn
    <3>1. ix' = [ix EXCEPT !.stop = a, !.conn = b]
      BY <2>1
    <3>2. pc'["ix"] = pc["ix"]
      BY <1>g, <1>4, <2>1
    <3>. HIDE DEF a
    <3>. QED  BY <1>0, <3>1, <3>2, SocketFields
  <2>2. CASE /\ pc["ix"] \in {<<>>, <<"done">>} /\ ix' = [ix EXCEPT !.stop = FALSE]
             /\ pc' = [pc EXCEPT ![t] = Tail(@), !["ix"] = <<>>]
    <3>1. pc'["ix"] = <<>>
      BY <1>0, <1>4, <2>2
    <3>. QED  BY <1>0, <2>2, <3>1, SocketFields
  <2>3. CASE StopMessageWorker(t)
    <3>1. UNCHANGED ix /\ pc'["ix"] = pc["ix"]
      BY <1>0, <1>4, <2>3 DEF StopMessageWorker, Go
    <3>. QED  BY <3>1
  <2>4. CASE Publish(t)
    <3>1. pc'["ix"] = pc["ix"]
      BY <1>g, <1>4, <2>4 DEF Publish
    <3>2. ix' = ix \/ ix' = [ix EXCEPT !.callback = FALSE]
      BY <2>4 DEF Publish
    <3>. QED  BY <1>0, <3>1, <3>2, SocketFields
  <2>. QED  BY <1>4, <2>1, <2>2, <2>3, <2>4 DEF TeardownStep, WsStop
<1>5. CASE CallerSteps(c)
  <2>1. CASE ConnectLaunch(c)
    <3>. DEFINE a == ix.auto \/ ReconnectEnabled
                d == ix.first \/ pc["ix"] = <<>>
    <3>1. ix' = [ix EXCEPT !.auto = a, !.callback = TRUE, !.first = d]
      BY <2>1 DEF ConnectLaunch
    <3>2. pc'["ix"] = (IF pc["ix"] = <<>> THEN <<"dial">> ELSE pc["ix"])
      BY <2>1, CallerLaunches
    <3>. HIDE DEF a, d
    <3>. QED  BY <1>0, <3>1, <3>2, SocketFields
  <2>2. CASE Disconnect(c)
    <3>1. ix' = [ix EXCEPT !.auto = FALSE] /\ pc'["ix"] = pc["ix"]
      BY <1>0, <2>2, CallerDisconnects DEF Moves
    <3>. QED  BY <1>0, <3>1, SocketFields
  <2>3. CASE CallerMovesOn(c)
    <3>1. UNCHANGED ix /\ \E from, to : Moves(c, from, to)
      BY <2>3, CallerPasses
    <3>. QED  BY <1>0, <3>1 DEF Moves
  <2>4. CASE ConnectRetire(c) /\ ~At(c, "retire")
    <3>1. UNCHANGED ix /\ \E from, to : Moves(c, from, to)
      BY <2>4, CallerRetires
    <3>. QED  BY <1>0, <3>1 DEF Moves
  <2>5. CASE ConnectStart(c) /\ state = "DISCONNECTED"
    <3>1. UNCHANGED ix
      BY <2>5, CallerStarts
    <3>2. pc'["ix"] = pc["ix"]
      BY <1>0, <2>5, CallerStarts DEF Moves
    <3>. QED  BY <3>1, <3>2
  <2>. QED  BY <1>5, <2>1, <2>2, <2>3, <2>4, <2>5 DEF CallerSteps, CallStep, CallerMovesOn
<1>. QED  BY <1>1, <1>2, <1>3, <1>4, <1>5 DEF OtherStep

(* A connection that was opened is subscribed, or is not open any more. *)
SubInv ==
    ~stopping /\ pc["ix"] \in OpenStacks \ {<<"restore", "poll">>} =>
       ix.subscribed \/ ix.conn # "open"

LEMMA SubOther ==
    ASSUME NEW c, IxReady(c), SubInv, OtherStep(c), ~stopping
    PROVE  SubInv'
<1>1. {<<>>, <<"dial">>} \cap OpenStacks = {}
  BY StackKinds, StacksApart DEF DialStacks
<1>2. pc'["ix"] \in OpenStacks => pc'["ix"] = pc["ix"]
  BY <1>1, OtherIx
<1>3. ix'.subscribed = ix.subscribed /\ (ix'.conn = ix.conn \/ ix'.conn = "closing")
  BY OtherIx
<1>. QED  BY <1>2, <1>3 DEF SubInv

(* What the IX thread does to the stream while no stop is pending: it leaves a connection or
   dials, asks for a resnapshot, opens a connection, takes a message or marks a gap. *)
StreamKeeps == UNCHANGED <<gen, mark, epoch, recv, got, queue, msg>>
SocketKeeps == ix'.conn = ix.conn /\ ix'.subscribed = ix.subscribed
IxFrom(from, to) == pc["ix"] = from /\ pc'["ix"] = to

IxLeaves ==
    /\ StreamKeeps /\ pc'["ix"] \in DialStacks \cup {<<"mark", "opened", "poll">>}
    /\ ~At("ix", "discard")'
IxAsks ==
    /\ StreamKeeps /\ SocketKeeps
    /\ pc["ix"] \in AskingStacks("poll") /\ pc'["ix"] \in AskingStacks("poll")
    /\ pc'["ix"] = <<"exchange", "poll">> \/ resnap'
    /\ ~At("ix", "discard")'
IxAsked ==
    /\ StreamKeeps /\ pc["ix"] \in AskingStacks("poll") /\ pc'["ix"] = <<"poll">>
    /\ \/ SocketKeeps /\ resnap'
       \/ ix'.conn # "open" /\ UNCHANGED resnap /\ pc["ix"] = <<"close", "poll">>
IxOpens == StreamKeeps /\ SocketKeeps /\ IxFrom(<<"opened", "poll">>, <<"restore", "poll">>)
IxRestores ==
    /\ StreamKeeps /\ UNCHANGED resnap /\ ix'.conn = ix.conn
    /\ \/ IxFrom(<<"restore", "poll">>, <<"on_connect", "poll">>) /\ ix'.subscribed
       \/ IxFrom(<<"restore", "poll">>, <<"resnapshot", "poll">>) /\ ix'.conn # "open"
IxFlows ==
    /\ StreamKeeps /\ SocketKeeps /\ UNCHANGED resnap
    /\ \/ IxFrom(<<"on_connect", "poll">>, <<"poll">>)
       \/ IxFrom(<<"poll">>, <<"enqueue", "poll">>)
       \/ IxFrom(<<"enqueue", "poll">>, <<"stamp", "poll">>) /\ ~resnap
IxSkips ==
    /\ UNCHANGED <<gen, mark, epoch, got, queue, msg, resnap>> /\ SocketKeeps
    /\ resnap /\ recv' = recv + 1 /\ IxFrom(<<"enqueue", "poll">>, <<"poll">>)
IxStamps ==
    /\ UNCHANGED <<gen, mark, epoch, got, queue, resnap>> /\ SocketKeeps
    /\ msg' = [msg EXCEPT !["ix"] = [gen |-> gen, n |-> recv + 1]]
    /\ recv' = recv + 1 /\ IxFrom(<<"stamp", "poll">>, <<"push", "poll">>)
IxPushes ==
    /\ UNCHANGED <<gen, mark, epoch, recv, got, msg, resnap>> /\ SocketKeeps
    /\ \/ queue' = Append(queue, msg["ix"]) /\ IxFrom(<<"push", "poll">>, <<"poll">>)
       \/ queue' = <<>> /\ IxFrom(<<"push", "poll">>, <<"resnapshot", "poll">>)
IxMarks ==
    \E y \in Marked :
       /\ UNCHANGED <<ix, msg, resnap>>
       /\ \/ /\ IxFrom(<<"mark", y, Base(y)>>, <<"discard", y, Base(y)>>)
             /\ gen' = gen + 1 /\ mark' = [mark EXCEPT !["ix"] = gen + 1]
             /\ recv' = 0 /\ got' = 0 /\ UNCHANGED <<epoch, queue>>
          \/ /\ IxFrom(<<"discard", y, Base(y)>>, <<"gap", y, Base(y)>>)
             /\ queue' = <<>> /\ UNCHANGED <<gen, mark, epoch, recv, got>>
          \/ /\ IxFrom(<<"gap", y, Base(y)>>, <<y, Base(y)>>)
             /\ UNCHANGED <<gen, mark, recv, got, queue>>

LEMMA IxDoes ==
    ASSUME NEW c, IxReady(c), RunInv(c), ~stopping, IxStep \/ Environment \/ GapStep("ix")
    PROVE  /\ pc'["worker"] = pc["worker"] /\ pc'["teardown"] = pc["teardown"] /\ pc'[c] = pc[c]
           /\ UNCHANGED stopping
           /\ \/ IxLeaves \/ IxAsks \/ IxAsked \/ IxOpens \/ IxRestores \/ IxFlows \/ IxSkips
              \/ IxStamps \/ IxPushes \/ IxMarks
<1>. USE DEF flagVars, queueVars, streamVars
<1>0. /\ "ix" \in Threads /\ "worker" \in Threads /\ pc \in [Threads -> Seq(Steps)] /\ c # "ix"
      /\ c \in Threads /\ "teardown" \in Threads /\ ix \in IxType
      /\ pc["ix"] # <<>> /\ UNCHANGED stopping
  BY IxReadyFacts, IxGoes
<1>1. PICK next : Go("ix", next)
  BY IxGoes
<1>2. pc'["worker"] = pc["worker"] /\ pc'["teardown"] = pc["teardown"] /\ pc'[c] = pc[c]
  BY <1>0, <1>1 DEF Go
<1>m. ASSUME NEW from, NEW to, Moves("ix", from, to)
      PROVE  IxFrom(from, to)
  BY <1>0, <1>m DEF Moves, IxFrom
<1>. DEFINE L == {<<"dial">>, <<"done">>, <<"closed", "dial">>, <<"close_state", "dial">>,
                  <<"mark", "close_state", "dial">>, <<"on_close", "dial">>,
                  <<"on_disconnect", "dial">>, <<"error", "dial">>,
                  <<"mark", "error_state", "dial">>, <<"error_state", "dial">>,
                  <<"on_error", "dial">>, <<>>}
<1>d. L \subseteq DialStacks
  BY DialKinds
<1>w. \A s \in L \cup {<<"mark", "opened", "poll">>} : s # <<>> => Head(s) # "discard"
  OBVIOUS
<1>e. ASSUME NEW from, NEW to \in L \cup {<<"mark", "opened", "poll">>}, StreamKeeps,
             Moves("ix", from, to)
      PROVE  IxLeaves
  <2>1. pc'["ix"] = to
    BY <1>e, <1>m DEF IxFrom
  <2>2. to \in DialStacks \cup {<<"mark", "opened", "poll">>}
    BY <1>d, <1>e
  <2>3. ~At("ix", "discard")'
    BY <1>e, <1>w, <2>1 DEF At
  <2>. QED  BY <1>e, <2>1, <2>2, <2>3 DEF IxLeaves
<1>a. {<<"resnapshot", "poll">>, <<"exchange", "poll">>, <<"mark", "close", "poll">>,
       <<"close", "poll">>} \subseteq AskingStacks("poll")
  BY DEF AskingStacks
<1>3. CASE MarkGap("ix")
  <2>1. PICK y \in Marked :
             /\ Moves("ix", <<"mark", y, Base(y)>>, <<"discard", y, Base(y)>>)
             /\ gen' = gen + 1 /\ mark' = [mark EXCEPT !["ix"] = gen + 1]
             /\ recv' = 0 /\ got' = 0
    BY <1>3, IxMark
  <2>2. UNCHANGED <<ix, msg, resnap, epoch, queue>>
    BY <1>3 DEF MarkGap
  <2>3. IxMarks
    BY <1>m, <2>1, <2>2 DEF IxMarks
  <2>. QED  BY <1>0, <1>2, <2>3
<1>4. CASE DiscardPending("ix")
  <2>1. PICK y \in Marked : Moves("ix", <<"discard", y, Base(y)>>, <<"gap", y, Base(y)>>)
    BY <1>4, IxDiscard
  <2>2. queue' = <<>> /\ UNCHANGED <<ix, msg, resnap, gen, mark, epoch, recv, got>>
    BY <1>4 DEF DiscardPending
  <2>3. IxMarks
    BY <1>m, <2>1, <2>2 DEF IxMarks
  <2>. QED  BY <1>0, <1>2, <2>3
<1>5. CASE StreamGapCallback("ix")
  <2>1. PICK y \in Marked : Moves("ix", <<"gap", y, Base(y)>>, <<y, Base(y)>>)
    BY <1>5, IxGap
  <2>2. UNCHANGED <<ix, msg, resnap, gen, mark, recv, got, queue>>
    BY <1>5 DEF StreamGapCallback
  <2>3. IxMarks
    BY <1>m, <2>1, <2>2 DEF IxMarks
  <2>. QED  BY <1>0, <1>2, <2>3
<1>6. CASE ResnapshotCheck("ix")
  <2>1. IxFrom(<<"resnapshot", "poll">>, <<"exchange", "poll">>)
    BY <1>6, <1>m, IxResnapshot
  <2>2. StreamKeeps /\ SocketKeeps
    BY <1>6 DEF ResnapshotCheck, StreamKeeps, SocketKeeps
  <2>3. IxAsks
    BY <1>a, <2>1, <2>2 DEF IxAsks, IxFrom, At
  <2>. QED  BY <1>0, <1>2, <2>3
<1>7. CASE ResnapshotExchange("ix")
  <2>2. StreamKeeps /\ SocketKeeps /\ resnap'
    BY <1>7 DEF ResnapshotExchange, StreamKeeps, SocketKeeps
  <2>3. CASE IxFrom(<<"exchange", "poll">>, <<"poll">>)
    BY <1>0, <1>2, <1>a, <2>2, <2>3 DEF IxAsked, IxFrom
  <2>4. CASE IxFrom(<<"exchange", "poll">>, <<"mark", "close", "poll">>)
    BY <1>0, <1>2, <1>a, <2>2, <2>4 DEF IxAsks, IxFrom, At
  <2>. QED  BY <1>7, <1>m, <2>3, <2>4, IxExchange
<1>8. CASE ResnapshotClose("ix")
  <2>1. IxFrom(<<"close", "poll">>, <<"poll">>)
    BY <1>8, <1>m, IxClose
  <2>2. ix'.conn # "open"
    BY <1>0, <1>8, CloseFields
  <2>3. StreamKeeps /\ UNCHANGED resnap
    BY <1>8 DEF ResnapshotClose, StreamKeeps
  <2>. QED  BY <1>0, <1>2, <1>a, <2>1, <2>2, <2>3 DEF IxAsked, IxFrom
<1>9. CASE HandleOpen
  <2>1. /\ Moves("ix", <<"opened", "poll">>, <<"restore", "poll">>)
        /\ ix' = [ix EXCEPT !.auto = @ /\ ~(resnap /\ ~ReconnectEnabled)]
    BY <1>9, IxOpened
  <2>. DEFINE a == ix.auto /\ ~(resnap /\ ~ReconnectEnabled)
  <2>2. ix' = [ix EXCEPT !.auto = a]
    BY <2>1
  <2>. HIDE DEF a
  <2>3. SocketKeeps
    BY <1>0, <2>2, SocketFields DEF SocketKeeps
  <2>4. StreamKeeps
    BY <1>9 DEF HandleOpen, StreamKeeps
  <2>5. IxFrom(<<"opened", "poll">>, <<"restore", "poll">>)
    BY <1>m, <2>1
  <2>. QED  BY <1>0, <1>2, <2>3, <2>4, <2>5 DEF IxOpens
<1>10. CASE RestoreSubscriptions
  <2>1. StreamKeeps /\ UNCHANGED resnap
    BY <1>10 DEF RestoreSubscriptions, StreamKeeps
  <2>2. CASE /\ ix.conn = "open" /\ ix' = [ix EXCEPT !.subscribed = TRUE]
             /\ Moves("ix", <<"restore", "poll">>, <<"on_connect", "poll">>)
    <3>1. ix'.conn = ix.conn /\ ix'.subscribed
      BY <1>0, <2>2 DEF IxType
    <3>2. IxFrom(<<"restore", "poll">>, <<"on_connect", "poll">>)
      BY <1>m, <2>2
    <3>. QED  BY <1>0, <1>2, <2>1, <3>1, <3>2 DEF IxRestores
  <2>3. CASE /\ ix.conn # "open" /\ UNCHANGED ix
             /\ Moves("ix", <<"restore", "poll">>, <<"resnapshot", "poll">>)
    BY <1>0, <1>2, <1>m, <2>1, <2>3 DEF IxRestores
  <2>. QED  BY <1>10, <2>2, <2>3, IxRestore
<1>11. CASE TransportCallback
  <2>1. StreamKeeps /\ SocketKeeps /\ UNCHANGED resnap
    BY <1>11 DEF TransportCallback, StreamKeeps, SocketKeeps
  <2>2. CASE Moves("ix", <<"on_connect", "poll">>, <<"poll">>)
    BY <1>0, <1>2, <1>m, <2>1, <2>2 DEF IxFlows
  <2>3. CASE ~Moves("ix", <<"on_connect", "poll">>, <<"poll">>)
    <3>1. IxLeaves
      BY <1>11, <1>d, <1>e, <2>1, <2>3, IxCallback
    <3>. QED  BY <1>0, <1>2, <3>1
  <2>. QED  BY <2>2, <2>3
<1>12. CASE HandleClose
  <2>1. StreamKeeps
    BY <1>12 DEF HandleClose, StreamKeeps
  <2>2. IxLeaves
    BY <1>12, <1>d, <1>e, <2>1, IxClosed
  <2>. QED  BY <1>0, <1>2, <2>2
<1>13. CASE HandleError
  <2>1. StreamKeeps
    BY <1>13 DEF HandleError, StreamKeeps
  <2>2. IxLeaves
    BY <1>13, <1>d, <1>e, <2>1, IxError
  <2>. QED  BY <1>0, <1>2, <2>2
<1>14. CASE EnqueueCheck
  <2>1. UNCHANGED <<gen, mark, epoch, got, queue, msg, resnap>> /\ SocketKeeps
    BY <1>14 DEF EnqueueCheck, SocketKeeps
  <2>2. CASE resnap /\ Moves("ix", <<"enqueue", "poll">>, <<"poll">>) /\ recv' = recv + 1
    BY <1>0, <1>2, <1>m, <2>1, <2>2 DEF IxSkips
  <2>3. CASE ~resnap /\ Moves("ix", <<"enqueue", "poll">>, <<"stamp", "poll">>) /\ recv' = recv
    BY <1>0, <1>2, <1>m, <2>1, <2>3 DEF IxFlows, StreamKeeps
  <2>. QED  BY <1>14, <2>2, <2>3, IxEnqueue
<1>15. CASE EnqueueStamp
  <2>1. /\ UNCHANGED <<gen, mark, epoch, got, queue, resnap>> /\ recv' = recv + 1
        /\ msg' = [msg EXCEPT !["ix"] = [gen |-> gen, n |-> recv + 1]] /\ SocketKeeps
    BY <1>15 DEF EnqueueStamp, SocketKeeps
  <2>2. IxFrom(<<"stamp", "poll">>, <<"push", "poll">>)
    BY <1>15, <1>m, IxStamp
  <2>. QED  BY <1>0, <1>2, <2>1, <2>2 DEF IxStamps
<1>16. CASE Push
  <2>1. UNCHANGED <<gen, mark, epoch, recv, got, msg, resnap>> /\ SocketKeeps
    BY <1>16 DEF Push, SocketKeeps
  <2>2. pc[c] \notin DisconnectStacks
    BY <1>0, CallerReady DEF IxReady, StreamShapes
  <2>3. ~closed
    BY <2>2 DEF RunInv, Running
  <2>4. \/ /\ queue' = <<>> /\ Moves("ix", <<"push", "poll">>, <<"resnapshot", "poll">>)
        \/ /\ queue' = Append(queue, msg["ix"]) /\ Moves("ix", <<"push", "poll">>, <<"poll">>)
    BY <1>16, <2>3, IxPush
  <2>. QED  BY <1>0, <1>2, <1>m, <2>1, <2>4 DEF IxPushes
<1>17. CASE Receive
  <2>1. StreamKeeps /\ SocketKeeps /\ UNCHANGED resnap
    BY <1>17 DEF Receive, StreamKeeps, SocketKeeps
  <2>. QED  BY <1>0, <1>2, <1>17, <1>m, <2>1, IxReceives DEF IxFlows
<1>18. CASE ConnectionDrops \/ DialFails \/ Dial
  <2>1. StreamKeeps
    BY <1>18 DEF ConnectionDrops, DialFails, Dial, StreamKeeps
  <2>2. IxLeaves
    BY <1>18, <1>d, <1>e, <2>1, IxDrops, IxDialFails, IxDial
  <2>. QED  BY <1>0, <1>2, <2>2
<1>. QED  BY <1>3, <1>4, <1>5, <1>6, <1>7, <1>8, <1>9, <1>10, <1>11, <1>12, <1>13, <1>14, <1>15,
             <1>16, <1>17, <1>18 DEF IxStep, Environment, GapStep

LEMMA IxOrOther ==
    ASSUME NEW c, IxReady(c), Next
    PROVE  (IxStep \/ Environment \/ GapStep("ix")) \/ OtherStep(c)
BY WhoSteps DEF OtherStep, CallerSteps

(* The caller waits for a pending stop. *)
LEMMA CallerWaits ==
    ASSUME NEW c, IxReady(c), CallerSteps(c) \/ GapStep(c) \/ TeardownStep(c)
    PROVE  ~stopping
<1>1. CASE CallerMovesOn(c)
  BY <1>1, CallerPasses
<1>2. CASE ConnectRetire(c) /\ ~At(c, "retire")
  BY <1>2, CallerRetires
<1>3. CASE ConnectStart(c) /\ state = "DISCONNECTED"
  BY <1>3, CallerStarts
<1>4. CASE ConnectLaunch(c)
  BY <1>4, CallerLaunches
<1>5. CASE Disconnect(c)
  BY <1>5, CallerDisconnects
<1>6. CASE TeardownStep(c)
  BY <1>6, CallerTears, CallerReady
<1>7. CASE GapStep(c)
  <2>1. pc[c] \notin AwaitStacks
    BY <1>7 DEF GapStep, MarkGap, DiscardPending, StreamGapCallback, ResnapshotCheck,
       ResnapshotExchange, ResnapshotClose, At, AwaitStacks
  <2>. QED  BY <2>1, CallerReady
<1>. QED  BY <1>1, <1>2, <1>3, <1>4, <1>5, <1>6, <1>7 DEF CallerSteps, CallStep, CallerMovesOn

LEMMA StopIdle ==
    ASSUME NEW c, IxReady(c), Next, stopping, ~stopping'
    PROVE  /\ TransportFinal /\ pc'["ix"] = <<>> /\ pc'["worker"] = <<>>
           /\ pc["teardown"] = <<"final">>
<1>1. TransportFinal
  BY StopClears
<1>2. "ix" \in Threads /\ "worker" \in Threads /\ "teardown" \in Threads
  BY IxReadyFacts
<1>. QED  BY <1>1, <1>2, TransportEnds, IxReadyFacts DEF Moves

(* The transport worker leaves an empty queue. *)
DrainStacks == {<<"clear", "publish", "final">>, <<"publish", "final">>, <<"final">>}
DrainInv == pc["teardown"] \in DrainStacks => queue = <<>>

LEMMA DrainStep ==
    ASSUME NEW c, IxReady(c), DrainInv, [Next]_vars
    PROVE  DrainInv'
<1>. USE DEF flagVars, teardownVars, queueVars
<1>0. /\ c # "teardown" /\ "ix" \in Threads /\ "worker" \in Threads /\ "teardown" \in Threads
      /\ pc \in [Threads -> Seq(Steps)] /\ c \in Threads /\ c # "ix" /\ c # "worker"
  BY IxReadyFacts
<1>a. DrainStacks \subseteq JoinedStacks /\ DrainStacks \subseteq WorkerJoinedStacks
  BY DEF DrainStacks, JoinedStacks, WorkerJoinedStacks
<1>b. pc["teardown"] \in DrainStacks => stopping /\ pc["ix"] = <<>> /\ pc["worker"] = <<>>
  BY <1>a DEF IxReady, StopInv, StopWaits, StopLeaves, StreamShapes
<1>1. CASE UNCHANGED vars
  BY <1>1 DEF vars, DrainInv
<1>2. CASE IxStep \/ Environment \/ GapStep("ix")
  <2>1. PICK next : Go("ix", next)
    BY <1>2, IxGoes
  <2>2. pc["ix"] # <<>> /\ pc'["teardown"] = pc["teardown"]
    BY <1>0, <1>2, <2>1, IxGoes DEF Go
  <2>. QED  BY <1>b, <2>2 DEF DrainInv
<1>3. CASE WorkerStep \/ GapStep("worker")
  <2>1. PICK next : Go("worker", next)
    BY <1>3, WorkerGoes
  <2>2. pc["worker"] # <<>> /\ pc'["teardown"] = pc["teardown"]
    BY <1>0, <1>3, <2>1, WorkerGoes DEF Go
  <2>. QED  BY <1>b, <2>2 DEF DrainInv
<1>4. CASE CallerSteps(c) \/ GapStep(c) \/ TeardownStep(c)
  <2>1. ~stopping
    BY <1>4, CallerWaits
  <2>2. pc["teardown"] \in {<<>>, <<"wait">>}
    BY <2>1, NotWaiting DEF IxReady, StopInv, StopShapes, StopWaits, StreamShapes
  <2>3. pc'["teardown"] \in {pc["teardown"], <<"wait">>}
    <3>1. CASE CallerMovesOn(c)
      BY <1>0, <3>1, CallerPasses DEF Moves
    <3>2. CASE ConnectRetire(c) /\ ~At(c, "retire")
      BY <1>0, <3>2, CallerRetires DEF Moves
    <3>3. CASE ConnectStart(c) /\ state = "DISCONNECTED"
      BY <1>0, <3>3, CallerStarts DEF Moves
    <3>4. CASE ConnectLaunch(c)
      BY <3>4, CallerLaunches
    <3>5. CASE Disconnect(c)
      BY <1>0, <3>5, CallerDisconnects DEF Moves
    <3>6. CASE TeardownStep(c)
      BY <1>0, <3>6, CallerTears DEF Moves
    <3>7. CASE GapStep(c)
      <4>1. \E next : Go(c, next)
        BY <3>7 DEF GapStep, MarkGap, DiscardPending, StreamGapCallback, ResnapshotCheck,
           ResnapshotExchange, ResnapshotClose, UserCallback
      <4>. QED  BY <1>0, <4>1 DEF Go
    <3>. QED  BY <1>4, <3>1, <3>2, <3>3, <3>4, <3>5, <3>6, <3>7
                 DEF CallerSteps, CallStep, CallerMovesOn
  <2>4. pc'["teardown"] \notin DrainStacks
    BY <2>2, <2>3 DEF DrainStacks
  <2>. QED  BY <2>4 DEF DrainInv
<1>5. CASE TransportStep
  <2>1. pc'["teardown"] \notin DrainStacks
    <3>1. CASE TransportWake
      <4>1. pc'["teardown"] \in JoinStacks
        BY <1>0, <3>1, TransportWakes DEF Moves
      <4>. QED  BY <4>1 DEF JoinStacks, DrainStacks
    <3>2. CASE TransportFinal
      <4>1. pc'["teardown"] = <<>>
        BY <1>0, <3>2, TransportEnds DEF Moves
      <4>. QED  BY <4>1 DEF DrainStacks
    <3>. QED  BY <1>5, <3>1, <3>2 DEF TransportStep
  <2>. QED  BY <2>1 DEF DrainInv
<1>6. CASE TeardownStep("teardown")
  <2>1. pc["teardown"] \in JoinStacks \cup JoinedStacks /\ pc'["teardown"] = Tail(pc["teardown"])
    BY <1>6, TransportTears
  <2>2. ASSUME pc'["teardown"] \in DrainStacks PROVE queue' = <<>>
    <3>1. pc["teardown"] \in DrainStacks \/ pc["teardown"] = <<"reset", "clear", "publish",
                                                               "final">>
      BY <2>1, <2>2, TeardownTails DEF DrainStacks
    <3>2. CASE pc["teardown"] \in DrainStacks
      <4>1. queue = <<>>
        BY <3>2 DEF DrainInv
      <4>. QED  BY <1>6, <4>1 DEF TeardownStep, WsStop, StopMessageWorker, Publish
    <3>3. CASE pc["teardown"] = <<"reset", "clear", "publish", "final">>
      BY <1>6, <3>3 DEF At, TeardownStep, WsStop, StopMessageWorker, Publish
    <3>. QED  BY <3>1, <3>2, <3>3
  <2>. QED  BY <2>2 DEF DrainInv
<1>. QED  BY <1>1, <1>2, <1>3, <1>4, <1>5, <1>6, WhoSteps DEF CallerSteps

LEMMA AskingKinds ==
    /\ AskingStacks("poll") \subseteq OpenStacks \ {<<"restore", "poll">>}
    /\ \A s \in DialStacks \cup OpeningStacks : s \notin OpenStacks
    /\ \A y \in Marked : <<"discard", y, Base(y)>> \in OpenStacks => y = "close"
    /\ \A y \in Marked : <<"gap", y, Base(y)>> \in OpenStacks => y = "close"
    /\ \A y \in Marked : <<y, Base(y)>> \in OpenStacks => y = "close"
<1>1. AskingStacks("poll") \subseteq OpenStacks \ {<<"restore", "poll">>}
  BY StacksApart DEF OpenStacks, FlowingStacks
<1>2. \A s \in DialStacks \cup OpeningStacks : s \notin OpenStacks
  BY StacksApart
<1>3. ASSUME NEW y \in Marked, NEW s \in {<<"discard", y, Base(y)>>, <<"gap", y, Base(y)>>,
                                          <<y, Base(y)>>}, s \in OpenStacks
      PROVE  y = "close"
  <2>1. s \notin FlowingStacks /\ (s \in AskingStacks("poll") <=> y = "close")
    BY <1>3, MarkingKeeps
  <2>. QED  BY <1>3, <2>1 DEF OpenStacks
<1>. QED  BY <1>1, <1>2, <1>3

LEMMA SubIx ==
    ASSUME NEW c, IxReady(c), RunInv(c), SubInv, ~stopping, IxStep \/ Environment \/ GapStep("ix")
    PROVE  SubInv'
<1>. DEFINE S == OpenStacks \ {<<"restore", "poll">>}
            Sub == ix.subscribed \/ ix.conn # "open"
            SubN == ix'.subscribed \/ ix'.conn # "open"
<1>0. SubInv' <=> (~stopping' /\ pc'["ix"] \in S => SubN)
  BY DEF SubInv
<1>i. pc["ix"] \in S => Sub
  BY DEF SubInv
<1>k. {<<"poll">>, <<"on_connect", "poll">>, <<"enqueue", "poll">>,
        <<"stamp", "poll">>, <<"push", "poll">>, <<"resnapshot", "poll">>} \subseteq S
  BY StackKinds
<1>s. SocketKeeps => (Sub <=> SubN)
  BY DEF SocketKeeps
<1>1. CASE IxLeaves
  BY <1>0, <1>1, AskingKinds, StackKinds DEF IxLeaves
<1>2. CASE IxAsks
  BY <1>0, <1>2, <1>i, <1>s, AskingKinds DEF IxAsks
<1>3. CASE IxAsked
  BY <1>0, <1>3, <1>i, <1>s, AskingKinds DEF IxAsked
<1>4. CASE IxOpens
  BY <1>0, <1>4 DEF IxOpens, IxFrom
<1>5. CASE IxRestores
  BY <1>0, <1>5 DEF IxRestores
<1>6. CASE IxFlows
  BY <1>0, <1>6, <1>i, <1>k, <1>s DEF IxFlows, IxFrom
<1>7. CASE IxSkips
  BY <1>0, <1>7, <1>i, <1>k, <1>s DEF IxSkips, IxFrom
<1>8. CASE IxStamps
  BY <1>0, <1>8, <1>i, <1>k, <1>s DEF IxStamps, IxFrom
<1>9. CASE IxPushes
  BY <1>0, <1>9, <1>i, <1>k, <1>s DEF IxPushes, IxFrom
<1>10. CASE IxMarks
  <2>1. PICK y \in Marked :
          /\ pc["ix"] \in {<<"mark", y, Base(y)>>, <<"discard", y, Base(y)>>, <<"gap", y, Base(y)>>}
          /\ pc'["ix"] \in {<<"discard", y, Base(y)>>, <<"gap", y, Base(y)>>, <<y, Base(y)>>}
          /\ ix' = ix
    BY <1>10 DEF IxMarks, IxFrom
  <2>2. pc'["ix"] \in S => y = "close"
    BY <2>1, AskingKinds
  <2>3. y = "close" => pc["ix"] \in AskingStacks("poll")
    BY <2>1, MarkingKeeps
  <2>4. Sub <=> SubN
    BY <2>1
  <2>. QED  BY <1>0, <1>i, <2>2, <2>3, <2>4, AskingKinds
<1>. QED  BY <1>1, <1>2, <1>3, <1>4, <1>5, <1>6, <1>7, <1>8, <1>9, <1>10, IxDoes

LEMMA SubStep ==
    ASSUME NEW c, IxReady(c), RunInv(c), SubInv, [Next]_vars
    PROVE  SubInv'
<1>1. CASE UNCHANGED vars
  BY <1>1 DEF vars, SubInv
<1>2. CASE Next /\ stopping
  <2>1. ~stopping' => pc'["ix"] = <<>>
    BY <1>2, StopIdle
  <2>2. <<>> \notin OpenStacks
    BY StackKinds, StacksApart DEF DialStacks
  <2>. QED  BY <2>1, <2>2 DEF SubInv
<1>3. CASE Next /\ ~stopping
  BY <1>3, IxOrOther, SubIx, SubOther
<1>. QED  BY <1>1, <1>2, <1>3

(* The same for the message worker and for the caller. *)
Marks(t) ==
    \/ /\ gen' = gen + 1 /\ mark' = [mark EXCEPT ![t] = gen + 1]
       /\ recv' = 0 /\ got' = 0 /\ UNCHANGED <<epoch, queue, msg>>
    \/ queue' = <<>> /\ UNCHANGED <<gen, mark, epoch, recv, got, msg>>
    \/ UNCHANGED <<gen, mark, recv, got, queue, msg>>
Idles == {<<>>, <<"done">>, <<"loop">>, <<"pop">>, <<"typed", "loop">>}
WorkerIdles ==
    /\ StreamKeeps /\ SocketKeeps /\ UNCHANGED resnap
    /\ pc["worker"] \in Idles /\ pc'["worker"] \in Idles
WorkerAsking == StreamKeeps /\ pc'["worker"] \in AskingStacks("loop")
WorkerAsked ==
    /\ StreamKeeps /\ pc["worker"] \in AskingStacks("loop") /\ pc'["worker"] = <<"loop">>
    /\ resnap' \/ ix'.conn # "open"
WorkerTakes ==
    /\ UNCHANGED <<gen, mark, epoch, recv, got, resnap>> /\ SocketKeeps
    /\ queue # <<>> /\ queue' = Tail(queue) /\ msg' = [msg EXCEPT !["worker"] = Head(queue)]
    /\ pc["worker"] = <<"pop">> /\ pc'["worker"] = <<"message", "loop">>
WorkerHolds ==
    /\ StreamKeeps /\ SocketKeeps /\ UNCHANGED resnap
    /\ pc["worker"] \in HoldingStacks /\ pc'["worker"] \in HoldingStacks
WorkerDrops ==
    /\ StreamKeeps /\ SocketKeeps /\ UNCHANGED resnap
    /\ pc["worker"] \in HoldingStacks /\ pc'["worker"] = <<"loop">> /\ msg["worker"].gen # gen
WorkerHands ==
    /\ UNCHANGED <<gen, mark, epoch, recv, queue, msg, resnap>> /\ SocketKeeps
    /\ pc["worker"] = <<"deliver", "loop">>
    /\ pc'["worker"] \in {<<"typed", "loop">>, <<"resnapshot", "loop">>}
    /\ got' = IF msg["worker"].gen = epoch /\ msg["worker"].gen = gen THEN msg["worker"].n ELSE got
WorkerMarks ==
    /\ pc["worker"] \in AskingStacks("loop") /\ pc'["worker"] \in AskingStacks("loop")
    /\ Marks("worker")

LEMMA WorkerDoes ==
    ASSUME NEW c, IxReady(c), RunInv(c), ~stopping, WorkerStep \/ GapStep("worker")
    PROVE  /\ pc'["ix"] = pc["ix"] /\ pc'["teardown"] = pc["teardown"] /\ pc'[c] = pc[c]
           /\ UNCHANGED <<state, stopping>>
           /\ \/ WorkerIdles \/ WorkerAsking \/ WorkerAsked \/ WorkerTakes \/ WorkerHolds
              \/ WorkerDrops \/ WorkerHands \/ WorkerMarks
<1>. USE DEF flagVars, queueVars, streamVars
<1>0. /\ "ix" \in Threads /\ "worker" \in Threads /\ pc \in [Threads -> Seq(Steps)]
      /\ c # "worker" /\ c \in Threads /\ "teardown" \in Threads /\ ix \in IxType
      /\ pc["worker"] # <<>> /\ UNCHANGED <<state, stopping>>
  BY IxReadyFacts, WorkerGoes
<1>1. PICK next : Go("worker", next)
  BY WorkerGoes
<1>2. pc'["ix"] = pc["ix"] /\ pc'["teardown"] = pc["teardown"] /\ pc'[c] = pc[c]
  BY <1>0, <1>1 DEF Go
<1>m. ASSUME NEW from, NEW to, Moves("worker", from, to)
      PROVE  pc["worker"] = from /\ pc'["worker"] = to
  BY <1>0, <1>m DEF Moves
<1>a. {<<"resnapshot", "loop">>, <<"exchange", "loop">>, <<"mark", "close", "loop">>,
       <<"discard", "close", "loop">>, <<"gap", "close", "loop">>,
       <<"close", "loop">>} \subseteq AskingStacks("loop")
  BY DEF AskingStacks
<1>h. {<<"message", "loop">>, <<"sequenced", "loop">>,
       <<"deliver", "loop">>} \subseteq HoldingStacks
  BY DEF HoldingStacks
<1>i. {<<"done">>, <<"loop">>, <<"pop">>, <<"typed", "loop">>} \subseteq Idles
  BY DEF Idles
<1>r. running
  BY <1>0, CallerReady DEF RunInv, Running, IxReady, StreamShapes
<1>3. CASE WorkerLoop \/ Pop
  <2>1. UNCHANGED <<gen, mark, epoch, recv, got, resnap>> /\ SocketKeeps
    BY <1>3 DEF WorkerLoop, Pop, SocketKeeps
  <2>2. CASE Moves("worker", <<"loop">>, <<"pop">>) /\ UNCHANGED <<queue, msg>>
    BY <1>0, <1>2, <1>i, <1>m, <2>1, <2>2 DEF WorkerIdles, StreamKeeps
  <2>3. CASE Moves("worker", <<"pop">>, <<"done">>) /\ UNCHANGED <<queue, msg>>
    BY <1>0, <1>2, <1>i, <1>m, <2>1, <2>3 DEF WorkerIdles, StreamKeeps
  <2>4. CASE Moves("worker", <<"pop">>, <<"resnapshot", "loop">>) /\ UNCHANGED <<queue, msg>>
    BY <1>0, <1>2, <1>a, <1>m, <2>1, <2>4 DEF WorkerAsking, StreamKeeps
  <2>5. CASE /\ queue # <<>> /\ Moves("worker", <<"pop">>, <<"message", "loop">>)
             /\ msg' = [msg EXCEPT !["worker"] = Head(queue)] /\ queue' = Tail(queue)
    BY <1>0, <1>2, <1>m, <2>1, <2>5 DEF WorkerTakes
  <2>. QED  BY <1>3, <1>r, <2>2, <2>3, <2>4, <2>5, WorkerPops
<1>4. CASE DispatchMessage
  <2>1. StreamKeeps /\ SocketKeeps /\ UNCHANGED resnap
    BY <1>4 DEF DispatchMessage, StreamKeeps, SocketKeeps
  <2>2. ASSUME Superseded PROVE msg["worker"].gen # gen
    BY <1>r, <2>2 DEF Superseded
  <2>3. CASE \/ Moves("worker", <<"message", "loop">>, <<"loop">>)
             \/ Moves("worker", <<"sequenced", "loop">>, <<"loop">>)
    <3>1. /\ pc["worker"] \in {<<"message", "loop">>, <<"sequenced", "loop">>}
          /\ pc'["worker"] = <<"loop">>
      BY <1>m, <2>3
    <3>2. msg["worker"].gen # gen
      BY <1>4, <1>m, <2>2, <3>1, WorkerDispatches
    <3>. QED  BY <1>0, <1>2, <1>h, <2>1, <3>1, <3>2 DEF WorkerDrops
  <2>4. CASE \/ Moves("worker", <<"message", "loop">>, <<"sequenced", "loop">>)
             \/ Moves("worker", <<"sequenced", "loop">>, <<"deliver", "loop">>)
    BY <1>0, <1>2, <1>h, <1>m, <2>1, <2>4 DEF WorkerHolds
  <2>5. CASE \/ Moves("worker", <<"message", "loop">>, <<"resnapshot", "loop">>)
             \/ Moves("worker", <<"typed", "loop">>, <<"resnapshot", "loop">>)
    BY <1>0, <1>2, <1>a, <1>m, <2>1, <2>5 DEF WorkerAsking
  <2>6. CASE Moves("worker", <<"typed", "loop">>, <<"loop">>)
    BY <1>0, <1>2, <1>i, <1>m, <2>1, <2>6 DEF WorkerIdles
  <2>. QED  BY <1>4, <2>3, <2>4, <2>5, <2>6, WorkerDispatches
<1>5. CASE Deliver
  <2>1. /\ UNCHANGED <<gen, mark, epoch, recv, queue, msg, resnap>> /\ SocketKeeps
        /\ got' = IF msg["worker"].gen = epoch /\ msg["worker"].gen = gen
                  THEN msg["worker"].n ELSE got
    BY <1>5 DEF Deliver, SocketKeeps
  <2>2. /\ pc["worker"] = <<"deliver", "loop">>
        /\ pc'["worker"] \in {<<"typed", "loop">>, <<"resnapshot", "loop">>}
    BY <1>5, <1>m, WorkerDelivers
  <2>. QED  BY <1>0, <1>2, <2>1, <2>2 DEF WorkerHands
<1>6. CASE MarkGap("worker")
  <2>1. /\ Moves("worker", <<"mark", "close", "loop">>, <<"discard", "close", "loop">>)
        /\ gen' = gen + 1 /\ mark' = [mark EXCEPT !["worker"] = gen + 1]
        /\ recv' = 0 /\ got' = 0
    BY <1>6, WorkerAsks
  <2>2. UNCHANGED <<epoch, queue, msg>>
    BY <1>6 DEF MarkGap
  <2>3. Marks("worker")
    BY <2>1, <2>2 DEF Marks
  <2>. QED  BY <1>0, <1>2, <1>a, <1>m, <2>1, <2>3 DEF WorkerMarks
<1>7. CASE DiscardPending("worker")
  <2>1. Moves("worker", <<"discard", "close", "loop">>, <<"gap", "close", "loop">>)
    BY <1>7, WorkerAsks
  <2>2. Marks("worker")
    BY <1>7 DEF DiscardPending, Marks
  <2>. QED  BY <1>0, <1>2, <1>a, <1>m, <2>1, <2>2 DEF WorkerMarks
<1>8. CASE StreamGapCallback("worker")
  <2>1. Moves("worker", <<"gap", "close", "loop">>, <<"close", "loop">>)
    BY <1>8, WorkerAsks
  <2>2. Marks("worker")
    BY <1>8 DEF StreamGapCallback, Marks
  <2>. QED  BY <1>0, <1>2, <1>a, <1>m, <2>1, <2>2 DEF WorkerMarks
<1>9. CASE ResnapshotCheck("worker")
  <2>1. Moves("worker", <<"resnapshot", "loop">>, <<"exchange", "loop">>)
    BY <1>9, WorkerAsks
  <2>2. StreamKeeps
    BY <1>9 DEF ResnapshotCheck, StreamKeeps
  <2>. QED  BY <1>0, <1>2, <1>a, <1>m, <2>1, <2>2 DEF WorkerAsking
<1>10. CASE ResnapshotExchange("worker")
  <2>1. StreamKeeps /\ resnap'
    BY <1>10 DEF ResnapshotExchange, StreamKeeps
  <2>2. CASE Moves("worker", <<"exchange", "loop">>, <<"loop">>)
    BY <1>0, <1>2, <1>a, <1>m, <2>1, <2>2 DEF WorkerAsked
  <2>3. CASE Moves("worker", <<"exchange", "loop">>, <<"mark", "close", "loop">>)
    BY <1>0, <1>2, <1>a, <1>m, <2>1, <2>3 DEF WorkerAsking
  <2>. QED  BY <1>10, <2>2, <2>3, WorkerAsks
<1>11. CASE ResnapshotClose("worker")
  <2>1. Moves("worker", <<"close", "loop">>, <<"loop">>)
    BY <1>11, WorkerAsks
  <2>2. StreamKeeps
    BY <1>11 DEF ResnapshotClose, StreamKeeps
  <2>3. ix'.conn # "open"
    BY <1>0, <1>11, CloseFields
  <2>. QED  BY <1>0, <1>2, <1>a, <1>m, <2>1, <2>2, <2>3 DEF WorkerAsked
<1>. QED  BY <1>3, <1>4, <1>5, <1>6, <1>7, <1>8, <1>9, <1>10, <1>11 DEF WorkerStep, GapStep

DataKeeps == UNCHANGED <<gen, mark, epoch, recv, got, msg>> /\ queue' \in {queue, <<>>}
LibraryStays == pc'["ix"] = pc["ix"] /\ pc'["worker"] = pc["worker"]
CallPasses(c) ==
    StreamKeeps /\ SocketKeeps /\ UNCHANGED resnap /\ LibraryStays /\ pc[c] \notin GapCalls
CallAsked(c) ==
    /\ StreamKeeps /\ LibraryStays /\ (resnap' \/ ix'.conn # "open")
    /\ pc[c] \in GapCalls \cup {<<"exchange">>}
CallLaunches(c) ==
    /\ DataKeeps /\ state = "DISCONNECTED"
    /\ \/ pc'["worker"] = pc["worker"]
       \/ pc["worker"] \in {<<>>, <<"done">>} /\ pc'["worker"] = <<"loop">>
    /\ \/ pc'["ix"] = pc["ix"]
       \/ pc["ix"] = <<>> /\ pc'["ix"] = <<"dial">>
CallStops(c) ==
    DataKeeps /\ LibraryStays /\ (stopping' \/ pc'["ix"] = <<>>)
CallMarks(c) == LibraryStays /\ pc[c] \in GapCalls /\ pc'[c] \in GapCalls /\ Marks(c)

LEMMA CallerDoes ==
    ASSUME NEW c, IxReady(c), ~stopping, CallerSteps(c) \/ GapStep(c) \/ TeardownStep(c)
    PROVE  \/ CallPasses(c) \/ CallAsked(c) \/ CallLaunches(c) \/ CallStops(c)
           \/ CallMarks(c)
<1>. USE DEF flagVars, teardownVars, queueVars, streamVars
<1>0. /\ "ix" \in Threads /\ "worker" \in Threads /\ pc \in [Threads -> Seq(Steps)]
      /\ c # "worker" /\ c # "ix" /\ c \in Threads /\ ix \in IxType
  BY IxReadyFacts
<1>m. ASSUME NEW from, NEW to, Moves(c, from, to)
      PROVE  pc[c] = from /\ pc'[c] = to /\ LibraryStays
  BY <1>0, <1>m DEF Moves, LibraryStays
<1>q. /\ \A s \in QuietCalls : s \notin GapCalls
      /\ {<<"start">>, <<"exchange">>, <<"resnapshot">>, <<>>} \subseteq QuietCalls
      /\ {<<"mark", "close">>, <<"discard", "close">>, <<"gap", "close">>, <<"close">>} = GapCalls
  BY CallKinds DEF QuietCalls, GapCalls
<1>1. CASE CallerMovesOn(c)
  <2>1. StreamKeeps /\ SocketKeeps /\ UNCHANGED resnap
    BY <1>1, CallerPasses DEF StreamKeeps, SocketKeeps
  <2>2. PICK from \in QuietCalls : \E to : Moves(c, from, to)
    BY <1>1, CallerPasses
  <2>. QED  BY <1>m, <1>q, <2>1, <2>2 DEF CallPasses
<1>2. CASE ConnectRetire(c) /\ ~At(c, "retire")
  <2>1. DataKeeps /\ (stopping' <=> active) /\ \E from, to : Moves(c, from, to)
    BY <1>2, CallerRetires DEF DataKeeps
  <2>2. LibraryStays
    BY <1>m, <2>1
  <2>3. stopping' \/ pc'["ix"] = <<>>
    BY <2>1, <2>2, CallerReady DEF LibraryStays
  <2>. QED  BY <2>1, <2>2, <2>3 DEF CallStops, LibraryStays
<1>3. CASE ConnectStart(c) /\ state = "DISCONNECTED"
  <2>1. StreamKeeps /\ SocketKeeps /\ UNCHANGED resnap /\ DataKeeps
    BY <1>3, CallerStarts DEF StreamKeeps, SocketKeeps, DataKeeps
  <2>2. pc[c] = <<"start">> /\ LibraryStays
    BY <1>0, <1>3, CallerStarts DEF LibraryStays, Moves
  <2>. QED  BY <1>q, <2>1, <2>2 DEF CallPasses
<1>4. CASE ConnectLaunch(c)
  <2>1. DataKeeps /\ (running \/ pc["worker"] \in {<<>>, <<"done">>})
    BY <1>4 DEF ConnectLaunch, DataKeeps
  <2>. QED  BY <1>4, <2>1, CallerLaunches DEF CallLaunches
<1>5. CASE Disconnect(c)
  <2>1. DataKeeps /\ (stopping' <=> active) /\ \E from, to : Moves(c, from, to)
    BY <1>5, CallerDisconnects DEF DataKeeps
  <2>2. LibraryStays
    BY <1>m, <2>1
  <2>3. stopping' \/ pc'["ix"] = <<>>
    BY <2>1, <2>2, CallerReady DEF LibraryStays
  <2>. QED  BY <2>1, <2>2, <2>3 DEF CallStops, LibraryStays
<1>6. CASE TeardownStep(c)
  <2>1. UNCHANGED <<gen, mark, epoch, recv, got, msg>>
    BY <1>6, CallerTears
  <2>2. queue' \in {queue, <<>>}
    BY <1>6 DEF TeardownStep, WsStop, StopMessageWorker, Publish
  <2>3. LibraryStays /\ pc["ix"] = <<>>
    BY <1>6, <1>m, CallerTears
  <2>. QED  BY <2>1, <2>2, <2>3 DEF CallStops, LibraryStays, DataKeeps
<1>7. CASE MarkGap(c)
  <2>1. /\ Moves(c, <<"mark", "close">>, <<"discard", "close">>)
        /\ gen' = gen + 1 /\ mark' = [mark EXCEPT ![c] = gen + 1]
        /\ recv' = 0 /\ got' = 0
    BY <1>7, CallerAsks
  <2>2. UNCHANGED <<epoch, queue, msg>>
    BY <1>7 DEF MarkGap
  <2>3. Marks(c)
    BY <2>1, <2>2 DEF Marks
  <2>. QED  BY <1>m, <1>q, <2>1, <2>3 DEF CallMarks
<1>8. CASE DiscardPending(c)
  <2>1. Moves(c, <<"discard", "close">>, <<"gap", "close">>)
    BY <1>8, CallerAsks
  <2>2. Marks(c)
    BY <1>8 DEF DiscardPending, Marks
  <2>. QED  BY <1>m, <1>q, <2>1, <2>2 DEF CallMarks
<1>9. CASE StreamGapCallback(c)
  <2>1. Moves(c, <<"gap", "close">>, <<"close">>)
    BY <1>9, CallerAsks
  <2>2. Marks(c)
    BY <1>9 DEF StreamGapCallback, Marks
  <2>. QED  BY <1>m, <1>q, <2>1, <2>2 DEF CallMarks
<1>10. CASE ResnapshotCheck(c)
  <2>1. pc[c] = <<"resnapshot">> /\ LibraryStays
    BY <1>10, <1>m, CallerAsks
  <2>2. StreamKeeps /\ SocketKeeps /\ UNCHANGED resnap
    BY <1>10 DEF ResnapshotCheck, StreamKeeps, SocketKeeps
  <2>. QED  BY <1>q, <2>1, <2>2 DEF CallPasses
<1>11. CASE ResnapshotExchange(c)
  <2>1. StreamKeeps /\ resnap'
    BY <1>11 DEF ResnapshotExchange, StreamKeeps
  <2>2. LibraryStays /\ pc[c] = <<"exchange">>
    BY <1>11, <1>m, CallerAsks
  <2>. QED  BY <2>1, <2>2 DEF CallAsked
<1>12. CASE ResnapshotClose(c)
  <2>1. LibraryStays /\ pc[c] \in GapCalls
    BY <1>12, <1>m, <1>q, CallerAsks
  <2>2. StreamKeeps
    BY <1>12 DEF ResnapshotClose, StreamKeeps
  <2>3. ix'.conn # "open"
    BY <1>0, <1>12, CloseFields
  <2>. QED  BY <2>1, <2>2, <2>3 DEF CallAsked
<1>. QED  BY <1>1, <1>2, <1>3, <1>4, <1>5, <1>6, <1>7, <1>8, <1>9, <1>10, <1>11, <1>12
             DEF CallerSteps, CallStep, CallerMovesOn, GapStep

LEMMA CallerKeeps ==
    ASSUME NEW c, IxReady(c), ~stopping, CallerSteps(c) \/ GapStep(c) \/ TeardownStep(c)
    PROVE  /\ msg' = msg /\ queue' \in {queue, <<>>}
           /\ UNCHANGED <<gen, recv, got>> \/ (gen' = gen + 1 /\ recv' = 0 /\ got' = 0)
           /\ pc'["worker"] \in {pc["worker"], <<"loop">>}
<1>1. CASE CallPasses(c)
  BY <1>1 DEF CallPasses, StreamKeeps, LibraryStays
<1>2. CASE CallAsked(c)
  BY <1>2 DEF CallAsked, StreamKeeps, LibraryStays
<1>3. CASE CallLaunches(c)
  <2>1. DataKeeps /\ pc'["worker"] \in {pc["worker"], <<"loop">>}
    BY <1>3 DEF CallLaunches
  <2>. QED  BY <2>1 DEF DataKeeps
<1>4. CASE CallStops(c)
  <2>1. DataKeeps /\ pc'["worker"] = pc["worker"]
    BY <1>4 DEF CallStops, LibraryStays
  <2>. QED  BY <2>1 DEF DataKeeps
<1>5. CASE CallMarks(c)
  BY <1>5 DEF CallMarks, Marks, LibraryStays
<1>. QED  BY <1>1, <1>2, <1>3, <1>4, <1>5, CallerDoes

(* A message on its way carries a generation that was drawn, and a number that was given out
   in it; `n' counts from 1. *)
StampAt(m, g, r) == m.gen <= g /\ m.n >= 1 /\ (m.gen = g => m.n <= r)
StampInv ==
    ~stopping =>
      /\ \A i \in DOMAIN queue : StampAt(queue[i], gen, recv)
      /\ pc["worker"] \in HoldingStacks => StampAt(msg["worker"], gen, recv)
      /\ pc["ix"] = <<"push", "poll">> => StampAt(msg["ix"], gen, recv)

LEMMA StreamTypes ==
    ASSUME NEW c, IxReady(c)
    PROVE  /\ queue \in Seq(Messages) /\ Len(queue) \in Nat
           /\ gen \in Nat /\ recv \in Nat /\ got \in Nat /\ epoch \in Nat
           /\ mark \in [Threads -> Nat]
           /\ msg \in [{"ix", "worker"} -> Messages]
           /\ msg["ix"] \in Messages /\ msg["worker"] \in Messages
           /\ resnap \in BOOLEAN /\ stopping \in BOOLEAN
           /\ \A i \in DOMAIN queue : queue[i] \in Messages
<1>1. QueueOK /\ StreamOK /\ MsgOK /\ FlagsOK
  BY DEF IxReady, StopInv, TypeParts
<1>. QED  BY <1>1 DEF QueueOK, StreamOK, MsgOK, FlagsOK

LEMMA StreamTypesNext ==
    ASSUME NEW c, IxReady(c)'
    PROVE  gen' \in Nat /\ recv' \in Nat /\ got' \in Nat /\ queue' \in Seq(Messages)
<1>1. QueueOK' /\ StreamOK'
  BY DEF IxReady, StopInv, TypeParts
<1>. QED  BY <1>1 DEF QueueOK, StreamOK

LEMMA StampKeeps ==
    ASSUME NEW m \in Messages, NEW g \in Nat, NEW r \in Nat, NEW g2 \in Nat, NEW r2 \in Nat,
           StampAt(m, g, r), (g2 = g /\ r2 >= r) \/ g2 = g + 1
    PROVE  StampAt(m, g2, r2)
BY DEF StampAt, Messages

LEMMA StampSame ==
    ASSUME NEW c, IxReady(c), IxReady(c)', StampInv, ~stopping,
           (gen' = gen /\ recv' >= recv) \/ gen' = gen + 1,
           queue' \in {queue, <<>>},
           pc'["worker"] \in HoldingStacks =>
              pc["worker"] \in HoldingStacks /\ msg'["worker"] = msg["worker"],
           pc'["ix"] = <<"push", "poll">> =>
              pc["ix"] = <<"push", "poll">> /\ msg'["ix"] = msg["ix"]
    PROVE  StampInv'
<1>1. /\ gen \in Nat /\ recv \in Nat /\ gen' \in Nat /\ recv' \in Nat
      /\ msg["ix"] \in Messages /\ msg["worker"] \in Messages
      /\ \A i \in DOMAIN queue : queue[i] \in Messages
  BY StreamTypes, StreamTypesNext
<1>2. /\ \A i \in DOMAIN queue : StampAt(queue[i], gen, recv)
      /\ pc["worker"] \in HoldingStacks => StampAt(msg["worker"], gen, recv)
      /\ pc["ix"] = <<"push", "poll">> => StampAt(msg["ix"], gen, recv)
  BY DEF StampInv
<1>3. ASSUME NEW m \in Messages, StampAt(m, gen, recv) PROVE StampAt(m, gen', recv')
  BY <1>1, <1>3, StampKeeps
<1>4. \A i \in DOMAIN queue' : StampAt(queue'[i], gen', recv')
  <2>1. CASE queue' = queue
    BY <1>1, <1>2, <1>3, <2>1
  <2>2. CASE queue' = <<>>
    BY <2>2
  <2>. QED  BY <2>1, <2>2
<1>5. pc'["worker"] \in HoldingStacks => StampAt(msg'["worker"], gen', recv')
  BY <1>1, <1>2, <1>3
<1>6. pc'["ix"] = <<"push", "poll">> => StampAt(msg'["ix"], gen', recv')
  BY <1>1, <1>2, <1>3
<1>. QED  BY <1>4, <1>5, <1>6 DEF StampInv

LEMMA StampIx ==
    ASSUME NEW c, IxReady(c), IxReady(c)', RunInv(c), StampInv, ~stopping,
           IxStep \/ Environment \/ GapStep("ix")
    PROVE  StampInv'
<1>0. /\ gen \in Nat /\ recv \in Nat /\ gen' \in Nat /\ recv' \in Nat /\ queue \in Seq(Messages)
      /\ msg \in [{"ix", "worker"} -> Messages] /\ msg["ix"] \in Messages
      /\ msg["worker"] \in Messages /\ pc'["worker"] = pc["worker"]
      /\ \A i \in DOMAIN queue : queue[i] \in Messages
  BY StreamTypes, StreamTypesNext, IxDoes
<1>i. /\ \A i \in DOMAIN queue : StampAt(queue[i], gen, recv)
      /\ pc["worker"] \in HoldingStacks => StampAt(msg["worker"], gen, recv)
      /\ pc["ix"] = <<"push", "poll">> => StampAt(msg["ix"], gen, recv)
  BY DEF StampInv
<1>1. CASE IxLeaves
  <2>1. pc'["ix"] # <<"push", "poll">>
    BY <1>1, AskingKinds, StackKinds DEF IxLeaves
  <2>. QED  BY <1>0, <1>1, <2>1, StampSame DEF IxLeaves, StreamKeeps
<1>2. CASE IxAsks
  <2>1. pc'["ix"] # <<"push", "poll">>
    BY <1>2 DEF IxAsks, AskingStacks
  <2>. QED  BY <1>0, <1>2, <2>1, StampSame DEF IxAsks, StreamKeeps
<1>3. CASE IxAsked \/ IxOpens \/ IxRestores \/ IxFlows
  <2>1. pc'["ix"] # <<"push", "poll">>
    BY <1>3 DEF IxAsked, IxOpens, IxRestores, IxFlows, IxFrom
  <2>2. StreamKeeps
    BY <1>3 DEF IxAsked, IxOpens, IxRestores, IxFlows
  <2>. QED  BY <1>0, <2>1, <2>2, StampSame DEF StreamKeeps
<1>4. CASE IxSkips
  <2>1. pc'["ix"] # <<"push", "poll">>
    BY <1>4 DEF IxSkips, IxFrom
  <2>2. gen' = gen /\ recv' >= recv /\ queue' = queue /\ msg' = msg
    BY <1>0, <1>4 DEF IxSkips
  <2>. QED  BY <1>0, <2>1, <2>2, StampSame
<1>5. CASE IxStamps
  <2>1. /\ gen' = gen /\ recv' = recv + 1 /\ queue' = queue /\ msg'["worker"] = msg["worker"]
        /\ msg'["ix"] = [gen |-> gen, n |-> recv + 1]
    BY <1>0, <1>5 DEF IxStamps
  <2>2. ASSUME NEW m \in Messages, StampAt(m, gen, recv) PROVE StampAt(m, gen', recv')
    <3>1. gen' = gen /\ recv' >= recv
      BY <1>0, <2>1
    <3>. QED  BY <1>0, <2>2, <3>1, StampKeeps
  <2>3. StampAt(msg'["ix"], gen', recv')
    BY <1>0, <2>1 DEF StampAt
  <2>4. \A i \in DOMAIN queue' : StampAt(queue'[i], gen', recv')
    BY <1>0, <1>i, <2>1, <2>2
  <2>5. pc'["worker"] \in HoldingStacks => StampAt(msg'["worker"], gen', recv')
    BY <1>0, <1>i, <2>1, <2>2
  <2>. QED  BY <2>3, <2>4, <2>5 DEF StampInv
<1>6. CASE IxPushes
  <2>1. gen' = gen /\ recv' = recv /\ msg' = msg
    BY <1>6 DEF IxPushes
  <2>2. CASE queue' = <<>> /\ pc'["ix"] = <<"resnapshot", "poll">>
    BY <1>0, <2>1, <2>2, StampSame
  <2>3. CASE queue' = Append(queue, msg["ix"]) /\ IxFrom(<<"push", "poll">>, <<"poll">>)
    <3>1. pc["ix"] = <<"push", "poll">> /\ pc'["ix"] = <<"poll">>
      BY <2>3 DEF IxFrom
    <3>2. ASSUME NEW i \in DOMAIN queue' PROVE queue'[i] = msg["ix"] \/
             (i \in DOMAIN queue /\ queue'[i] = queue[i])
      BY <1>0, <2>3, <3>2
    <3>3. \A i \in DOMAIN queue' : StampAt(queue'[i], gen', recv')
      BY <1>i, <2>1, <3>1, <3>2
    <3>. QED  BY <1>0, <1>i, <2>1, <3>1, <3>3 DEF StampInv
  <2>. QED  BY <1>6, <2>2, <2>3 DEF IxPushes, IxFrom
<1>7. CASE IxMarks
  <2>1. PICK y \in Marked :
          /\ pc'["ix"] \in {<<"discard", y, Base(y)>>, <<"gap", y, Base(y)>>, <<y, Base(y)>>}
          /\ (gen' = gen /\ recv' = recv) \/ gen' = gen + 1
          /\ queue' \in {queue, <<>>} /\ msg' = msg
    BY <1>7 DEF IxMarks, IxFrom
  <2>2. pc'["ix"] # <<"push", "poll">>
    BY <2>1 DEF Marked
  <2>. QED  BY <1>0, <2>1, <2>2, StampSame
<1>. QED  BY <1>1, <1>2, <1>3, <1>4, <1>5, <1>6, <1>7, IxDoes

LEMMA StampWorker ==
    ASSUME NEW c, IxReady(c), IxReady(c)', RunInv(c), StampInv, ~stopping,
           WorkerStep \/ GapStep("worker")
    PROVE  StampInv'
<1>0. /\ gen \in Nat /\ recv \in Nat /\ gen' \in Nat /\ recv' \in Nat /\ queue \in Seq(Messages)
      /\ msg \in [{"ix", "worker"} -> Messages] /\ pc'["ix"] = pc["ix"]
  BY StreamTypes, StreamTypesNext, WorkerDoes
<1>i. /\ \A i \in DOMAIN queue : StampAt(queue[i], gen, recv)
      /\ pc["ix"] = <<"push", "poll">> => StampAt(msg["ix"], gen, recv)
  BY DEF StampInv
<1>a. /\ \A s \in Idles \cup AskingStacks("loop") : s \notin HoldingStacks
      /\ {<<"typed", "loop">>, <<"loop">>} \subseteq Idles
      /\ <<"resnapshot", "loop">> \in AskingStacks("loop")
      /\ <<"deliver", "loop">> \in HoldingStacks
  BY StacksApart DEF Idles, AskingStacks, HoldingStacks
<1>1. CASE WorkerIdles \/ WorkerAsking \/ WorkerAsked \/ WorkerHolds \/ WorkerDrops
  <2>1. StreamKeeps
    BY <1>1 DEF WorkerIdles, WorkerAsking, WorkerAsked, WorkerHolds, WorkerDrops
  <2>2. pc'["worker"] \in HoldingStacks => pc["worker"] \in HoldingStacks
    BY <1>1, <1>a DEF WorkerIdles, WorkerAsking, WorkerAsked, WorkerHolds, WorkerDrops
  <2>. QED  BY <1>0, <2>1, <2>2, StampSame DEF StreamKeeps
<1>2. CASE WorkerTakes
  <2>1. /\ gen' = gen /\ recv' = recv /\ queue # <<>> /\ queue' = Tail(queue)
        /\ msg'["worker"] = Head(queue) /\ msg'["ix"] = msg["ix"]
    BY <1>0, <1>2 DEF WorkerTakes
  <2>2. 1 \in DOMAIN queue /\ Head(queue) = queue[1]
    BY <1>0, <2>1
  <2>3. ASSUME NEW i \in DOMAIN queue' PROVE i + 1 \in DOMAIN queue /\ queue'[i] = queue[i + 1]
    BY <1>0, <2>1, <2>3
  <2>4. \A i \in DOMAIN queue' : StampAt(queue'[i], gen', recv')
    BY <1>i, <2>1, <2>3
  <2>5. StampAt(msg'["worker"], gen', recv')
    BY <1>i, <2>1, <2>2
  <2>. QED  BY <1>0, <1>i, <2>1, <2>4, <2>5 DEF StampInv
<1>3. CASE WorkerHands
  <2>1. gen' = gen /\ recv' = recv /\ queue' = queue /\ msg' = msg
    BY <1>3 DEF WorkerHands
  <2>2. pc'["worker"] \notin HoldingStacks
    BY <1>3, <1>a DEF WorkerHands
  <2>. QED  BY <1>0, <2>1, <2>2, StampSame
<1>4. CASE WorkerMarks
  <2>1. pc'["worker"] \notin HoldingStacks
    BY <1>4, <1>a DEF WorkerMarks
  <2>2. /\ (gen' = gen /\ recv' = recv) \/ gen' = gen + 1
        /\ queue' \in {queue, <<>>} /\ msg' = msg
    BY <1>4 DEF WorkerMarks, Marks
  <2>. QED  BY <1>0, <2>1, <2>2, StampSame
<1>. QED  BY <1>1, <1>2, <1>3, <1>4, WorkerDoes

LEMMA StampCaller ==
    ASSUME NEW c, IxReady(c), IxReady(c)', StampInv, ~stopping,
           CallerSteps(c) \/ GapStep(c) \/ TeardownStep(c)
    PROVE  StampInv'
<1>0. /\ gen \in Nat /\ recv \in Nat /\ gen' \in Nat /\ recv' \in Nat
      /\ <<"loop">> \notin HoldingStacks
  BY StreamTypes, StreamTypesNext DEF HoldingStacks
<1>1. /\ (gen' = gen /\ recv' = recv) \/ gen' = gen + 1
      /\ queue' \in {queue, <<>>} /\ msg' = msg
  BY CallerKeeps
<1>2. pc'["worker"] \in {pc["worker"], <<"loop">>}
  BY CallerKeeps
<1>3. pc'["ix"] \in {pc["ix"], <<>>, <<"dial">>}
  BY OtherIx DEF OtherStep
<1>4. pc'["ix"] = <<"push", "poll">> => pc["ix"] = <<"push", "poll">>
  BY <1>3
<1>. QED  BY <1>0, <1>1, <1>2, <1>4, StampSame

LEMMA StampStep ==
    ASSUME NEW c, IxReady(c), IxReady(c)', RunInv(c), DrainInv, StampInv, [Next]_vars
    PROVE  StampInv'
<1>1. CASE UNCHANGED vars
  BY <1>1 DEF vars, StampInv
<1>2. CASE Next /\ stopping
  <2>1. ASSUME ~stopping'
        PROVE  queue' = <<>> /\ pc'["worker"] \notin HoldingStacks /\ pc'["ix"] # <<"push", "poll">>
    <3>1. TransportFinal /\ pc'["ix"] = <<>> /\ pc'["worker"] = <<>> /\ pc["teardown"] = <<"final">>
      BY <1>2, <2>1, StopIdle
    <3>2. queue = <<>>
      BY <3>1 DEF DrainInv, DrainStacks
    <3>3. queue' = queue
      BY <3>1 DEF TransportFinal, queueVars
    <3>. QED  BY <3>1, <3>2, <3>3 DEF HoldingStacks
  <2>. QED  BY <2>1 DEF StampInv
<1>3. CASE Next /\ ~stopping
  <2>1. ~(TransportStep \/ TeardownStep("teardown"))
    BY <1>3, TransportWakes, TransportEnds, TransportTears DEF TransportStep
  <2>. QED  BY <1>3, <2>1, IxOrOther, StampIx, StampWorker, StampCaller DEF OtherStep
<1>. QED  BY <1>1, <1>2, <1>3

(* A consumer of an open connection knows its generation, or is about to be told. *)
ToldStacks == (OpeningStacks \ {<<"mark", "opened", "poll">>}) \cup OpenStacks
Telling(t) == mark[t] = gen /\ Reports(pc[t]) /\ Untold(pc[t])
ToldInv ==
    /\ epoch <= gen
    /\ ~stopping /\ pc["ix"] \in ToldStacks => epoch = gen \/ \E t \in Threads : Telling(t)

LEMMA ToldKinds ==
    /\ \A s \in DialStacks \cup {<<"mark", "opened", "poll">>} : s \notin ToldStacks
    /\ AskingStacks("poll") \subseteq ToldStacks
    /\ {<<"opened", "poll">>, <<"restore", "poll">>, <<"on_connect", "poll">>, <<"poll">>,
        <<"enqueue", "poll">>, <<"stamp", "poll">>, <<"push", "poll">>} \subseteq ToldStacks
<1>1. \A s \in DialStacks : s \notin OpenStacks /\ s \notin OpeningStacks
  BY StacksApart
<1>2. <<"mark", "opened", "poll">> \notin OpenStacks
  BY StackKinds, StacksApart
<1>3. <<"opened", "poll">> \in OpeningStacks \ {<<"mark", "opened", "poll">>}
  BY DEF OpeningStacks
<1>. QED  BY <1>1, <1>2, <1>3, StackKinds DEF ToldStacks, OpenStacks

LEMMA ToldMarks ==
    ASSUME NEW y \in Marked
    PROVE  /\ <<"gap", y, Base(y)>> \in ToldStacks => <<"discard", y, Base(y)>> \in ToldStacks
           /\ <<y, Base(y)>> \in ToldStacks => <<"gap", y, Base(y)>> \in ToldStacks
<1>. DEFINE a == <<"discard", y, Base(y)>>
            b == <<"gap", y, Base(y)>>
            d == <<y, Base(y)>>
<1>1. /\ (a \in OpeningStacks <=> b \in OpeningStacks)
           /\ (b \in OpeningStacks <=> d \in OpeningStacks)
      /\ (a \in AskingStacks("poll") <=> b \in AskingStacks("poll"))
      /\ (b \in AskingStacks("poll") <=> d \in AskingStacks("poll"))
      /\ b \notin FlowingStacks /\ d \notin FlowingStacks
  BY MarkingKeeps
<1>2. a # <<"mark", "opened", "poll">> /\ b # <<"mark", "opened", "poll">>
  OBVIOUS
<1>. HIDE DEF a, b, d
<1>3. (b \in ToldStacks => a \in ToldStacks) /\ (d \in ToldStacks => b \in ToldStacks)
  BY <1>1, <1>2 DEF ToldStacks, OpenStacks
<1>. QED  BY <1>3 DEF a, b, d

(* Only mark_stream_gap begins an open connection. *)
LEMMA ToldEnters ==
    ASSUME NEW c, IxReady(c), RunInv(c), Next, ~stopping, pc'["ix"] \in ToldStacks
    PROVE  pc["ix"] \in ToldStacks \/ gen' = gen + 1
<1>1. CASE IxStep \/ Environment \/ GapStep("ix")
  <2>1. CASE IxLeaves
    BY <2>1, ToldKinds DEF IxLeaves
  <2>2. CASE IxAsks \/ IxAsked
    BY <2>2, ToldKinds DEF IxAsks, IxAsked
  <2>3. CASE IxOpens \/ IxRestores \/ IxFlows \/ IxSkips \/ IxStamps \/ IxPushes
    BY <2>3, ToldKinds DEF IxOpens, IxRestores, IxFlows, IxSkips, IxStamps, IxPushes, IxFrom
  <2>4. CASE IxMarks
    BY <2>4, ToldMarks DEF IxMarks, IxFrom
  <2>. QED  BY <1>1, <2>1, <2>2, <2>3, <2>4, IxDoes
<1>2. CASE OtherStep(c)
  <2>1. {<<>>, <<"dial">>} \subseteq DialStacks
    BY DialKinds
  <2>. QED  BY <1>2, <2>1, OtherIx, ToldKinds
<1>. QED  BY <1>1, <1>2, IxOrOther

(* Only the stream_gap callback moves the consumer on. *)
LEMMA EpochMoves ==
    ASSUME NEW c, IxReady(c), Next
    PROVE  UNCHANGED epoch \/ \E t \in {c, "ix", "worker"} : StreamGapCallback(t)
<1>. USE DEF streamVars
<1>1. CASE IxStep \/ Environment
  BY <1>1 DEF IxStep, Environment, HandleOpen, RestoreSubscriptions, TransportCallback,
     HandleClose, HandleError, EnqueueCheck, EnqueueStamp, Push, Dial, DialFails, ConnectionDrops,
     Receive
<1>2. CASE WorkerStep
  BY <1>2 DEF WorkerStep, WorkerLoop, Pop, DispatchMessage, Deliver
<1>3. ASSUME NEW t \in {c, "ix", "worker"}, GapStep(t)
      PROVE  UNCHANGED epoch \/ \E u \in {c, "ix", "worker"} : StreamGapCallback(u)
  BY <1>3 DEF GapStep, MarkGap, DiscardPending, ResnapshotCheck, ResnapshotExchange,
     ResnapshotClose
<1>4. CASE TransportStep \/ TeardownStep("teardown") \/ TeardownStep(c)
  BY <1>4 DEF TransportStep, TransportWake, TransportFinal, TeardownStep, WsStop,
     StopMessageWorker, Publish
<1>5. CASE CallerSteps(c)
  BY <1>5 DEF CallerSteps, CallStep, ConnectEntry, ConnectRetire, ConnectStart, ConnectLaunch,
     CallConnect, CallDisconnect, CallResnapshot, Disconnect, AwaitTransportStop
<1>. QED  BY <1>1, <1>2, <1>3, <1>4, <1>5, IxOrOther DEF OtherStep

LEMMA ToldStep ==
    ASSUME NEW c, IxReady(c), IxReady(c)', RunInv(c), MarkInv, ToldInv, [Next]_vars
    PROVE  ToldInv'
<1>0. /\ gen \in Nat /\ epoch \in Nat /\ mark \in [Threads -> Nat] /\ gen' \in Nat
      /\ pc \in [Threads -> Seq(Steps)] /\ epoch <= gen /\ {c, "ix", "worker"} \subseteq Threads
  BY StreamTypes, StreamTypesNext, IxReadyFacts DEF ToldInv
<1>1. CASE UNCHANGED vars
  BY <1>1 DEF vars, ToldInv, Telling
<1>2. CASE Next
  <2>k. ASSUME ~stopping', pc'["ix"] \in ToldStacks, gen' = gen
        PROVE  /\ ~stopping /\ pc["ix"] \in ToldStacks
               /\ epoch = gen \/ \E t \in Threads : Telling(t)
    <3>1. ~stopping
      <4>1. <<>> \notin ToldStacks
        BY ToldKinds, DialKinds
      <4>. QED  BY <1>2, <2>k, <4>1, StopIdle
    <3>2. pc["ix"] \in ToldStacks
      BY <1>0, <1>2, <2>k, <3>1, ToldEnters
    <3>. QED  BY <3>1, <3>2 DEF ToldInv
  <2>1. ASSUME NEW t \in {c, "ix", "worker"}, StreamGapCallback(t)
        PROVE  ToldInv'
    <3>1. PICK y \in Marked : Moves(t, GapStack(t, "gap", y), RestStack(t, y))
      BY <2>1, GapMoves
    <3>2. gen' = gen /\ mark' = mark /\ stopping' = stopping
      BY <2>1 DEF StreamGapCallback, flagVars
    <3>3. mark[t] <= gen /\ mark[t] \in Nat
      BY <1>0, <2>1 DEF MarkInv
    <3>4. stopping => epoch' = epoch
      BY <2>1 DEF StreamGapCallback
    <3>5. ~stopping => epoch' = (IF mark[t] > epoch THEN mark[t] ELSE epoch)
      BY <2>1 DEF StreamGapCallback
    <3>6. epoch' <= gen'
      BY <1>0, <3>2, <3>3, <3>4, <3>5
    <3>7. ASSUME ~stopping', pc'["ix"] \in ToldStacks
          PROVE  epoch' = gen' \/ \E u \in Threads : Telling(u)'
      <4>1. epoch = gen \/ \E u \in Threads : Telling(u)
        BY <2>k, <3>2, <3>7
      <4>2. CASE epoch = gen \/ mark[t] = gen
        <5>1. epoch' = (IF mark[t] > epoch THEN mark[t] ELSE epoch)
          BY <3>2, <3>5, <3>7
        <5>. QED  BY <1>0, <3>2, <3>3, <4>2, <5>1
      <4>3. CASE epoch # gen /\ mark[t] # gen
        <5>1. PICK u \in Threads : Telling(u)
          BY <4>1, <4>3
        <5>2. u # t
          BY <4>3, <5>1 DEF Telling
        <5>3. pc'[u] = pc[u]
          BY <1>0, <3>1, <5>2 DEF Moves
        <5>4. Telling(u)'
          BY <3>2, <5>1, <5>3 DEF Telling
        <5>. QED  BY <5>4
      <4>. QED  BY <4>2, <4>3
    <3>. QED  BY <3>6, <3>7 DEF ToldInv
  <2>2. ASSUME NEW t \in {c, "ix", "worker"}, MarkGap(t), ~stopping
        PROVE  ToldInv'
    <3>1. PICK y \in Marked :
                  /\ Moves(t, GapStack(t, "mark", y), GapStack(t, "discard", y))
                  /\ gen' = gen + 1 /\ mark' = [mark EXCEPT ![t] = gen + 1]
      BY <2>2, GapMoves
    <3>2. epoch' = epoch
      BY <2>2 DEF MarkGap
    <3>3. t \in Threads /\ pc'[t] = GapStack(t, "discard", y) /\ mark'[t] = gen'
      BY <1>0, <2>2, <3>1 DEF Moves
    <3>4. Reports(GapStack(t, "discard", y)) /\ Untold(GapStack(t, "discard", y))
      BY GapStackKinds
    <3>5. Telling(t)'
      BY <3>3, <3>4 DEF Telling
    <3>6. epoch' <= gen'
      BY <1>0, <3>1, <3>2
    <3>. QED  BY <3>3, <3>5, <3>6 DEF ToldInv
  <2>3. ASSUME UNCHANGED <<gen, mark, epoch>>,
               \A u \in Threads : Telling(u) => Telling(u)'
        PROVE  ToldInv'
    <3>1. epoch' <= gen'
      BY <1>0, <2>3
    <3>. QED  BY <2>3, <2>k, <3>1 DEF ToldInv
  <2>4. CASE QuietStep /\ UNCHANGED epoch
    <3>1. UNCHANGED <<gen, mark, epoch>>
      BY <2>4 DEF QuietStep
    <3>2. ASSUME NEW u \in Threads, Telling(u) PROVE Telling(u)'
      <4>1. pc'[u] = pc[u]
        BY <2>4, <3>2 DEF QuietStep, Telling
      <4>. QED  BY <3>1, <3>2, <4>1 DEF Telling
    <3>. QED  BY <2>3, <3>1, <3>2
  <2>5. ASSUME NEW t \in {c, "ix", "worker"}, DiscardPending(t)
        PROVE  ToldInv'
    <3>1. PICK y \in Marked : Moves(t, GapStack(t, "discard", y), GapStack(t, "gap", y))
      BY <2>5, GapMoves
    <3>2. UNCHANGED <<gen, mark, epoch>>
      BY <2>5 DEF DiscardPending, streamVars
    <3>3. ASSUME NEW u \in Threads, Telling(u) PROVE Telling(u)'
      <4>1. CASE u # t
        <5>1. pc'[u] = pc[u]
          BY <1>0, <3>1, <4>1 DEF Moves
        <5>. QED  BY <3>2, <3>3, <5>1 DEF Telling
      <4>2. CASE u = t
        <5>1. pc'[u] = GapStack(t, "gap", y)
          BY <1>0, <3>1, <4>2 DEF Moves
        <5>2. Reports(pc'[u]) /\ Untold(pc'[u])
          BY <5>1, GapStackKinds
        <5>. QED  BY <3>2, <3>3, <5>2 DEF Telling
      <4>. QED  BY <4>1, <4>2
    <3>. QED  BY <2>3, <3>2, <3>3
  <2>6. ASSUME NEW t \in {c, "ix", "worker"}, ResnapshotClose(t)
        PROVE  ToldInv'
    <3>1. Moves(t, RestStack(t, "close"), CloseStack(t))
      BY <2>6, GapMoves
    <3>2. UNCHANGED <<gen, mark, epoch>>
      BY <2>6 DEF ResnapshotClose, streamVars
    <3>3. ASSUME NEW u \in Threads, Telling(u) PROVE Telling(u)'
      <4>1. ~Untold(RestStack(t, "close"))
        BY GapStackKinds DEF Marked
      <4>2. u # t
        BY <3>1, <3>3, <4>1 DEF Telling, Moves
      <4>3. pc'[u] = pc[u]
        BY <1>0, <3>1, <4>2 DEF Moves
      <4>. QED  BY <3>2, <3>3, <4>3 DEF Telling
    <3>. QED  BY <2>3, <3>2, <3>3
  <2>7. ASSUME NEW t \in {c, "ix", "worker"}, MarkGap(t), stopping
        PROVE  ToldInv'
    <3>1. UNCHANGED <<gen, mark, epoch, stopping>>
      BY <2>7 DEF MarkGap, flagVars
    <3>2. epoch' <= gen' /\ stopping'
      BY <1>0, <2>7, <3>1
    <3>. QED  BY <3>2 DEF ToldInv
  <2>. QED  BY <1>2, <2>1, <2>2, <2>4, <2>5, <2>6, <2>7, QuietOrGap, EpochMoves
<1>. QED  BY <1>1, <1>2

(* A connection that opens starts without messages. *)
OpeningInv ==
    ~stopping =>
      /\ pc["ix"] \in OpeningStacks \ {<<"mark", "opened", "poll">>} => recv = 0 /\ got = 0
      /\ pc["ix"] \in {<<"gap", "opened", "poll">>, <<"opened", "poll">>} => queue = <<>>

LEMMA OpeningIx ==
    ASSUME NEW c, IxReady(c), RunInv(c), OpeningInv, ~stopping,
           IxStep \/ Environment \/ GapStep("ix")
    PROVE  OpeningInv'
<1>. DEFINE S == OpeningStacks \ {<<"mark", "opened", "poll">>}
            T == {<<"gap", "opened", "poll">>, <<"opened", "poll">>}
<1>s. T \subseteq S
  BY DEF OpeningStacks
<1>0. UNCHANGED stopping
  BY IxDoes
<1>n. ASSUME pc'["ix"] \notin S PROVE OpeningInv'
  BY <1>n, <1>s DEF OpeningInv
<1>o. \A s \in OpenStacks \cup DialStacks \cup {<<"mark", "opened", "poll">>} : s \notin S
  BY StacksApart
<1>k. AskingStacks("poll") \subseteq OpenStacks
  BY DEF OpenStacks
<1>1. CASE IxLeaves
  BY <1>1, <1>n, <1>o DEF IxLeaves
<1>2. CASE IxAsks \/ IxAsked
  BY <1>2, <1>k, <1>n, <1>o, StackKinds DEF IxAsks, IxAsked
<1>3. CASE IxOpens \/ IxRestores \/ IxFlows \/ IxSkips \/ IxStamps \/ IxPushes
  <2>1. pc'["ix"] \in OpenStacks
    BY <1>3, StackKinds DEF IxOpens, IxRestores, IxFlows, IxSkips, IxStamps, IxPushes, IxFrom
  <2>. QED  BY <1>n, <1>o, <2>1
<1>4. CASE IxMarks
  <2>1. PICK y \in Marked :
       \/ /\ IxFrom(<<"mark", y, Base(y)>>, <<"discard", y, Base(y)>>)
          /\ recv' = 0 /\ got' = 0
       \/ /\ IxFrom(<<"discard", y, Base(y)>>, <<"gap", y, Base(y)>>)
          /\ queue' = <<>> /\ UNCHANGED <<recv, got>>
       \/ /\ IxFrom(<<"gap", y, Base(y)>>, <<y, Base(y)>>)
          /\ UNCHANGED <<recv, got, queue>>
    BY <1>4 DEF IxMarks
  <2>2. CASE y # "opened"
    <3>1. pc'["ix"] \notin OpeningStacks
      BY <2>1, <2>2, MarkingKeeps DEF IxFrom
    <3>. QED  BY <1>n, <3>1
  <2>3. CASE y = "opened"
    <3>1. Base(y) = "poll"
      BY <2>3 DEF Base
    <3>2. CASE /\ IxFrom(<<"mark", y, Base(y)>>, <<"discard", y, Base(y)>>)
               /\ recv' = 0 /\ got' = 0
      <4>1. pc'["ix"] \notin T
        BY <2>3, <3>1, <3>2 DEF IxFrom
      <4>. QED  BY <3>2, <4>1 DEF OpeningInv
    <3>3. CASE /\ IxFrom(<<"discard", y, Base(y)>>, <<"gap", y, Base(y)>>)
               /\ queue' = <<>> /\ UNCHANGED <<recv, got>>
      <4>1. pc["ix"] \in S
        BY <2>3, <3>1, <3>3 DEF IxFrom, OpeningStacks
      <4>. QED  BY <1>0, <3>3, <4>1 DEF OpeningInv
    <3>4. CASE /\ IxFrom(<<"gap", y, Base(y)>>, <<y, Base(y)>>)
               /\ UNCHANGED <<recv, got, queue>>
      <4>1. pc["ix"] \in S /\ pc["ix"] \in T
        BY <2>3, <3>1, <3>4 DEF IxFrom, OpeningStacks
      <4>. QED  BY <1>0, <3>4, <4>1 DEF OpeningInv
    <3>. QED  BY <2>1, <3>2, <3>3, <3>4
  <2>. QED  BY <2>2, <2>3
<1>. QED  BY <1>1, <1>2, <1>3, <1>4, IxDoes

LEMMA OpeningOther ==
    ASSUME NEW c, IxReady(c), RunInv(c), OpeningInv, StampInv, ~stopping, OtherStep(c)
    PROVE  OpeningInv'
<1>. DEFINE S == OpeningStacks \ {<<"mark", "opened", "poll">>}
            T == {<<"gap", "opened", "poll">>, <<"opened", "poll">>}
<1>s. T \subseteq S
  BY DEF OpeningStacks
<1>1. pc'["ix"] \in S => pc'["ix"] = pc["ix"]
  <2>1. <<>> \notin S /\ <<"dial">> \notin S
    BY StackKinds, StacksApart DEF DialStacks
  <2>. QED  BY <2>1, OtherIx
<1>0. /\ gen \in Nat /\ recv \in Nat /\ msg["worker"] \in Messages /\ queue \in Seq(Messages)
  BY StreamTypes
<1>k. ASSUME pc'["ix"] \in S, queue = <<>> => queue' = <<>>,
             (recv' = 0 /\ got' = 0) \/ UNCHANGED <<recv, got>>
      PROVE  OpeningInv'
  BY <1>1, <1>k, <1>s DEF OpeningInv
<1>n. ASSUME stopping' \/ pc'["ix"] \notin S PROVE OpeningInv'
  BY <1>n, <1>s DEF OpeningInv
<1>2. CASE (WorkerStep \/ GapStep("worker")) /\ pc'["ix"] \in S
  <2>1. CASE WorkerIdles \/ WorkerAsking \/ WorkerAsked \/ WorkerHolds \/ WorkerDrops
    <3>1. StreamKeeps
      BY <2>1 DEF WorkerIdles, WorkerAsking, WorkerAsked, WorkerHolds, WorkerDrops
    <3>. QED  BY <1>2, <1>k, <3>1 DEF StreamKeeps
  <2>2. CASE WorkerTakes
    BY <1>2, <1>k, <2>2 DEF WorkerTakes
  <2>3. CASE WorkerMarks
    BY <1>2, <1>k, <2>3 DEF WorkerMarks, Marks
  <2>4. CASE WorkerHands
    <3>1. recv = 0
      BY <1>1, <1>2 DEF OpeningInv
    <3>2. StampAt(msg["worker"], gen, recv)
      BY <2>4 DEF StampInv, WorkerHands, HoldingStacks
    <3>3. msg["worker"].gen # gen
      BY <1>0, <3>1, <3>2 DEF StampAt, Messages
    <3>4. UNCHANGED <<recv, got, queue>>
      BY <2>4, <3>3 DEF WorkerHands
    <3>. QED  BY <1>2, <1>k, <3>4
  <2>. QED  BY <1>2, <2>1, <2>2, <2>3, <2>4, WorkerDoes
<1>3. CASE (CallerSteps(c) \/ GapStep(c) \/ TeardownStep(c)) /\ pc'["ix"] \in S
  <2>1. queue = <<>> => queue' = <<>>
    BY <1>3, CallerKeeps
  <2>2. (recv' = 0 /\ got' = 0) \/ UNCHANGED <<recv, got>>
    BY <1>3, CallerKeeps
  <2>. QED  BY <1>3, <1>k, <2>1, <2>2
<1>4. ~(TransportStep \/ TeardownStep("teardown"))
  BY TransportWakes, TransportEnds, TransportTears DEF TransportStep
<1>. QED  BY <1>2, <1>3, <1>4, <1>n DEF OtherStep

LEMMA OpeningStep ==
    ASSUME NEW c, IxReady(c), RunInv(c), OpeningInv, StampInv, [Next]_vars
    PROVE  OpeningInv'
<1>1. CASE UNCHANGED vars
  BY <1>1 DEF vars, OpeningInv
<1>2. CASE Next /\ stopping
  <2>1. ~stopping' => pc'["ix"] = <<>>
    BY <1>2, StopIdle
  <2>2. <<>> \notin OpeningStacks
    BY StackKinds, StacksApart DEF DialStacks
  <2>. QED  BY <2>1, <2>2 DEF OpeningInv
<1>3. CASE Next /\ ~stopping
  BY <1>3, IxOrOther, OpeningIx, OpeningOther
<1>. QED  BY <1>1, <1>2, <1>3

(* Every message that was received on an open connection is with the consumer, in the worker's
   hands, in the queue or in the IX thread's hands, in this order, unless a new connection is
   on its way. *)
Renewing(c) ==
    \/ resnap \/ ix.conn # "open"
    \/ pc["ix"] \in AskingStacks("poll") \/ pc["worker"] \in AskingStacks("loop")
    \/ pc[c] \in GapCalls
Held == IF pc["worker"] \in HoldingStacks /\ msg["worker"].gen = gen THEN 1 ELSE 0
Pushing == IF pc["ix"] = <<"push", "poll">> THEN 1 ELSE 0
Flows ==
    /\ \A i \in DOMAIN queue : queue[i].gen = gen /\ queue[i].n = got + Held + i
    /\ Held = 1 => msg["worker"].n = got + 1
    /\ Pushing = 1 => msg["ix"].gen = gen /\ msg["ix"].n = recv
    /\ recv = got + Held + Len(queue) + Pushing
FlowInv(c) == ~stopping /\ pc["ix"] \in FlowingStacks /\ ~Renewing(c) => Flows

LEMMA FlowKinds ==
    /\ FlowingStacks \subseteq OpenStacks
    /\ \A s \in FlowingStacks : s \notin AskingStacks("poll") /\ s \notin DialStacks
    /\ <<"mark", "opened", "poll">> \notin FlowingStacks
    /\ <<"resnapshot", "poll">> \notin FlowingStacks
    /\ {<<"restore", "poll">>, <<"on_connect", "poll">>, <<"poll">>, <<"enqueue", "poll">>,
        <<"stamp", "poll">>, <<"push", "poll">>} = FlowingStacks
    /\ <<>> \notin FlowingStacks /\ <<"dial">> \notin FlowingStacks
    /\ \A s \in Idles \cup HoldingStacks : s \notin AskingStacks("loop")
    /\ \A s \in Idles : s \notin HoldingStacks
    /\ {<<"loop">>, <<"pop">>, <<"typed", "loop">>} \subseteq Idles
    /\ <<"resnapshot", "loop">> \in AskingStacks("loop")
    /\ {<<"message", "loop">>, <<"deliver", "loop">>} \subseteq HoldingStacks
<1>1. /\ FlowingStacks \subseteq OpenStacks
      /\ \A s \in FlowingStacks : s \notin AskingStacks("poll") /\ s \notin DialStacks
  BY StacksApart DEF OpenStacks
<1>2. /\ {<<"restore", "poll">>, <<"on_connect", "poll">>, <<"poll">>, <<"enqueue", "poll">>,
          <<"stamp", "poll">>, <<"push", "poll">>} = FlowingStacks
  BY DEF FlowingStacks
<1>3. /\ <<"mark", "opened", "poll">> \notin FlowingStacks
      /\ <<"resnapshot", "poll">> \notin FlowingStacks
      /\ <<>> \notin FlowingStacks /\ <<"dial">> \notin FlowingStacks
  BY DEF FlowingStacks
<1>4. /\ \A s \in Idles \cup HoldingStacks : s \notin AskingStacks("loop")
      /\ \A s \in Idles : s \notin HoldingStacks
  BY StacksApart DEF Idles
<1>5. /\ {<<"loop">>, <<"pop">>, <<"typed", "loop">>} \subseteq Idles
      /\ <<"resnapshot", "loop">> \in AskingStacks("loop")
      /\ {<<"message", "loop">>, <<"deliver", "loop">>} \subseteq HoldingStacks
  BY DEF Idles, AskingStacks, HoldingStacks
<1>. QED  BY <1>1, <1>2, <1>3, <1>4, <1>5

LEMMA FlowsSame ==
    ASSUME Flows, StreamKeeps, Held' = Held, Pushing' = Pushing
    PROVE  Flows'
<1>. HIDE DEF Held, Pushing
<1>1. queue' = queue /\ gen' = gen /\ got' = got /\ recv' = recv /\ msg' = msg
  BY DEF StreamKeeps
<1>. QED  BY <1>1 DEF Flows

LEMMA FlowIx ==
    ASSUME NEW c, IxReady(c), RunInv(c), StampInv, OpeningInv, FlowInv(c), ~stopping,
           IxStep \/ Environment \/ GapStep("ix")
    PROVE  FlowInv(c)'
<1>. SUFFICES ASSUME ~stopping', pc'["ix"] \in FlowingStacks, ~Renewing(c)'
              PROVE  Flows'
  BY DEF FlowInv
<1>0. /\ gen \in Nat /\ recv \in Nat /\ got \in Nat /\ queue \in Seq(Messages) /\ Len(queue) \in Nat
      /\ msg \in [{"ix", "worker"} -> Messages] /\ msg["ix"] \in Messages
      /\ msg["worker"] \in Messages
      /\ pc'["worker"] = pc["worker"] /\ pc'[c] = pc[c]
  BY StreamTypes, IxDoes
<1>r. /\ ~resnap' /\ ix'.conn = "open" /\ pc["worker"] \notin AskingStacks("loop")
      /\ pc[c] \notin GapCalls
  BY <1>0 DEF Renewing
<1>h. gen' = gen /\ msg'["worker"] = msg["worker"] => Held' = Held
  BY <1>0 DEF Held
<1>f. ASSUME pc["ix"] \in FlowingStacks, resnap' = resnap, ix'.conn = ix.conn PROVE Flows
  <2>1. ~Renewing(c)
    BY <1>f, <1>r, FlowKinds DEF Renewing
  <2>. QED  BY <1>f, <2>1 DEF FlowInv
<1>1. CASE IxLeaves
  BY <1>1, FlowKinds DEF IxLeaves
<1>2. CASE IxAsks
  BY <1>2, FlowKinds DEF IxAsks
<1>3. CASE IxAsked
  BY <1>3, <1>r DEF IxAsked
<1>4. CASE IxOpens
  <2>1. StreamKeeps /\ pc["ix"] = <<"opened", "poll">> /\ pc'["ix"] = <<"restore", "poll">>
    BY <1>4 DEF IxOpens, IxFrom
  <2>2. pc["ix"] \in OpeningStacks \ {<<"mark", "opened", "poll">>}
    BY <2>1 DEF OpeningStacks
  <2>3. recv = 0 /\ got = 0 /\ queue = <<>>
    BY <2>1, <2>2 DEF OpeningInv
  <2>4. Held = 0
    <3>1. pc["worker"] \in HoldingStacks => StampAt(msg["worker"], gen, recv)
      BY DEF StampInv
    <3>2. pc["worker"] \in HoldingStacks => msg["worker"].gen # gen
      BY <1>0, <2>3, <3>1 DEF StampAt, Messages
    <3>. QED  BY <3>2 DEF Held
  <2>5. Held' = 0
    BY <1>h, <2>1, <2>4 DEF StreamKeeps
  <2>6. Pushing' = 0
    BY <2>1 DEF Pushing
  <2>7. recv' = 0 /\ got' = 0 /\ queue' = <<>>
    BY <2>1, <2>3 DEF StreamKeeps
  <2>. QED  BY <2>5, <2>6, <2>7 DEF Flows
<1>5. CASE IxRestores
  <2>1. /\ StreamKeeps /\ resnap' = resnap /\ ix'.conn = ix.conn
        /\ pc["ix"] = <<"restore", "poll">> /\ pc'["ix"] = <<"on_connect", "poll">>
    BY <1>5, FlowKinds DEF IxRestores, IxFrom
  <2>2. Flows
    BY <1>f, <2>1, FlowKinds
  <2>3. Pushing' = Pushing
    BY <2>1 DEF Pushing
  <2>4. Held' = Held
    BY <1>h, <2>1 DEF StreamKeeps
  <2>. QED  BY <2>1, <2>2, <2>3, <2>4, FlowsSame
<1>6. CASE IxFlows
  <2>1. /\ StreamKeeps /\ resnap' = resnap /\ ix'.conn = ix.conn
        /\ pc["ix"] \in {<<"on_connect", "poll">>, <<"poll">>, <<"enqueue", "poll">>}
        /\ pc'["ix"] \in {<<"poll">>, <<"enqueue", "poll">>, <<"stamp", "poll">>}
    BY <1>6 DEF IxFlows, IxFrom, SocketKeeps
  <2>2. Flows
    BY <1>f, <2>1, FlowKinds
  <2>3. Pushing' = Pushing
    BY <2>1 DEF Pushing
  <2>4. Held' = Held
    BY <1>h, <2>1 DEF StreamKeeps
  <2>. QED  BY <2>1, <2>2, <2>3, <2>4, FlowsSame
<1>7. CASE IxSkips
  BY <1>7, <1>r DEF IxSkips
<1>8. CASE IxStamps
  <2>1. /\ resnap' = resnap /\ ix'.conn = ix.conn
        /\ pc["ix"] = <<"stamp", "poll">> /\ pc'["ix"] = <<"push", "poll">>
        /\ gen' = gen /\ got' = got /\ queue' = queue /\ recv' = recv + 1
        /\ msg' = [msg EXCEPT !["ix"] = [gen |-> gen, n |-> recv + 1]]
    BY <1>8 DEF IxStamps, IxFrom, SocketKeeps
  <2>2. msg'["worker"] = msg["worker"] /\ msg'["ix"].gen = gen /\ msg'["ix"].n = recv + 1
    BY <1>0, <2>1
  <2>3. Flows
    BY <1>f, <2>1, FlowKinds
  <2>4. Pushing = 0 /\ Pushing' = 1
    BY <2>1 DEF Pushing
  <2>5. Held' = Held
    BY <1>h, <2>1, <2>2
  <2>6. Held \in {0, 1}
    BY DEF Held
  <2>7. recv' = got' + Held' + Len(queue') + Pushing'
    BY <1>0, <2>1, <2>3, <2>4, <2>5, <2>6 DEF Flows
  <2>8. gen' = gen /\ got' = got /\ queue' = queue /\ recv' = recv + 1
    BY <2>1
  <2>9. /\ \A i \in DOMAIN queue' : queue'[i].gen = gen' /\ queue'[i].n = got' + Held' + i
        /\ Held' = 1 => msg'["worker"].n = got' + 1
    BY <2>2, <2>3, <2>5, <2>8 DEF Flows
  <2>. QED  BY <2>2, <2>7, <2>8, <2>9 DEF Flows
<1>9. CASE IxPushes
  <2>1. /\ resnap' = resnap /\ ix'.conn = ix.conn
        /\ pc["ix"] = <<"push", "poll">> /\ pc'["ix"] = <<"poll">>
        /\ gen' = gen /\ got' = got /\ recv' = recv /\ msg' = msg
        /\ queue' = Append(queue, msg["ix"])
    BY <1>9, FlowKinds DEF IxPushes, IxFrom, SocketKeeps
  <2>2. Flows
    BY <1>f, <2>1, FlowKinds
  <2>3. Pushing = 1 /\ Pushing' = 0
    BY <2>1 DEF Pushing
  <2>4. Held' = Held /\ Held \in {0, 1}
    BY <1>h, <2>1 DEF Held
  <2>5. Len(queue') = Len(queue) + 1
    BY <1>0, <2>1
  <2>6. ASSUME NEW i \in DOMAIN queue'
        PROVE  \/ i \in DOMAIN queue /\ queue'[i] = queue[i]
               \/ i = Len(queue) + 1 /\ queue'[i] = msg["ix"]
    BY <1>0, <2>1, <2>6
  <2>7. msg["ix"].gen = gen /\ msg["ix"].n = got + Held + (Len(queue) + 1)
    BY <1>0, <2>2, <2>3, <2>4 DEF Flows
  <2>8. ASSUME NEW i \in DOMAIN queue'
        PROVE  queue'[i].gen = gen' /\ queue'[i].n = got' + Held' + i
    BY <2>1, <2>2, <2>4, <2>6, <2>7 DEF Flows
  <2>9. recv' = got' + Held' + Len(queue') + Pushing'
    BY <1>0, <2>1, <2>2, <2>3, <2>4, <2>5 DEF Flows
  <2>10. Held' = 1 => msg'["worker"].n = got' + 1
    BY <2>1, <2>2, <2>4 DEF Flows
  <2>. QED  BY <2>3, <2>8, <2>9, <2>10 DEF Flows
<1>10. CASE IxMarks
  <2>1. PICK y \in Marked :
          pc'["ix"] \in {<<"discard", y, Base(y)>>, <<"gap", y, Base(y)>>, <<y, Base(y)>>}
    BY <1>10 DEF IxMarks, IxFrom
  <2>2. pc'["ix"] \notin FlowingStacks
    BY <2>1, MarkingKeeps
  <2>. QED  BY <2>2
<1>. QED  BY <1>1, <1>2, <1>3, <1>4, <1>5, <1>6, <1>7, <1>8, <1>9, <1>10, IxDoes

(* The consumer of an open connection that is not renewed knows the generation. *)
LEMMA FlowTold ==
    ASSUME NEW c, IxReady(c), ToldInv, ~stopping, pc["ix"] \in FlowingStacks, ~Renewing(c)
    PROVE  epoch = gen
<1>1. epoch = gen \/ \E t \in Threads : Reports(pc[t])
  BY FlowKinds DEF ToldInv, Telling, ToldStacks
<1>2. ~Reports(pc["ix"])
  BY QuietStacks DEF IxQuiet
<1>3. ~Reports(pc["worker"])
  <2>1. pc["worker"] \in WorkerStacks /\ pc["worker"] \notin AskingStacks("loop")
    BY IxReadyFacts DEF Renewing
  <2>2. pc["worker"] \in WorkerQuiet
    BY <2>1 DEF WorkerStacks, WorkerQuiet
  <2>. QED  BY <2>2, QuietStacks
<1>4. ~Reports(pc[c])
  <2>1. pc[c] \in QuietCalls
    BY CallerReady, CallKinds DEF Renewing
  <2>. QED  BY <2>1, QuietStacks
<1>5. ~Reports(pc["teardown"])
  <2>1. pc["teardown"] \in TransportStacks
    BY DEF IxReady, StopInv, StopShapes, TransportStacks
  <2>. QED  BY <2>1, QuietStacks
<1>. QED  BY <1>1, <1>2, <1>3, <1>4, <1>5, IxReadyFacts

LEMMA FlowWorker ==
    ASSUME NEW c, IxReady(c), RunInv(c), ToldInv, FlowInv(c), ~stopping,
           WorkerStep \/ GapStep("worker")
    PROVE  FlowInv(c)'
<1>. SUFFICES ASSUME ~stopping', pc'["ix"] \in FlowingStacks, ~Renewing(c)'
              PROVE  Flows'
  BY DEF FlowInv
<1>0. /\ gen \in Nat /\ recv \in Nat /\ got \in Nat /\ queue \in Seq(Messages) /\ Len(queue) \in Nat
      /\ msg \in [{"ix", "worker"} -> Messages] /\ msg["ix"] \in Messages
      /\ msg["worker"] \in Messages
      /\ pc'["ix"] = pc["ix"] /\ pc'[c] = pc[c]
  BY StreamTypes, WorkerDoes
<1>r. /\ ~resnap' /\ ix'.conn = "open" /\ pc'["worker"] \notin AskingStacks("loop")
      /\ pc[c] \notin GapCalls /\ pc["ix"] \in FlowingStacks
  BY <1>0 DEF Renewing
<1>f. ASSUME pc["worker"] \notin AskingStacks("loop"), resnap' = resnap, SocketKeeps
      PROVE  ~Renewing(c) /\ Flows /\ epoch = gen
  <2>1. ~Renewing(c)
    BY <1>f, <1>r, FlowKinds DEF Renewing, SocketKeeps
  <2>2. Flows
    BY <1>r, <2>1 DEF FlowInv
  <2>. QED  BY <1>r, <2>1, <2>2, FlowTold
<1>p. Pushing' = Pushing /\ Pushing \in {0, 1}
  BY <1>0 DEF Pushing
<1>1. CASE WorkerIdles
  <2>1. Flows
    BY <1>1, <1>f, FlowKinds DEF WorkerIdles
  <2>2. Held = 0 /\ Held' = 0
    BY <1>1, FlowKinds DEF WorkerIdles, Held
  <2>. QED  BY <1>1, <1>p, <2>1, <2>2, FlowsSame DEF WorkerIdles
<1>2. CASE WorkerAsking \/ WorkerMarks
  BY <1>2, <1>r DEF WorkerAsking, WorkerMarks
<1>3. CASE WorkerAsked
  BY <1>3, <1>r DEF WorkerAsked
<1>4. CASE WorkerHolds
  <2>1. Flows
    BY <1>4, <1>f, FlowKinds DEF WorkerHolds
  <2>2. Held' = Held
    BY <1>4 DEF WorkerHolds, Held, StreamKeeps
  <2>. QED  BY <1>4, <1>p, <2>1, <2>2, FlowsSame DEF WorkerHolds
<1>5. CASE WorkerDrops
  <2>1. Flows
    BY <1>5, <1>f, FlowKinds DEF WorkerDrops
  <2>2. Held = 0 /\ Held' = 0
    BY <1>5, FlowKinds DEF WorkerDrops, Held
  <2>. QED  BY <1>5, <1>p, <2>1, <2>2, FlowsSame DEF WorkerDrops
<1>6. CASE WorkerTakes
  <2>1. /\ gen' = gen /\ got' = got /\ recv' = recv /\ queue # <<>> /\ queue' = Tail(queue)
        /\ msg'["worker"] = Head(queue) /\ msg'["ix"] = msg["ix"]
        /\ pc["worker"] = <<"pop">> /\ pc'["worker"] = <<"message", "loop">>
    BY <1>0, <1>6 DEF WorkerTakes
  <2>2. Flows
    BY <1>6, <1>f, <2>1, FlowKinds DEF WorkerTakes
  <2>3. Held = 0
    BY <2>1, FlowKinds DEF Held
  <2>4. 1 \in DOMAIN queue /\ Head(queue) = queue[1] /\ Len(queue') = Len(queue) - 1
    BY <1>0, <2>1
  <2>5. queue[1].gen = gen /\ queue[1].n = got + 1
    BY <1>0, <2>2, <2>3, <2>4 DEF Flows
  <2>6. msg'["worker"].gen = gen' /\ msg'["worker"].n = got' + 1
    BY <2>1, <2>4, <2>5
  <2>7. Held' = 1
    BY <2>1, <2>6, FlowKinds DEF Held
  <2>8. ASSUME NEW i \in DOMAIN queue'
        PROVE  i \in Nat /\ i + 1 \in DOMAIN queue /\ queue'[i] = queue[i + 1]
    BY <1>0, <2>1, <2>8
  <2>9. ASSUME NEW i \in DOMAIN queue'
        PROVE  queue'[i].gen = gen' /\ queue'[i].n = got' + Held' + i
    <3>1. i \in Nat /\ queue[i + 1].gen = gen /\ queue[i + 1].n = got + Held + (i + 1)
      BY <2>2, <2>8 DEF Flows
    <3>. QED  BY <1>0, <2>1, <2>3, <2>7, <2>8, <3>1
  <2>10. recv' = got' + Held' + Len(queue') + Pushing'
    BY <1>0, <1>p, <2>1, <2>2, <2>3, <2>4, <2>7 DEF Flows
  <2>11. Pushing' = 1 => msg'["ix"].gen = gen' /\ msg'["ix"].n = recv'
    BY <1>p, <2>1, <2>2 DEF Flows
  <2>. QED  BY <2>6, <2>9, <2>10, <2>11 DEF Flows
<1>7. CASE WorkerHands
  <2>1. /\ gen' = gen /\ recv' = recv /\ queue' = queue /\ msg' = msg
        /\ pc["worker"] = <<"deliver", "loop">> /\ pc'["worker"] = <<"typed", "loop">>
        /\ got' = IF msg["worker"].gen = epoch /\ msg["worker"].gen = gen
                  THEN msg["worker"].n ELSE got
    BY <1>7, <1>r, FlowKinds DEF WorkerHands
  <2>2. Flows /\ epoch = gen
    BY <1>7, <1>f, <2>1, FlowKinds DEF WorkerHands
  <2>3. Held' = 0
    BY <2>1, FlowKinds DEF Held
  <2>4. CASE msg["worker"].gen = gen
    <3>1. Held = 1
      BY <2>1, <2>4, FlowKinds DEF Held
    <3>2. got' = got + 1
      BY <2>1, <2>2, <2>4, <3>1 DEF Flows
    <3>3. ASSUME NEW i \in DOMAIN queue'
          PROVE  queue'[i].gen = gen' /\ queue'[i].n = got' + Held' + i
      <4>1. i \in Nat /\ queue[i].gen = gen /\ queue[i].n = got + Held + i
        BY <1>0, <2>1, <2>2, <3>3 DEF Flows
      <4>. QED  BY <1>0, <2>1, <2>3, <3>1, <3>2, <4>1
    <3>4. recv' = got' + Held' + Len(queue') + Pushing'
      <4>1. recv = got + Held + Len(queue) + Pushing
        BY <2>2 DEF Flows
      <4>2. recv' = recv /\ Len(queue') = Len(queue) /\ Pushing' = Pushing
        BY <1>p, <2>1
      <4>. QED  BY <1>0, <1>p, <2>3, <3>1, <3>2, <4>1, <4>2
    <3>5. Pushing' = 1 => msg'["ix"].gen = gen' /\ msg'["ix"].n = recv'
      BY <1>p, <2>1, <2>2 DEF Flows
    <3>. QED  BY <2>3, <3>3, <3>4, <3>5 DEF Flows
  <2>5. CASE msg["worker"].gen # gen
    <3>1. Held = 0
      BY <2>1, <2>5 DEF Held
    <3>2. StreamKeeps
      BY <1>7, <2>1, <2>5 DEF WorkerHands, StreamKeeps
    <3>. QED  BY <1>p, <2>2, <2>3, <3>1, <3>2, FlowsSame
  <2>. QED  BY <2>4, <2>5
<1>. QED  BY <1>1, <1>2, <1>3, <1>4, <1>5, <1>6, <1>7, WorkerDoes

LEMMA FlowCaller ==
    ASSUME NEW c, IxReady(c), RunInv(c), FlowInv(c), ~stopping,
           CallerSteps(c) \/ GapStep(c) \/ TeardownStep(c)
    PROVE  FlowInv(c)'
<1>. SUFFICES ASSUME ~stopping', pc'["ix"] \in FlowingStacks, ~Renewing(c)'
              PROVE  Flows'
  BY DEF FlowInv
<1>r. /\ ~resnap' /\ ix'.conn = "open" /\ pc'["worker"] \notin AskingStacks("loop")
      /\ pc'[c] \notin GapCalls
  BY DEF Renewing
<1>1. CASE CallPasses(c)
  <2>1. /\ StreamKeeps /\ pc'["ix"] = pc["ix"] /\ pc'["worker"] = pc["worker"]
        /\ resnap' = resnap /\ ix'.conn = ix.conn /\ pc[c] \notin GapCalls
    BY <1>1 DEF CallPasses, LibraryStays, SocketKeeps
  <2>2. ~Renewing(c) /\ pc["ix"] \in FlowingStacks
    BY <1>r, <2>1, FlowKinds DEF Renewing
  <2>3. Flows
    BY <2>2 DEF FlowInv
  <2>4. Held' = Held /\ Pushing' = Pushing
    BY <2>1 DEF Held, Pushing, StreamKeeps
  <2>. QED  BY <2>1, <2>3, <2>4, FlowsSame
<1>2. CASE CallAsked(c)
  BY <1>2, <1>r DEF CallAsked
<1>3. CASE CallLaunches(c)
  <2>1. pc["ix"] \in FlowingStacks /\ state = "DISCONNECTED"
    BY <1>3, FlowKinds DEF CallLaunches
  <2>2. state = "CONNECTED"
    BY <2>1, FlowKinds DEF RunInv, OpenState
  <2>. QED  BY <2>1, <2>2
<1>4. CASE CallStops(c)
  BY <1>4, FlowKinds DEF CallStops
<1>5. CASE CallMarks(c)
  BY <1>5, <1>r DEF CallMarks
<1>. QED  BY <1>1, <1>2, <1>3, <1>4, <1>5, CallerDoes

LEMMA FlowStep ==
    ASSUME NEW c, IxReady(c), RunInv(c), StampInv, ToldInv, OpeningInv, FlowInv(c), [Next]_vars
    PROVE  FlowInv(c)'
<1>1. CASE UNCHANGED vars
  BY <1>1 DEF vars, FlowInv, Renewing, Flows, Held, Pushing
<1>2. CASE Next /\ stopping
  <2>1. ~stopping' => pc'["ix"] = <<>>
    BY <1>2, StopIdle
  <2>. QED  BY <2>1, FlowKinds DEF FlowInv
<1>3. CASE Next /\ ~stopping
  <2>1. ~(TransportStep \/ TeardownStep("teardown"))
    BY <1>3, TransportWakes, TransportEnds, TransportTears DEF TransportStep
  <2>. QED  BY <1>3, <2>1, IxOrOther, FlowIx, FlowWorker, FlowCaller DEF OtherStep
<1>. QED  BY <1>1, <1>2, <1>3

LossInv(c) ==
    /\ IxReady(c) /\ MarkInv /\ RunInv(c) /\ DrainInv /\ SubInv /\ StampInv /\ ToldInv
    /\ OpeningInv /\ FlowInv(c)

LEMMA LossInit ==
    ASSUME NEW c, OneCaller(c), InitState
    PROVE  LossInv(c)
<1>1. IxReady(c) /\ MarkInv /\ RunInv(c)
  BY StreamInit, RunInit
<1>2. /\ "ix" \in Threads /\ "worker" \in Threads /\ "teardown" \in Threads
  BY <1>1, IxReadyFacts
<1>3. /\ pc["ix"] = <<>> /\ pc["worker"] = <<>> /\ pc["teardown"] = <<>> /\ queue = <<>>
      /\ epoch = 0 /\ gen = 0
  BY <1>2 DEF InitState
<1>4. DrainInv /\ StampInv
  BY <1>3 DEF DrainInv, StampInv, HoldingStacks
<1>5. <<>> \notin OpenStacks /\ <<>> \notin OpeningStacks /\ <<>> \notin FlowingStacks
  BY StackKinds, StacksApart, FlowKinds DEF DialStacks
<1>6. SubInv /\ OpeningInv /\ FlowInv(c)
  BY <1>3, <1>5 DEF SubInv, OpeningInv, FlowInv
<1>7. ToldInv
  BY <1>3, <1>5 DEF ToldInv, ToldStacks
<1>. QED  BY <1>1, <1>4, <1>6, <1>7 DEF LossInv

LEMMA LossStep ==
    ASSUME NEW c, LossInv(c), [Next]_vars
    PROVE  LossInv(c)'
<1>1. /\ IxReady(c) /\ MarkInv /\ RunInv(c) /\ DrainInv /\ SubInv /\ StampInv /\ ToldInv
      /\ OpeningInv /\ FlowInv(c)
  BY DEF LossInv
<1>2. IxReady(c)'
  BY <1>1, ShapesStep
<1>3. MarkInv' /\ RunInv(c)' /\ DrainInv'
  BY <1>1, MarkStep, RunStep, DrainStep
<1>4. SubInv' /\ OpeningInv'
  BY <1>1, SubStep, OpeningStep
<1>5. StampInv' /\ ToldInv'
  BY <1>1, <1>2, StampStep, ToldStep
<1>6. FlowInv(c)'
  BY <1>1, FlowStep
<1>. QED  BY <1>2, <1>3, <1>4, <1>5, <1>6 DEF LossInv

LEMMA LossIsTold ==
    ASSUME NEW c, LossInv(c)
    PROVE  NoSilentLoss
<1>. SUFFICES ASSUME Settled PROVE epoch = gen /\ got = recv /\ ix.subscribed
  BY DEF NoSilentLoss
<1>1. IxReady(c) /\ ToldInv /\ FlowInv(c) /\ SubInv
  BY DEF LossInv
<1>2. /\ ~resnap /\ ~stopping /\ pc[c] = <<>> /\ pc["ix"] = <<"poll">> /\ ix.conn = "open"
      /\ pc["worker"] \in {<<>>, <<"done">>, <<"pop">>} /\ queue = <<>>
  BY <1>1 DEF Settled, CallersIdle, IxReady, OneCaller
<1>3. pc["ix"] \in FlowingStacks /\ pc["worker"] \in Idles
  BY <1>2, FlowKinds DEF Idles
<1>4. ~Renewing(c)
  BY <1>2, <1>3, FlowKinds DEF Renewing, GapCalls
<1>5. epoch = gen
  BY <1>1, <1>2, <1>3, <1>4, FlowTold
<1>6. Held = 0 /\ Pushing = 0
  BY <1>2, <1>3, FlowKinds DEF Held, Pushing
<1>7. recv \in Nat /\ got \in Nat
  BY <1>1, StreamTypes
<1>8. got = recv
  BY <1>1, <1>2, <1>3, <1>4, <1>6, <1>7 DEF FlowInv, Flows
<1>9. ix.subscribed
  BY <1>1, <1>2, StackKinds DEF SubInv
<1>. QED  BY <1>5, <1>8, <1>9

(* A message is delivered or the consumer is told of a gap after it, with one user thread
   and callbacks that do not stop the client: whatever the queue limit, the reconnect options
   and the number of drops, failed attempts, overflows, throwing callbacks, idle reconnects and
   requested resnapshots, a settled client's consumer is at the stream's generation and has
   admitted every message that was received in it (enqueue_message, dispatch_message,
   request_resnapshot, handle_open). *)
THEOREM ClientLosesNothingSilently ==
    ASSUME NEW c, OneCaller(c)
    PROVE  Spec => []NoSilentLoss
<1>1. Init => LossInv(c)
  BY LossInit DEF Init
<1>2. LossInv(c) /\ [Next]_vars => LossInv(c)'
  BY LossStep
<1>3. LossInv(c) => NoSilentLoss
  BY LossIsTold
<1>. QED  BY <1>1, <1>2, <1>3, PTL DEF Spec

(***************************************************************************)
(* The order of messages.  Without requested resnapshots, throwing         *)
(* callbacks and idle reconnects only the IX thread marks gaps, and it     *)
(* neither stamps nor pushes a message meanwhile.                          *)
(***************************************************************************)

AskSteps == {"resnapshot", "exchange", "close"}
Calm(s) == ~DoesIn(s, AskSteps)
Causes == {"requests", "throws", "idles"}

(* The events that make the worker or a caller ask for a resnapshot are used up. *)
Spared ==
    /\ Causes \subseteq DOMAIN budget
    /\ budget["requests"] = MaxRequests /\ budget["throws"] = MaxThrows
    /\ budget["idles"] = MaxIdles

LEMMA SparedSpends ==
    ASSUME Spared, NEW kind, NEW bound, Spend(kind, bound),
           kind = "requests" => bound = MaxRequests,
           kind = "throws" => bound = MaxThrows, kind = "idles" => bound = MaxIdles
    PROVE  kind \notin Causes /\ Spared' /\ DOMAIN budget' = DOMAIN budget
<1>1. MaxRequests \in Nat /\ MaxThrows \in Nat /\ MaxIdles \in Nat
  BY OptionsAssumption
<1>2. budget[kind] < bound /\ budget' = [budget EXCEPT ![kind] = @ + 1]
  BY DEF Spend
<1>3. kind \notin Causes
  BY <1>1, <1>2 DEF Spared, Causes
<1>4. ASSUME NEW k \in Causes PROVE budget'[k] = budget[k]
  BY <1>2, <1>3, <1>4 DEF Spared
<1>5. DOMAIN budget' = DOMAIN budget
  BY <1>2
<1>. QED  BY <1>3, <1>4, <1>5 DEF Spared, Causes

(* A step uses up at most one event of one kind. *)
Spends ==
    \/ UNCHANGED budget
    \/ Spend("connects", MaxConnects) \/ Spend("stops", MaxStops) \/ Spend("requests", MaxRequests)
    \/ Spend("messages", MaxMessages) \/ Spend("drops", MaxDrops) \/ Spend("failures", MaxFailures)
    \/ Spend("throws", MaxThrows) \/ Spend("idles", MaxIdles)

LEMMA SpendsStep ==
    ASSUME NEW c, IxReady(c), [Next]_vars
    PROVE  Spends
<1>u. UNCHANGED budget => Spends
  BY DEF Spends
<1>b. ASSUME NEW t, NEW next, UserCallback(t, next) PROVE Spends
  BY <1>b, <1>u, IxReadyFacts DEF UserCallback
<1>1. CASE UNCHANGED vars
  BY <1>1, <1>u DEF vars
<1>2. CASE IxStep
  BY <1>2, <1>b, <1>u DEF IxStep, HandleOpen, RestoreSubscriptions, TransportCallback, HandleClose,
     HandleError, EnqueueCheck, EnqueueStamp, Push
<1>3. CASE Environment
  BY <1>3 DEF Spends, Environment, Dial, DialFails, ConnectionDrops, Receive
<1>4. ASSUME NEW t, GapStep(t) PROVE Spends
  BY <1>4, <1>b, <1>u DEF GapStep, MarkGap, DiscardPending, StreamGapCallback, ResnapshotCheck,
     ResnapshotExchange, ResnapshotClose
<1>5. CASE WorkerStep
  <2>1. CASE WorkerLoop \/ Pop
    BY <2>1 DEF Spends, WorkerLoop, Pop
  <2>2. ASSUME NEW next, Callback(next) PROVE Spends
    BY <1>b, <2>2 DEF Callback, Spends
  <2>3. CASE DispatchMessage \/ Deliver
    BY <1>u, <2>2, <2>3 DEF DispatchMessage, Deliver
  <2>. QED  BY <1>5, <2>1, <2>3 DEF WorkerStep
<1>6. ASSUME NEW t, TeardownStep(t) PROVE Spends
  BY <1>6, <1>u DEF TeardownStep, WsStop, StopMessageWorker, Publish
<1>7. CASE TransportStep
  BY <1>7, <1>u DEF TransportStep, TransportWake, TransportFinal
<1>8. CASE CallStep(c) \/ Disconnect(c) \/ AwaitTransportStop(c)
  BY <1>8 DEF Spends, CallStep, ConnectEntry, ConnectRetire, ConnectStart, ConnectLaunch,
     Disconnect, AwaitTransportStop
<1>9. CASE CallConnect(c) \/ CallDisconnect(c) \/ CallResnapshot(c)
  BY <1>9 DEF Spends, CallConnect, CallDisconnect, CallResnapshot
<1>. QED  BY <1>1, <1>2, <1>3, <1>4, <1>5, <1>6, <1>7, <1>8, <1>9, WhoSteps

LEMMA SparedStep ==
    ASSUME NEW c, IxReady(c), Spared, [Next]_vars
    PROVE  Spared'
<1>1. Spends
  BY SpendsStep
<1>2. UNCHANGED budget => Spared'
  BY DEF Spared
<1>. QED  BY <1>1, <1>2, SparedSpends DEF Spends

(* The kind of history is fixed. *)
LEMMA KindStep ==
    ASSUME NEW c, IxReady(c), "kind" \in DOMAIN budget, [Next]_vars
    PROVE  "kind" \in DOMAIN budget' /\ budget'["kind"] = budget["kind"]
<1>1. ASSUME NEW k, NEW bound, k # "kind", Spend(k, bound)
      PROVE  "kind" \in DOMAIN budget' /\ budget'["kind"] = budget["kind"]
  BY <1>1 DEF Spend
<1>. QED  BY <1>1, SpendsStep DEF Spends

LEMMA CalmGoes ==
    ASSUME StacksOK, NEW t \in Threads, pc[t] # <<>>, NEW next \in Seq(Steps), Go(t, next),
           Calm(pc[t]), Calm(next)
    PROVE  Calm(pc'[t])
<1>1. pc[t] \in Seq(Steps) /\ pc'[t] = next \o Tail(pc[t])
  BY DEF StacksOK, Go
<1>. DEFINE r == Tail(pc[t])
<1>2. r \in Seq(Steps) /\ \A j \in 1 .. Len(r) : j + 1 \in DOMAIN pc[t] /\ r[j] = pc[t][j + 1]
  BY <1>1
<1>. HIDE DEF r
<1>3. /\ Len(next \o r) = Len(next) + Len(r) /\ next \o r \in Seq(Steps)
      /\ \A i \in 1 .. Len(next) + Len(r) :
           (next \o r)[i] = IF i <= Len(next) THEN next[i] ELSE r[i - Len(next)]
  BY <1>2, ConcatProperties
<1>4. ASSUME NEW i \in DOMAIN pc'[t], pc'[t][i] \in AskSteps PROVE FALSE
  <2>1. pc'[t] = next \o r /\ i \in 1 .. Len(next) + Len(r)
    BY <1>1, <1>3, <1>4 DEF r
  <2>2. CASE i <= Len(next)
    <3>1. i \in DOMAIN next /\ pc'[t][i] = next[i]
      BY <1>3, <2>1, <2>2
    <3>. QED  BY <1>4, <3>1 DEF Calm, DoesIn
  <2>3. CASE ~(i <= Len(next))
    <3>1. i - Len(next) \in 1 .. Len(r) /\ pc'[t][i] = r[i - Len(next)]
      BY <1>2, <1>3, <2>1, <2>3
    <3>2. \E j \in DOMAIN pc[t] : pc'[t][i] = pc[t][j]
      BY <1>2, <3>1
    <3>. QED  BY <1>4, <3>2 DEF Calm, DoesIn
  <2>. QED  BY <2>2, <2>3
<1>. QED  BY <1>4 DEF Calm, DoesIn

LEMMA CalmKinds ==
    /\ \A s \in AskingStacks("loop") \cup GapCalls \cup {<<"resnapshot">>, <<"exchange">>} :
           ~Calm(s)
    /\ Calm(<<>>)
    /\ \A x \in {"connect", "check", "retire", "start", "launch", "disconnect", "await", "loop",
                 "pop", "done", "sequenced", "deliver", "typed"} : Calm(<<x>>)
    /\ Calm(<<"await", "check">>) /\ Calm(<<"request", "await", "start">>)
    /\ Calm(<<"message", "loop">>) /\ Calm(TeardownSteps)
<1>. USE DEF Calm, AskSteps
<1>1. \A s \in AskingStacks("loop") \cup GapCalls \cup {<<"resnapshot">>, <<"exchange">>} : ~Calm(s)
  <2>0. \A s : (\E i \in DOMAIN s : s[i] \in AskSteps) => ~Calm(s)
    BY DEF DoesIn
  <2>1. \A s \in {<<"resnapshot", "loop">>, <<"exchange", "loop">>, <<"close", "loop">>,
                  <<"close">>, <<"resnapshot">>, <<"exchange">>} : ~Calm(s)
    <3>1. \A s \in {<<"resnapshot", "loop">>, <<"exchange", "loop">>, <<"close", "loop">>,
                    <<"close">>, <<"resnapshot">>, <<"exchange">>} :
             1 \in DOMAIN s /\ s[1] \in AskSteps
      OBVIOUS
    <3> HIDE DEF Calm, AskSteps
    <3>. QED  BY <2>0, <3>1
  <2>2. \A s \in {<<"mark", "close", "loop">>, <<"discard", "close", "loop">>,
                  <<"gap", "close", "loop">>, <<"mark", "close">>, <<"discard", "close">>,
                  <<"gap", "close">>} : ~Calm(s)
    <3>1. \A s \in {<<"mark", "close", "loop">>, <<"discard", "close", "loop">>,
                    <<"gap", "close", "loop">>, <<"mark", "close">>, <<"discard", "close">>,
                    <<"gap", "close">>} : 2 \in DOMAIN s /\ s[2] \in AskSteps
      OBVIOUS
    <3> HIDE DEF Calm, AskSteps
    <3>. QED  BY <2>0, <3>1
  <2> HIDE DEF Calm
  <2>. QED  BY <2>1, <2>2 DEF AskingStacks, GapCalls
<1>2. Calm(TeardownSteps)
  BY DEF TeardownSteps, DoesIn
<1>3. Calm(<<>>) /\ Calm(<<"await", "check">>) /\ Calm(<<"message", "loop">>)
  BY DoesLiteral
<1>5. Calm(<<"request", "await", "start">>)
  BY DEF DoesIn
<1>4. \A x \in {"connect", "check", "retire", "start", "launch", "disconnect", "await", "loop",
                 "pop", "done", "sequenced", "deliver", "typed"} : Calm(<<x>>)
  BY DoesLiteral
<1>. QED  BY <1>1, <1>2, <1>3, <1>4, <1>5

LEMMA CalmWorker ==
    ASSUME NEW c, IxReady(c), Spared, Calm(pc["worker"]), WorkerStep \/ GapStep("worker")
    PROVE  Calm(pc'["worker"])
<1>0. StacksOK /\ "worker" \in Threads /\ pc["worker"] # <<>>
  BY IxReadyFacts, WorkerGoes
<1>c. ~Spend("throws", MaxThrows) /\ ~Spend("idles", MaxIdles)
  BY SparedSpends DEF Causes
<1>t. {<<"pop">>, <<"done">>, <<"message", "loop">>, <<>>, <<"sequenced">>, <<"deliver">>,
       <<"typed">>}
        \subseteq Seq(Steps)
  BY DEF Steps
<1>n. ASSUME NEW next \in {<<"pop">>, <<"done">>, <<"message", "loop">>, <<>>, <<"sequenced">>,
                           <<"deliver">>, <<"typed">>},
             Go("worker", next)
      PROVE  Calm(pc'["worker"])
  <2>1. Calm(next)
    BY <1>n, CalmKinds
  <2>. QED  BY <1>0, <1>n, <1>t, <2>1, CalmGoes
<1>1. CASE WorkerLoop \/ Pop
  BY <1>1, <1>c, <1>n DEF WorkerLoop, Pop
<1>b. ASSUME NEW next, Callback(next) PROVE Go("worker", next)
  BY <1>b, <1>c, IxReadyFacts DEF Callback, UserCallback
<1>2. CASE DispatchMessage
  BY <1>2, <1>b, <1>n DEF DispatchMessage
<1>3. CASE Deliver
  BY <1>3, <1>b, <1>n DEF Deliver
<1>4. CASE GapStep("worker")
  <2>1. pc["worker"] \in AskingStacks("loop")
    BY <1>4, WorkerAsks DEF GapStep, Moves, AskingStacks
  <2>. QED  BY <2>1, CalmKinds
<1>. QED  BY <1>1, <1>2, <1>3, <1>4 DEF WorkerStep

LEMMA CalmCaller ==
    ASSUME NEW c, IxReady(c), Spared, Calm(pc[c]), CallerSteps(c) \/ GapStep(c) \/ TeardownStep(c)
    PROVE  Calm(pc'[c])
<1>0. StacksOK /\ c \in Threads /\ pc \in [Threads -> Seq(Steps)]
  BY IxReadyFacts
<1>c. ~CallResnapshot(c)
  BY SparedSpends DEF CallResnapshot, Causes
<1>. DEFINE N == {<<"check">>, <<"await", "check">>, <<"retire">>, <<"start">>, <<>>,
                  <<"request", "await", "start">>}
<1>t. \A n \in N : n \in Seq(Steps)
  <2>1. /\ <<"check">> \in Seq(Steps) /\ <<"await", "check">> \in Seq(Steps)
        /\ <<"retire">> \in Seq(Steps) /\ <<"start">> \in Seq(Steps) /\ <<>> \in Seq(Steps)
    BY DEF Steps
  <2>2. <<"request", "await", "start">> \in Seq(Steps)
    BY DEF Steps
  <2>. QED  BY <2>1, <2>2
<1>k. \A n \in N : Calm(n)
  BY CalmKinds
<1>n. ASSUME NEW n \in N, Go(c, n), pc[c] # <<>> PROVE Calm(pc'[c])
  BY <1>0, <1>k, <1>n, <1>t, CalmGoes
<1>. HIDE DEF N
<1>e. /\ <<"check">> \in N /\ <<"await", "check">> \in N /\ <<"retire">> \in N /\ <<"start">> \in N
      /\ <<>> \in N /\ <<"request", "await", "start">> \in N
  BY DEF N
<1>1. CASE CallConnect(c) \/ CallDisconnect(c)
  <2>1. pc'[c] \in {<<"connect">>, <<"disconnect">>}
    BY <1>0, <1>1 DEF CallConnect, CallDisconnect
  <2>. QED  BY <2>1, CalmKinds
<1>2. CASE ConnectEntry(c)
  BY <1>2, <1>e, <1>n DEF ConnectEntry, At
<1>3. CASE ConnectRetire(c)
  BY <1>3, <1>e, <1>n DEF ConnectRetire, At
<1>4. CASE AwaitTransportStop(c)
  BY <1>4, <1>e, <1>n DEF AwaitTransportStop, At
<1>5. CASE ConnectStart(c) /\ state # "DISCONNECTED"
  BY <1>5, <1>e, <1>n DEF ConnectStart, At
<1>6. CASE ConnectStart(c) /\ state = "DISCONNECTED"
  <2>1. pc'[c] \in {<<"launch">>, <<"await">>, TeardownSteps}
    BY <1>0, <1>6, CallerStarts, IxReadyFacts DEF Moves
  <2>. QED  BY <2>1, CalmKinds
<1>7. CASE ConnectLaunch(c)
  BY <1>7, CallerLaunches, CalmKinds
<1>8. CASE Disconnect(c)
  <2>1. pc'[c] \in {<<"await">>, TeardownSteps}
    BY <1>0, <1>8, CallerDisconnects DEF Moves
  <2>. QED  BY <2>1, CalmKinds
<1>9. CASE TeardownStep(c)
  <2>1. pc[c] \in Seq(Steps) /\ pc[c] # <<>> /\ pc'[c] = Tail(pc[c])
    <3>1. pc[c] \in DisconnectStacks /\ Moves(c, pc[c], Tail(pc[c]))
      BY <1>9, CallerTears
    <3>2. pc[c] # <<>>
      BY <1>9 DEF TeardownStep, WsStop, StopMessageWorker, Publish, At
    <3>. QED  BY <1>0, <3>1, <3>2 DEF Moves
  <2>2. \A i \in DOMAIN pc'[c] : \E j \in DOMAIN pc[c] : pc'[c][i] = pc[c][j]
    <3>1. ASSUME NEW i \in DOMAIN Tail(pc[c])
          PROVE  i + 1 \in DOMAIN pc[c] /\ Tail(pc[c])[i] = pc[c][i + 1]
      BY <2>1, <3>1
    <3>. QED  BY <2>1, <3>1
  <2>. QED  BY <2>2 DEF Calm, DoesIn
<1>10. CASE GapStep(c)
  <2>1. pc[c] \in GapCalls \cup {<<"resnapshot">>, <<"exchange">>}
    BY <1>10, CallerAsks DEF GapStep, Moves, GapCalls
  <2>. QED  BY <2>1, CalmKinds
<1>. QED  BY <1>c, <1>1, <1>2, <1>3, <1>4, <1>5, <1>6, <1>7, <1>8, <1>9, <1>10
             DEF CallerSteps, CallStep

(* While no stop is pending: what waits in the queue continues what the consumer has, what the
   worker holds is the next message for it, and the next message that is pushed comes right
   after those, unless a resnapshot is pending. *)
RenewStacks ==
    {<<"mark", "close", "poll">>, <<"discard", "close", "poll">>, <<"gap", "close", "poll">>,
     <<"close", "poll">>}
Queued ==
    /\ \A i \in DOMAIN queue : queue[i].gen = gen /\ queue[i].n = got + Held + i
    /\ queue # <<>> => epoch = gen
HeldNext == Held = 1 => msg["worker"].n = got + 1 /\ epoch = gen
OrderFlows ==
    /\ pc["ix"] \in RenewStacks => resnap
    /\ pc["ix"] \in {<<"stamp", "poll">>, <<"push", "poll">>} => ~resnap
    /\ ~At("ix", "discard") => Queued
    /\ At("ix", "discard") => recv = 0
    /\ Pushing = 1 => msg["ix"].gen = gen /\ msg["ix"].n = recv
    /\ pc["ix"] \in FlowingStacks /\ ~resnap => recv = got + Held + Len(queue) + Pushing
(* A message about to be delivered stays the next one while a stop is pending too. *)
DeliverNext ==
    pc["worker"] = <<"deliver", "loop">> /\ msg["worker"].gen = gen => msg["worker"].n = got + 1
CalmInv(c) == Calm(pc["worker"]) /\ Calm(pc[c])
OrderInv(c) ==
    /\ ordered /\ DeliverNext
    /\ ~stopping => HeldNext /\ OrderFlows

LEMMA OrderKinds ==
    /\ RenewStacks \subseteq AskingStacks("poll")
    /\ \A s \in FlowingStacks : s \notin RenewStacks
    /\ \A s \in DialStacks \cup {<<"mark", "opened", "poll">>, <<"opened", "poll">>} :
         s \notin RenewStacks /\ s \notin FlowingStacks
    /\ {<<"resnapshot", "poll">>, <<"exchange", "poll">>} \cap (RenewStacks \cup FlowingStacks) = {}
    /\ {<<"stamp", "poll">>, <<"push", "poll">>} \subseteq FlowingStacks
    /\ \A s \in AskingStacks("poll") : s \notin FlowingStacks
<1>1. RenewStacks \subseteq AskingStacks("poll")
  BY DEF RenewStacks, AskingStacks
<1>2. \A s \in FlowingStacks : s \notin AskingStacks("poll")
  BY StacksApart
<1>3. \A s \in DialStacks : s \notin AskingStacks("poll") /\ s \notin FlowingStacks
  BY StacksApart DEF OpenStacks
<1>4. /\ <<"mark", "opened", "poll">> \notin RenewStacks /\ <<"opened", "poll">> \notin RenewStacks
      /\ <<"mark", "opened", "poll">> \notin FlowingStacks
           /\ <<"opened", "poll">> \notin FlowingStacks
  BY DEF RenewStacks, FlowingStacks
<1>5. {<<"resnapshot", "poll">>, <<"exchange", "poll">>} \cap (RenewStacks \cup FlowingStacks) = {}
  BY DEF RenewStacks, FlowingStacks
<1>6. {<<"stamp", "poll">>, <<"push", "poll">>} \subseteq FlowingStacks
  BY DEF FlowingStacks
<1>. QED  BY <1>1, <1>2, <1>3, <1>4, <1>5, <1>6

(* The marking stacks. *)
LEMMA RenewMarks ==
    ASSUME NEW y \in Marked
    PROVE  /\ \A s \in {<<"mark", y, Base(y)>>, <<"discard", y, Base(y)>>, <<"gap", y, Base(y)>>,
                        <<y, Base(y)>>} :
                (s \in RenewStacks <=> y = "close") /\ s \notin FlowingStacks
                  /\ s # <<"push", "poll">>
<1>1. ASSUME NEW s \in {<<"mark", y, Base(y)>>, <<"discard", y, Base(y)>>, <<"gap", y, Base(y)>>,
                        <<y, Base(y)>>}
      PROVE  s \in AskingStacks("poll") <=> y = "close"
  BY <1>1, MarkingKeeps
<1>2. ASSUME NEW s \in {<<"mark", y, Base(y)>>, <<"discard", y, Base(y)>>, <<"gap", y, Base(y)>>,
                        <<y, Base(y)>>}
      PROVE  s \notin FlowingStacks
  BY <1>2, MarkingKeeps
<1>3. y = "close" => Base(y) = "poll"
  BY DEF Base
<1>4. ASSUME NEW s \in {<<"mark", y, Base(y)>>, <<"discard", y, Base(y)>>, <<"gap", y, Base(y)>>,
                        <<y, Base(y)>>}
      PROVE  s \in RenewStacks <=> y = "close"
  <2>1. s \in RenewStacks => y = "close"
    BY <1>1, <1>4, OrderKinds
  <2>2. y = "close" => s \in RenewStacks
    BY <1>3, <1>4 DEF RenewStacks
  <2>. QED  BY <2>1, <2>2
<1>. QED  BY <1>2, <1>4, OrderKinds

LEMMA QueuedSame ==
    ASSUME Queued, queue' = queue, gen' = gen, got' = got, epoch' = epoch, Held' = Held
    PROVE  Queued'
<1>. HIDE DEF Held
<1>. QED  BY DEF Queued

LEMMA HeldNextSame ==
    ASSUME HeldNext, Held' = 1 => Held = 1 /\ gen' = gen /\ got' = got /\ epoch' = epoch /\
                                  msg'["worker"] = msg["worker"]
    PROVE  HeldNext'
<1>. HIDE DEF Held
<1>. QED  BY DEF HeldNext

(* The consumer of an open connection knows the generation, as only the IX thread marks. *)
LEMMA CalmTold ==
    ASSUME NEW c, IxReady(c), ToldInv, ~stopping, pc["ix"] \in FlowingStacks, CalmInv(c)
    PROVE  epoch = gen
<1>1. epoch = gen \/ \E t \in Threads : Reports(pc[t])
  BY FlowKinds DEF ToldInv, Telling, ToldStacks
<1>2. ~Reports(pc["ix"])
  BY QuietStacks DEF IxQuiet
<1>3. ~Reports(pc["worker"])
  <2>1. pc["worker"] \in WorkerStacks /\ pc["worker"] \notin AskingStacks("loop")
    BY IxReadyFacts, CalmKinds DEF CalmInv
  <2>2. pc["worker"] \in WorkerQuiet
    BY <2>1 DEF WorkerStacks, WorkerQuiet
  <2>. QED  BY <2>2, QuietStacks
<1>4. ~Reports(pc[c])
  <2>1. pc[c] \in QuietCalls
    BY CallerReady, CallKinds, CalmKinds DEF CalmInv
  <2>. QED  BY <2>1, QuietStacks
<1>5. ~Reports(pc["teardown"])
  <2>1. pc["teardown"] \in TransportStacks
    BY DEF IxReady, StopInv, StopShapes, TransportStacks
  <2>. QED  BY <2>1, QuietStacks
<1>. QED  BY <1>1, <1>2, <1>3, <1>4, <1>5, IxReadyFacts

LEMMA OrderIx ==
    ASSUME NEW c, IxReady(c), RunInv(c), MarkInv, StampInv, ToldInv, OpeningInv, CalmInv(c),
           HeldNext, OrderFlows, ~stopping, IxStep \/ Environment \/ GapStep("ix")
    PROVE  HeldNext' /\ OrderFlows'
<1>0. /\ gen \in Nat /\ recv \in Nat /\ got \in Nat /\ queue \in Seq(Messages) /\ Len(queue) \in Nat
      /\ epoch \in Nat /\ mark \in [Threads -> Nat] /\ "ix" \in Threads
      /\ msg \in [{"ix", "worker"} -> Messages] /\ msg["ix"] \in Messages
      /\ msg["worker"] \in Messages
      /\ pc'["worker"] = pc["worker"]
  BY StreamTypes, IxDoes, IxReadyFacts
<1>h. gen' = gen /\ msg'["worker"] = msg["worker"] => Held' = Held
  BY <1>0 DEF Held
<1>g. Held \in {0, 1}
  BY DEF Held
<1>k. ASSUME StreamKeeps PROVE HeldNext' /\ Held' = Held /\ (Queued => Queued')
  <2>1. Held' = Held
    BY <1>h, <1>k DEF StreamKeeps
  <2>. QED  BY <1>k, <2>1, HeldNextSame, QueuedSame DEF StreamKeeps
<1>o. ASSUME HeldNext', pc'["ix"] \notin FlowingStacks, pc'["ix"] \in RenewStacks => resnap',
             ~At("ix", "discard")' => Queued', At("ix", "discard")' => recv' = 0
      PROVE  HeldNext' /\ OrderFlows'
  BY <1>o, OrderKinds DEF OrderFlows, Pushing
<1>d. CASE DiscardPending("ix")
  <2>1. PICK y \in Marked : Moves("ix", <<"discard", y, Base(y)>>, <<"gap", y, Base(y)>>)
    BY <1>d, IxDiscard
  <2>2. pc["ix"] = <<"discard", y, Base(y)>> /\ pc'["ix"] = <<"gap", y, Base(y)>>
    BY <1>0, <2>1, IxReadyFacts DEF Moves
  <2>3. queue' = <<>> /\ UNCHANGED <<msg, resnap, gen, mark, epoch, recv, got>>
    BY <1>d DEF DiscardPending, flagVars, streamVars
  <2>4. Held' = Held
    BY <1>h, <2>3
  <2>5. Queued'
    BY <2>3 DEF Queued
  <2>6. pc'["ix"] \in RenewStacks => resnap'
    BY <2>2, <2>3, RenewMarks DEF OrderFlows
  <2>7. pc'["ix"] \notin FlowingStacks
    BY <2>2, RenewMarks
  <2>8. ~At("ix", "discard")'
    BY <2>2 DEF At
  <2>. QED  BY <1>o, <2>3, <2>4, <2>5, <2>6, <2>7, <2>8, HeldNextSame
<1>e. CASE StreamGapCallback("ix")
  <2>1. PICK y \in Marked : Moves("ix", <<"gap", y, Base(y)>>, <<y, Base(y)>>)
    BY <1>e, IxGap
  <2>2. pc["ix"] = <<"gap", y, Base(y)>> /\ pc'["ix"] = <<y, Base(y)>>
    BY <1>0, <2>1, IxReadyFacts DEF Moves
  <2>3. /\ UNCHANGED <<msg, resnap, gen, mark, recv, got, queue>>
        /\ epoch' = IF mark["ix"] > epoch THEN mark["ix"] ELSE epoch
    BY <1>e DEF StreamGapCallback, flagVars, queueVars
  <2>4. epoch = gen => epoch' = gen
    BY <1>0, <2>3 DEF MarkInv
  <2>5. Held' = Held
    BY <1>h, <2>3
  <2>6. ~At("ix", "discard")
    BY <2>2 DEF At
  <2>7. Queued
    BY <2>6 DEF OrderFlows
  <2>8. Queued'
    <3>. HIDE DEF Held
    <3>. QED  BY <2>3, <2>4, <2>5, <2>7 DEF Queued
  <2>9. HeldNext'
    <3>. HIDE DEF Held
    <3>. QED  BY <2>3, <2>4, <2>5 DEF HeldNext
  <2>10. pc'["ix"] \in RenewStacks => resnap'
    BY <2>2, <2>3, RenewMarks DEF OrderFlows
  <2>11. pc'["ix"] \notin FlowingStacks
    BY <2>2, RenewMarks
  <2>12. ~At("ix", "discard")'
    <3>1. y # "discard"
      BY DEF Marked
    <3>. QED  BY <2>2, <3>1 DEF At
  <2>. QED  BY <1>o, <2>8, <2>9, <2>10, <2>11, <2>12
<1>f. CASE MarkGap("ix")
  <2>1. PICK y \in Marked :
             /\ Moves("ix", <<"mark", y, Base(y)>>, <<"discard", y, Base(y)>>)
             /\ gen' = gen + 1 /\ recv' = 0 /\ got' = 0
    BY <1>f, IxMark
  <2>2. pc["ix"] = <<"mark", y, Base(y)>> /\ pc'["ix"] = <<"discard", y, Base(y)>>
    BY <1>0, <2>1, IxReadyFacts DEF Moves
  <2>3. UNCHANGED <<msg, resnap, epoch, queue>>
    BY <1>f DEF MarkGap, flagVars, queueVars
  <2>4. Held' = 0
    <3>1. pc["worker"] \in HoldingStacks => msg["worker"].gen <= gen
      BY DEF StampInv, StampAt
    <3>2. msg["worker"].gen \in Nat
      BY <1>0 DEF Messages
    <3>3. ~(pc'["worker"] \in HoldingStacks /\ msg'["worker"].gen = gen')
      BY <1>0, <2>1, <2>3, <3>1, <3>2
    <3>. QED  BY <3>3 DEF Held
  <2>5. HeldNext'
    BY <2>4 DEF HeldNext
  <2>6. At("ix", "discard")'
    BY <2>2 DEF At
  <2>7. pc'["ix"] \in RenewStacks => resnap'
    BY <2>2, <2>3, RenewMarks DEF OrderFlows
  <2>8. pc'["ix"] \notin FlowingStacks
    BY <2>2, RenewMarks
  <2>. QED  BY <1>o, <2>1, <2>5, <2>6, <2>7, <2>8
<1>. SUFFICES ASSUME ~DiscardPending("ix"), ~StreamGapCallback("ix"), ~MarkGap("ix")
              PROVE  HeldNext' /\ OrderFlows'
  BY <1>d, <1>e, <1>f
<1>n. ~At("ix", "discard") /\ ~At("ix", "gap") /\ ~At("ix", "mark")
  BY DEF IxStep, Environment, GapStep, HandleOpen, RestoreSubscriptions, TransportCallback,
     HandleClose, HandleError, EnqueueCheck, EnqueueStamp, Push, Dial, DialFails, ConnectionDrops,
     Receive, ResnapshotCheck, ResnapshotExchange, ResnapshotClose, At
<1>q. Queued
  BY <1>n DEF OrderFlows
<1>z. ASSUME NEW x \in {"restore", "on_connect", "enqueue", "stamp", "push", "resnapshot"},
             pc'["ix"] \in {<<"poll">>, <<x, "poll">>}
      PROVE  ~At("ix", "discard")'
  BY <1>z DEF At
<1>1. CASE IxLeaves
  <2>1. /\ pc'["ix"] \notin FlowingStacks /\ pc'["ix"] \notin RenewStacks /\ StreamKeeps
        /\ ~At("ix", "discard")'
    BY <1>1, OrderKinds DEF IxLeaves
  <2>. QED  BY <1>k, <1>o, <1>q, <2>1
<1>2. CASE IxAsks
  <2>1. /\ pc'["ix"] \notin FlowingStacks /\ StreamKeeps
        /\ pc'["ix"] \in RenewStacks => resnap'
        /\ ~At("ix", "discard")'
    BY <1>2, OrderKinds DEF IxAsks
  <2>. QED  BY <1>k, <1>o, <1>q, <2>1
<1>3. CASE IxAsked
  <2>1. pc["ix"] = <<"close", "poll">> => resnap
    BY DEF OrderFlows, RenewStacks
  <2>2. StreamKeeps /\ pc'["ix"] = <<"poll">> /\ resnap'
    BY <1>3, <2>1 DEF IxAsked
  <2>3. Queued' /\ HeldNext' /\ Pushing' = 0
    BY <1>k, <1>q, <2>2 DEF Pushing
  <2>4. pc'["ix"] \notin RenewStacks /\ pc'["ix"] \notin {<<"stamp", "poll">>, <<"push", "poll">>}
    BY <2>2 DEF RenewStacks
  <2>. QED  BY <1>z, <2>2, <2>3, <2>4 DEF OrderFlows
<1>4. CASE IxOpens
  <2>1. StreamKeeps /\ pc["ix"] = <<"opened", "poll">> /\ pc'["ix"] = <<"restore", "poll">>
    BY <1>4 DEF IxOpens, IxFrom
  <2>2. pc["ix"] \in OpeningStacks \ {<<"mark", "opened", "poll">>}
    BY <2>1 DEF OpeningStacks
  <2>3. recv = 0 /\ got = 0 /\ queue = <<>>
    BY <2>1, <2>2 DEF OpeningInv
  <2>4. Held = 0
    <3>1. pc["worker"] \in HoldingStacks => StampAt(msg["worker"], gen, recv)
      BY DEF StampInv
    <3>2. pc["worker"] \in HoldingStacks => msg["worker"].gen # gen
      BY <1>0, <2>3, <3>1 DEF StampAt, Messages
    <3>. QED  BY <3>2 DEF Held
  <2>5. Held' = 0 /\ HeldNext' /\ Queued'
    BY <1>k, <1>q, <2>1, <2>4
  <2>6. Pushing' = 0
    BY <2>1 DEF Pushing
  <2>7. recv' = 0 /\ got' = 0 /\ Len(queue') = 0
    BY <2>1, <2>3 DEF StreamKeeps
  <2>8. pc'["ix"] \notin RenewStacks /\ pc'["ix"] \notin {<<"stamp", "poll">>, <<"push", "poll">>}
    BY <2>1 DEF RenewStacks
  <2>. QED  BY <2>5, <2>6, <2>7, <2>8 DEF OrderFlows
<1>5. CASE IxRestores \/ IxFlows
  <2>1. StreamKeeps /\ resnap' = resnap
    BY <1>5 DEF IxRestores, IxFlows
  <2>2. \/ /\ pc["ix"] \in FlowingStacks \ {<<"stamp", "poll">>, <<"push", "poll">>}
           /\ pc'["ix"] \in {<<"on_connect", "poll">>, <<"poll">>, <<"enqueue", "poll">>,
                             <<"stamp", "poll">>}
           /\ pc'["ix"] = <<"stamp", "poll">> => ~resnap
        \/ pc'["ix"] = <<"resnapshot", "poll">>
    BY <1>5 DEF IxRestores, IxFlows, IxFrom, FlowingStacks
  <2>3. Queued' /\ HeldNext' /\ Held' = Held
    BY <1>k, <1>q, <2>1
  <2>4. CASE pc'["ix"] = <<"resnapshot", "poll">>
    BY <1>o, <1>z, <2>3, <2>4, OrderKinds
  <2>5. CASE pc'["ix"] # <<"resnapshot", "poll">>
    <3>1. Pushing = 0 /\ Pushing' = 0
      BY <2>2, <2>5 DEF Pushing
    <3>2. pc'["ix"] \notin RenewStacks
      BY <2>2, <2>5 DEF RenewStacks
    <3>3. ~resnap => recv = got + Held + Len(queue) + Pushing
      BY <2>2, <2>5 DEF OrderFlows
    <3>4. recv' = recv /\ got' = got /\ queue' = queue
      BY <2>1 DEF StreamKeeps
    <3>5. ~resnap' => recv' = got' + Held' + Len(queue') + Pushing'
      <4>. HIDE DEF Held, Pushing
      <4>. QED  BY <2>1, <2>3, <3>1, <3>3, <3>4
    <3>6. pc'["ix"] \in {<<"stamp", "poll">>, <<"push", "poll">>} => ~resnap'
      BY <2>1, <2>2, <2>5
    <3>7. ~At("ix", "discard")'
      BY <1>z, <2>2, <2>5
    <3>. QED  BY <2>3, <3>1, <3>2, <3>5, <3>6, <3>7 DEF OrderFlows
  <2>. QED  BY <2>4, <2>5
<1>6. CASE IxSkips
  <2>1. /\ UNCHANGED <<gen, mark, epoch, got, queue, msg>> /\ resnap' /\ pc'["ix"] = <<"poll">>
    BY <1>6 DEF IxSkips, IxFrom
  <2>2. Held' = Held
    BY <1>h, <2>1
  <2>3. Queued' /\ HeldNext'
    BY <1>q, <2>1, <2>2, QueuedSame, HeldNextSame
  <2>4. Pushing' = 0 /\ pc'["ix"] \notin RenewStacks
        /\ pc'["ix"] \notin {<<"stamp", "poll">>, <<"push", "poll">>}
    BY <2>1 DEF Pushing, RenewStacks
  <2>5. ~At("ix", "discard")'
    BY <1>z, <2>1
  <2>. QED  BY <2>1, <2>3, <2>4, <2>5 DEF OrderFlows
<1>7. CASE IxStamps
  <2>1. /\ resnap' = resnap /\ epoch' = epoch
        /\ pc["ix"] = <<"stamp", "poll">> /\ pc'["ix"] = <<"push", "poll">>
        /\ gen' = gen /\ got' = got /\ queue' = queue /\ recv' = recv + 1
        /\ msg' = [msg EXCEPT !["ix"] = [gen |-> gen, n |-> recv + 1]]
    BY <1>7 DEF IxStamps, IxFrom
  <2>2. msg'["worker"] = msg["worker"] /\ msg'["ix"].gen = gen /\ msg'["ix"].n = recv + 1
    BY <1>0, <2>1
  <2>3. Held' = Held
    BY <1>h, <2>1, <2>2
  <2>4. Pushing = 0 /\ Pushing' = 1
    BY <2>1 DEF Pushing
  <2>5. ~resnap /\ recv = got + Held + Len(queue) + Pushing
    BY <2>1, OrderKinds DEF OrderFlows
  <2>6. recv' = got' + Held' + Len(queue') + Pushing'
    <3>. HIDE DEF Held, Pushing
    <3>. QED  BY <1>0, <1>g, <2>1, <2>3, <2>4, <2>5
  <2>7. Queued' /\ HeldNext'
    BY <1>q, <2>1, <2>2, <2>3, QueuedSame, HeldNextSame
  <2>8. pc'["ix"] \notin RenewStacks
    BY <2>1 DEF RenewStacks
  <2>9. ~resnap' /\ msg'["ix"].gen = gen' /\ msg'["ix"].n = recv'
    BY <2>1, <2>2, <2>5
  <2>10. ~At("ix", "discard")'
    BY <1>z, <2>1
  <2>. QED  BY <2>6, <2>7, <2>8, <2>9, <2>10 DEF OrderFlows
<1>8. CASE IxPushes
  <2>1. /\ resnap' = resnap /\ epoch' = epoch
        /\ pc["ix"] = <<"push", "poll">>
        /\ gen' = gen /\ got' = got /\ recv' = recv /\ msg' = msg
        /\ \/ queue' = Append(queue, msg["ix"]) /\ pc'["ix"] = <<"poll">>
           \/ queue' = <<>> /\ pc'["ix"] = <<"resnapshot", "poll">>
    BY <1>8 DEF IxPushes, IxFrom
  <2>2. Held' = Held
    BY <1>h, <2>1
  <2>3. HeldNext'
    BY <2>1, <2>2, HeldNextSame
  <2>4. CASE queue' = <<>> /\ pc'["ix"] = <<"resnapshot", "poll">>
    <3>1. Queued'
      BY <2>4 DEF Queued
    <3>. QED  BY <1>o, <1>z, <2>3, <2>4, <3>1, OrderKinds
  <2>5. CASE queue' = Append(queue, msg["ix"]) /\ pc'["ix"] = <<"poll">>
    <3>1. Pushing = 1 /\ Pushing' = 0
      BY <2>1, <2>5 DEF Pushing
    <3>2. ~resnap /\ recv = got + Held + Len(queue) + Pushing
      BY <2>1, OrderKinds DEF OrderFlows
    <3>3. msg["ix"].gen = gen /\ msg["ix"].n = got + Held + (Len(queue) + 1)
      <4>1. msg["ix"].gen = gen /\ msg["ix"].n = recv
        BY <3>1 DEF OrderFlows
      <4>2. recv = got + Held + (Len(queue) + 1)
        <5>. HIDE DEF Held, Pushing
        <5>1. got \in Nat /\ Len(queue) \in Nat /\ Held \in {0, 1} /\ Pushing = 1
          BY <1>0, <1>g, <3>1
        <5>. QED  BY <3>2, <5>1
      <4>. QED  BY <4>1, <4>2
    <3>4. epoch = gen
      BY <2>1, OrderKinds, CalmTold
    <3>5. ASSUME NEW i \in DOMAIN queue'
          PROVE  \/ i \in DOMAIN queue /\ queue'[i] = queue[i]
                 \/ i = Len(queue) + 1 /\ queue'[i] = msg["ix"]
      BY <1>0, <2>5, <3>5
    <3>6. Queued'
      <4>. HIDE DEF Held
      <4>. QED  BY <1>q, <2>1, <2>2, <3>3, <3>4, <3>5 DEF Queued
    <3>7. Len(queue') = Len(queue) + 1
      BY <1>0, <2>5
    <3>8. recv' = got' + Held' + Len(queue') + Pushing'
      <4>. HIDE DEF Held, Pushing
      <4>. QED  BY <1>0, <1>g, <2>1, <2>2, <3>1, <3>2, <3>7
    <3>9. pc'["ix"] \notin RenewStacks /\ pc'["ix"] \notin {<<"stamp", "poll">>, <<"push", "poll">>}
      BY <2>5 DEF RenewStacks
    <3>10. ~At("ix", "discard")'
      BY <1>z, <2>5
    <3>. QED  BY <2>3, <3>1, <3>6, <3>8, <3>9, <3>10 DEF OrderFlows
  <2>. QED  BY <2>1, <2>4, <2>5
<1>9. CASE IxMarks
  <2>1. PICK y \in Marked : pc["ix"] \in {<<"mark", y, Base(y)>>, <<"discard", y, Base(y)>>,
                                          <<"gap", y, Base(y)>>}
    BY <1>9 DEF IxMarks, IxFrom
  <2>. QED  BY <1>n, <2>1 DEF At
<1>. QED  BY <1>1, <1>2, <1>3, <1>4, <1>5, <1>6, <1>7, <1>8, <1>9, IxDoes

LEMMA OrderWorker ==
    ASSUME NEW c, IxReady(c), RunInv(c), StampInv, CalmInv(c), CalmInv(c)',
           HeldNext, OrderFlows, ~stopping, WorkerStep \/ GapStep("worker")
    PROVE  HeldNext' /\ OrderFlows'
<1>0. /\ gen \in Nat /\ recv \in Nat /\ got \in Nat /\ queue \in Seq(Messages) /\ Len(queue) \in Nat
      /\ msg \in [{"ix", "worker"} -> Messages] /\ msg["ix"] \in Messages
      /\ msg["worker"] \in Messages
      /\ pc'["ix"] = pc["ix"]
  BY StreamTypes, WorkerDoes
<1>a. pc["worker"] \notin AskingStacks("loop") /\ pc'["worker"] \notin AskingStacks("loop")
  BY CalmKinds DEF CalmInv
<1>p. Pushing' = Pushing /\ Pushing \in {0, 1} /\ (At("ix", "discard")' <=> At("ix", "discard"))
  BY <1>0 DEF Pushing, At
<1>g. Held \in {0, 1}
  BY DEF Held
<1>d. At("ix", "discard") => pc["ix"] \notin FlowingStacks
  BY FlowKinds DEF At
<1>k. ASSUME StreamKeeps, UNCHANGED resnap, Held' = Held PROVE HeldNext' /\ OrderFlows'
  <2>1. /\ queue' = queue /\ gen' = gen /\ got' = got /\ recv' = recv /\ msg' = msg
             /\ epoch' = epoch
        /\ resnap' = resnap
    BY <1>k DEF StreamKeeps
  <2>2. HeldNext'
    BY <1>k, <2>1, HeldNextSame
  <2>3. Queued => Queued'
    BY <1>k, <2>1, QueuedSame
  <2>. HIDE DEF Held, Pushing, Queued
  <2>. QED  BY <1>0, <1>k, <1>p, <2>1, <2>2, <2>3 DEF OrderFlows
<1>1. CASE WorkerIdles
  <2>1. Held = 0 /\ Held' = 0
    BY <1>1, FlowKinds DEF WorkerIdles, Held
  <2>. QED  BY <1>1, <1>k, <2>1 DEF WorkerIdles
<1>2. CASE WorkerAsking \/ WorkerMarks \/ WorkerAsked
  BY <1>2, <1>a DEF WorkerAsking, WorkerMarks, WorkerAsked
<1>4. CASE WorkerHolds
  <2>2. Held' = Held
    BY <1>4 DEF WorkerHolds, Held, StreamKeeps
  <2>. QED  BY <1>4, <1>k, <2>2 DEF WorkerHolds
<1>5. CASE WorkerDrops
  <2>2. Held = 0 /\ Held' = 0
    BY <1>5, FlowKinds DEF WorkerDrops, Held
  <2>. QED  BY <1>5, <1>k, <2>2 DEF WorkerDrops
<1>6. CASE WorkerTakes
  <2>1. /\ gen' = gen /\ got' = got /\ recv' = recv /\ queue # <<>> /\ queue' = Tail(queue)
        /\ epoch' = epoch /\ resnap' = resnap
        /\ msg'["worker"] = Head(queue) /\ msg'["ix"] = msg["ix"]
        /\ pc["worker"] = <<"pop">> /\ pc'["worker"] = <<"message", "loop">>
    BY <1>0, <1>6 DEF WorkerTakes
  <2>3. Held = 0
    BY <2>1, FlowKinds DEF Held
  <2>4. 1 \in DOMAIN queue /\ Head(queue) = queue[1] /\ Len(queue') = Len(queue) - 1
    BY <1>0, <2>1
  <2>11. Pushing' = 1 => msg'["ix"].gen = gen' /\ msg'["ix"].n = recv'
    BY <1>p, <2>1 DEF OrderFlows
  <2>5. CASE At("ix", "discard")
    <3>1. recv = 0 /\ StampAt(queue[1], gen, recv) /\ queue[1] \in Messages
      BY <2>4, <2>5, StreamTypes DEF OrderFlows, StampInv
    <3>2. queue[1].gen # gen
      BY <1>0, <3>1 DEF StampAt, Messages
    <3>3. Held' = 0
      BY <2>1, <2>4, <3>2 DEF Held
    <3>4. HeldNext'
      BY <3>3 DEF HeldNext
    <3>. HIDE DEF Held, Pushing, Queued
    <3>. QED  BY <1>0, <1>d, <1>p, <2>1, <2>5, <2>11, <3>4 DEF OrderFlows
  <2>6. CASE ~At("ix", "discard")
    <3>1. Queued
      BY <2>6 DEF OrderFlows
    <3>2. queue[1].gen = gen /\ queue[1].n = got + 1 /\ epoch = gen
      BY <1>0, <2>1, <2>3, <2>4, <3>1 DEF Queued
    <3>3. msg'["worker"].gen = gen' /\ msg'["worker"].n = got' + 1 /\ epoch' = gen'
      BY <2>1, <2>4, <3>2
    <3>4. Held' = 1
      BY <2>1, <3>3, FlowKinds DEF Held
    <3>5. HeldNext'
      BY <3>3 DEF HeldNext
    <3>6. ASSUME NEW i \in DOMAIN queue'
          PROVE  i \in Nat /\ i + 1 \in DOMAIN queue /\ queue'[i] = queue[i + 1]
      BY <1>0, <2>1, <3>6
    <3>7. ASSUME NEW i \in DOMAIN queue'
          PROVE  queue'[i].gen = gen' /\ queue'[i].n = got' + Held' + i
      <4>1. i \in Nat /\ queue[i + 1].gen = gen /\ queue[i + 1].n = got + Held + (i + 1)
        BY <3>1, <3>6, <3>7 DEF Queued
      <4>. QED  BY <1>0, <2>1, <2>3, <3>4, <3>6, <3>7, <4>1
    <3>8. Queued'
      BY <3>3, <3>7 DEF Queued
    <3>9. recv = got + Held + Len(queue) + Pushing => recv' = got' + Held' + Len(queue') + Pushing'
      <4>. HIDE DEF Held, Pushing
      <4>. QED  BY <1>0, <1>p, <2>1, <2>3, <2>4, <3>4
    <3>. HIDE DEF Held, Pushing, Queued
    <3>. QED  BY <1>0, <1>p, <2>1, <2>6, <2>11, <3>5, <3>8, <3>9 DEF OrderFlows
  <2>. QED  BY <2>5, <2>6
<1>7. CASE WorkerHands
  <2>1. /\ gen' = gen /\ recv' = recv /\ queue' = queue /\ msg' = msg /\ epoch' = epoch
        /\ resnap' = resnap
        /\ pc["worker"] = <<"deliver", "loop">> /\ pc'["worker"] = <<"typed", "loop">>
        /\ got' = IF msg["worker"].gen = epoch /\ msg["worker"].gen = gen
                  THEN msg["worker"].n ELSE got
    BY <1>7, <1>a, FlowKinds DEF WorkerHands
  <2>3. Held' = 0
    BY <2>1, FlowKinds DEF Held
  <2>4. CASE msg["worker"].gen = gen
    <3>1. Held = 1
      BY <2>1, <2>4, FlowKinds DEF Held
    <3>2. got' = got + 1
      BY <2>1, <2>4, <3>1 DEF HeldNext
    <3>3. HeldNext'
      BY <2>3 DEF HeldNext
    <3>4. ASSUME Queued, NEW i \in DOMAIN queue'
          PROVE  queue'[i].gen = gen' /\ queue'[i].n = got' + Held' + i
      <4>1. i \in Nat /\ queue[i].gen = gen /\ queue[i].n = got + Held + i
        BY <1>0, <2>1, <3>4 DEF Queued
      <4>. QED  BY <1>0, <2>1, <2>3, <3>1, <3>2, <4>1
    <3>5. Queued => Queued'
      <4>. HIDE DEF Held
      <4>. QED  BY <2>1, <3>4 DEF Queued
    <3>6. recv = got + Held + Len(queue) + Pushing => recv' = got' + Held' + Len(queue') + Pushing'
      <4>1. recv' = recv /\ Len(queue') = Len(queue) /\ Pushing' = Pushing
        BY <1>p, <2>1
      <4>. HIDE DEF Held, Pushing
      <4>. QED  BY <1>0, <1>p, <2>3, <3>1, <3>2, <4>1
    <3>. HIDE DEF Held, Pushing, Queued
    <3>. QED  BY <1>0, <1>p, <2>1, <3>3, <3>5, <3>6 DEF OrderFlows
  <2>5. CASE msg["worker"].gen # gen
    <3>1. Held = 0
      BY <2>1, <2>5 DEF Held
    <3>2. StreamKeeps /\ UNCHANGED resnap
      BY <1>7, <2>1, <2>5 DEF WorkerHands, StreamKeeps
    <3>. QED  BY <1>k, <2>3, <3>1, <3>2
  <2>. QED  BY <2>4, <2>5
<1>. QED  BY <1>1, <1>2, <1>4, <1>5, <1>6, <1>7, WorkerDoes

LEMMA OrderCaller ==
    ASSUME NEW c, IxReady(c), RunInv(c), CalmInv(c), HeldNext, OrderFlows, ~stopping,
           CallerSteps(c) \/ GapStep(c) \/ TeardownStep(c)
    PROVE  HeldNext' /\ (~stopping' => OrderFlows')
<1>a. pc[c] \notin GapCalls \cup {<<"exchange">>}
  BY CalmKinds DEF CalmInv
<1>e. Queued => (queue' \in {queue, <<>>} /\ gen' = gen /\ got' = got /\ epoch' = epoch
                 /\ Held' = Held => Queued')
  <2>1. ASSUME queue' = <<>> PROVE Queued'
    BY <2>1 DEF Queued
  <2>. QED  BY <2>1, QueuedSame
<1>1. CASE CallPasses(c)
  <2>1. /\ queue' = queue /\ gen' = gen /\ got' = got /\ recv' = recv /\ msg' = msg
             /\ epoch' = epoch
        /\ resnap' = resnap /\ pc'["ix"] = pc["ix"] /\ pc'["worker"] = pc["worker"]
    BY <1>1 DEF CallPasses, StreamKeeps, LibraryStays
  <2>2. Held' = Held /\ Pushing' = Pushing /\ (At("ix", "discard")' <=> At("ix", "discard"))
    BY <2>1 DEF Held, Pushing, At
  <2>3. HeldNext' /\ (Queued => Queued')
    BY <2>1, <2>2, HeldNextSame, QueuedSame
  <2>. HIDE DEF Held, Pushing, Queued
  <2>. QED  BY <2>1, <2>2, <2>3 DEF OrderFlows
<1>2. CASE CallAsked(c) \/ CallMarks(c)
  BY <1>2, <1>a DEF CallAsked, CallMarks
<1>3. CASE CallLaunches(c)
  <2>1. /\ DataKeeps /\ state = "DISCONNECTED"
        /\ \/ pc'["worker"] = pc["worker"]
           \/ pc["worker"] \in {<<>>, <<"done">>} /\ pc'["worker"] = <<"loop">>
        /\ \/ pc'["ix"] = pc["ix"]
           \/ pc["ix"] = <<>> /\ pc'["ix"] = <<"dial">>
    BY <1>3 DEF CallLaunches
  <2>2. pc["ix"] \notin OpenStacks
    BY <2>1 DEF RunInv, OpenState
  <2>3. pc'["ix"] \notin FlowingStacks /\ pc'["ix"] \notin RenewStacks
    <3>1. pc["ix"] \notin FlowingStacks /\ pc["ix"] \notin RenewStacks
      BY <2>2, OrderKinds, FlowKinds DEF OpenStacks
    <3>2. <<"dial">> \notin FlowingStacks /\ <<"dial">> \notin RenewStacks
      BY FlowKinds DEF RenewStacks
    <3>. QED  BY <2>1, <3>1, <3>2
  <2>4. Pushing' = 0 /\ pc'["ix"] \notin {<<"stamp", "poll">>, <<"push", "poll">>}
    BY <2>3, OrderKinds DEF Pushing
  <2>5. At("ix", "discard")' <=> At("ix", "discard")
    BY <2>1 DEF At
  <2>6. /\ gen' = gen /\ got' = got /\ recv' = recv /\ msg' = msg /\ epoch' = epoch
        /\ queue' \in {queue, <<>>}
    BY <2>1 DEF DataKeeps
  <2>7. Held' = Held
    <3>1. ASSUME pc["worker"] \in {<<>>, <<"done">>} PROVE pc["worker"] \notin HoldingStacks
      BY <3>1 DEF HoldingStacks
    <3>2. <<"loop">> \notin HoldingStacks
      BY FlowKinds
    <3>. QED  BY <2>1, <2>6, <3>1, <3>2 DEF Held
  <2>8. HeldNext' /\ (Queued => Queued')
    BY <1>e, <2>6, <2>7, HeldNextSame
  <2>. HIDE DEF Held, Pushing, Queued
  <2>. QED  BY <2>3, <2>4, <2>5, <2>6, <2>8 DEF OrderFlows
<1>4. CASE CallStops(c)
  <2>1. DataKeeps /\ pc'["ix"] = pc["ix"] /\ pc'["worker"] = pc["worker"]
        /\ (stopping' \/ pc'["ix"] = <<>>)
    BY <1>4 DEF CallStops, LibraryStays
  <2>2. /\ gen' = gen /\ got' = got /\ recv' = recv /\ msg' = msg /\ epoch' = epoch
        /\ queue' \in {queue, <<>>}
    BY <2>1 DEF DataKeeps
  <2>3. Held' = Held
    BY <2>1, <2>2 DEF Held
  <2>4. HeldNext' /\ (Queued => Queued')
    BY <1>e, <2>2, <2>3, HeldNextSame
  <2>5. ASSUME pc'["ix"] = <<>> PROVE OrderFlows'
    <3>1. /\ Pushing' = 0 /\ pc'["ix"] \notin {<<"stamp", "poll">>, <<"push", "poll">>}
          /\ pc'["ix"] \notin RenewStacks /\ pc'["ix"] \notin FlowingStacks
      BY <2>5, FlowKinds DEF Pushing, RenewStacks
    <3>2. ~At("ix", "discard")' /\ ~At("ix", "discard")
      BY <2>1, <2>5 DEF At
    <3>3. Queued'
      BY <2>4, <3>2 DEF OrderFlows
    <3>. HIDE DEF Held, Pushing, Queued
    <3>. QED  BY <3>1, <3>2, <3>3 DEF OrderFlows
  <2>. QED  BY <2>1, <2>4, <2>5
<1>. QED  BY <1>1, <1>2, <1>3, <1>4, CallerDoes

(* A stop that is pending leaves a message about to be delivered, and its generation, alone. *)
LEMMA DeliverKeeps ==
    ASSUME NEW c, IxReady(c), Next, stopping, pc'["worker"] = <<"deliver", "loop">>
    PROVE  /\ pc["worker"] = <<"deliver", "loop">> /\ gen' = gen /\ got' = got
           /\ msg'["worker"] = msg["worker"]
<1>. USE DEF flagVars, streamVars
<1>0. /\ "ix" \in Threads /\ "worker" \in Threads /\ "teardown" \in Threads
      /\ pc \in [Threads -> Seq(Steps)] /\ msg \in [{"ix", "worker"} -> Messages]
  BY IxReadyFacts, StreamTypes
<1>1. CASE IxStep \/ Environment \/ GapStep("ix")
  <2>1. pc'["worker"] = pc["worker"]
    BY <1>0, <1>1, IxGoes DEF Go
  <2>2. CASE IxStep \/ Environment
    <3>1. gen' = gen /\ got' = got
      BY <2>2 DEF IxStep, Environment, HandleOpen, RestoreSubscriptions, TransportCallback,
         HandleClose, HandleError, EnqueueCheck, EnqueueStamp, Push, Dial, DialFails,
         ConnectionDrops, Receive
    <3>2. msg' = msg \/ \E m : msg' = [msg EXCEPT !["ix"] = m]
      BY <2>2 DEF IxStep, Environment, HandleOpen, RestoreSubscriptions, TransportCallback,
         HandleClose, HandleError, EnqueueCheck, EnqueueStamp, Push, Dial, DialFails,
         ConnectionDrops, Receive
    <3>3. msg'["worker"] = msg["worker"]
      BY <1>0, <3>2
    <3>. QED  BY <2>1, <3>1, <3>3
  <2>3. CASE GapStep("ix")
    <3>1. gen' = gen /\ got' = got /\ msg' = msg
      BY <2>3 DEF GapStep, MarkGap, DiscardPending, StreamGapCallback, ResnapshotCheck,
         ResnapshotExchange, ResnapshotClose
    <3>. QED  BY <2>1, <3>1
  <2>. QED  BY <1>1, <2>2, <2>3
<1>2. CASE WorkerStep \/ GapStep("worker")
  <2>m. ASSUME NEW from, NEW to, Moves("worker", from, to) PROVE to = <<"deliver", "loop">>
    BY <1>0, <2>m DEF Moves
  <2>1. CASE WorkerLoop \/ Pop
    BY <2>1, <2>m, WorkerPops
  <2>2. CASE DispatchMessage
    <3>1. Superseded
      BY DEF Superseded
    <3>. QED  BY <2>2, <2>m, <3>1, WorkerDispatches
  <2>3. CASE Deliver
    BY <2>3, <2>m, WorkerDelivers
  <2>4. CASE GapStep("worker")
    BY <2>4, <2>m, WorkerAsks DEF GapStep
  <2>. QED  BY <1>2, <2>1, <2>2, <2>3, <2>4 DEF WorkerStep
<1>3. CASE TransportWake
  BY <1>0, <1>3, TransportWakes DEF Moves
<1>4. CASE TransportFinal
  BY <1>0, <1>4, TransportEnds DEF Moves
<1>5. CASE TeardownStep("teardown")
  <2>1. UNCHANGED <<msg, gen, got>>
    BY <1>5, TransportTears
  <2>2. pc'["worker"] = pc["worker"] \/ pc'["worker"] = <<>>
    BY <1>0, <1>5, TransportTears
  <2>. QED  BY <2>1, <2>2
<1>6. CASE CallerSteps(c) \/ GapStep(c) \/ TeardownStep(c)
  BY <1>6, CallerWaits
<1>. QED  BY <1>1, <1>2, <1>3, <1>4, <1>5, <1>6, IxOrOther DEF OtherStep, TransportStep

(* Only a delivery can break the order. *)
LEMMA OrderedKeeps ==
    ASSUME NEW c, IxReady(c), ordered, DeliverNext, [Next]_vars
    PROVE  ordered'
<1>. USE DEF flagVars, streamVars
<1>1. CASE UNCHANGED vars
  BY <1>1 DEF vars
<1>2. CASE Deliver
  <2>1. pc["worker"] = <<"deliver", "loop">>
    BY <1>2, IxReadyFacts, WorkerDelivers DEF Moves
  <2>2. msg["worker"].gen = gen => msg["worker"].n = got + 1
    BY <2>1 DEF DeliverNext
  <2>3. ordered' = (ordered /\ (msg["worker"].gen = epoch /\ msg["worker"].gen = gen
                                => msg["worker"].n = got + 1))
    BY <1>2 DEF Deliver
  <2>. QED  BY <2>2, <2>3
<1>3. CASE IxStep \/ Environment
  BY <1>3 DEF IxStep, Environment, HandleOpen, RestoreSubscriptions, TransportCallback,
     HandleClose, HandleError, EnqueueCheck, EnqueueStamp, Push, Dial, DialFails,
     ConnectionDrops, Receive
<1>4. ASSUME NEW t, GapStep(t) PROVE ordered'
  BY <1>4 DEF GapStep, MarkGap, DiscardPending, StreamGapCallback, ResnapshotCheck,
     ResnapshotExchange, ResnapshotClose
<1>5. CASE WorkerLoop \/ Pop \/ DispatchMessage
  BY <1>5 DEF WorkerLoop, Pop, DispatchMessage
<1>6. ASSUME NEW t, TeardownStep(t) PROVE ordered'
  BY <1>6 DEF TeardownStep, WsStop, StopMessageWorker, Publish
<1>7. CASE TransportStep
  BY <1>7 DEF TransportStep, TransportWake, TransportFinal
<1>8. CASE CallStep(c) \/ Disconnect(c) \/ AwaitTransportStop(c)
  BY <1>8 DEF CallStep, ConnectEntry, ConnectRetire, ConnectStart, ConnectLaunch, Disconnect,
     AwaitTransportStop
<1>9. CASE CallConnect(c) \/ CallDisconnect(c) \/ CallResnapshot(c)
  BY <1>9 DEF CallConnect, CallDisconnect, CallResnapshot
<1>. QED  BY <1>1, <1>2, <1>3, <1>4, <1>5, <1>6, <1>7, <1>8, <1>9, WhoSteps DEF WorkerStep

LEMMA CalmStep ==
    ASSUME NEW c, IxReady(c), Spared, CalmInv(c), [Next]_vars
    PROVE  CalmInv(c)'
<1>0. /\ "ix" \in Threads /\ "worker" \in Threads /\ "teardown" \in Threads /\ c \in Threads
      /\ pc \in [Threads -> Seq(Steps)] /\ c # "ix" /\ c # "worker" /\ c # "teardown"
  BY IxReadyFacts
<1>1. CASE UNCHANGED vars
  BY <1>1 DEF vars, CalmInv
<1>2. CASE IxStep \/ Environment \/ GapStep("ix")
  BY <1>0, <1>2, IxGoes DEF Go, CalmInv
<1>3. CASE WorkerStep \/ GapStep("worker")
  <2>1. pc'[c] = pc[c]
    BY <1>0, <1>3, WorkerGoes DEF Go
  <2>. QED  BY <1>3, <2>1, CalmWorker DEF CalmInv
<1>4. CASE TransportWake
  BY <1>0, <1>4, TransportWakes DEF Moves, CalmInv
<1>5. CASE TransportFinal
  BY <1>0, <1>5, TransportEnds DEF Moves, CalmInv
<1>6. CASE TeardownStep("teardown")
  <2>1. pc'[c] = pc[c] /\ (pc'["worker"] = pc["worker"] \/ pc'["worker"] = <<>>)
    BY <1>0, <1>6, TransportTears
  <2>. QED  BY <2>1, CalmKinds DEF CalmInv
<1>7. CASE CallerSteps(c) \/ GapStep(c) \/ TeardownStep(c)
  <2>1. pc'["worker"] \in {pc["worker"], <<"loop">>}
    BY <1>7, CallerKeeps, CallerWaits
  <2>2. Calm(pc'["worker"])
    BY <2>1, CalmKinds DEF CalmInv
  <2>. QED  BY <1>7, <2>2, CalmCaller DEF CalmInv
<1>. QED  BY <1>1, <1>2, <1>3, <1>4, <1>5, <1>6, <1>7, IxOrOther DEF OtherStep, TransportStep

LEMMA OrderStep ==
    ASSUME NEW c, LossInv(c), Spared, CalmInv(c), OrderInv(c), [Next]_vars
    PROVE  OrderInv(c)'
<1>0. /\ IxReady(c) /\ MarkInv /\ RunInv(c) /\ DrainInv /\ StampInv /\ ToldInv /\ OpeningInv
      /\ ordered /\ DeliverNext /\ (~stopping => HeldNext /\ OrderFlows)
  BY DEF LossInv, OrderInv
<1>1. ordered'
  BY <1>0, OrderedKeeps
<1>2. HeldNext' => DeliverNext'
  BY FlowKinds DEF HeldNext, DeliverNext, Held
<1>3. CASE UNCHANGED vars
  <2>1. /\ pc' = pc /\ queue' = queue /\ gen' = gen /\ got' = got /\ recv' = recv /\ msg' = msg
        /\ epoch' = epoch /\ resnap' = resnap /\ stopping' = stopping
    BY <1>3 DEF vars
  <2>2. Held' = Held /\ Pushing' = Pushing /\ (At("ix", "discard")' <=> At("ix", "discard"))
    BY <2>1 DEF Held, Pushing, At
  <2>3. (HeldNext => HeldNext') /\ (Queued => Queued')
    BY <2>1, <2>2, HeldNextSame, QueuedSame
  <2>4. OrderFlows => OrderFlows'
    <3>. HIDE DEF Held, Pushing, Queued
    <3>. QED  BY <2>1, <2>2, <2>3 DEF OrderFlows
  <2>5. DeliverNext'
    BY <1>0, <2>1 DEF DeliverNext
  <2>. QED  BY <1>0, <1>1, <2>1, <2>3, <2>4, <2>5 DEF OrderInv
<1>4. CASE Next /\ stopping /\ stopping'
  <2>1. DeliverNext'
    BY <1>0, <1>4, DeliverKeeps DEF DeliverNext
  <2>. QED  BY <1>1, <1>4, <2>1 DEF OrderInv
<1>5. CASE Next /\ stopping /\ ~stopping'
  <2>1. /\ TransportFinal /\ pc'["ix"] = <<>> /\ pc'["worker"] = <<>>
        /\ pc["teardown"] = <<"final">>
    BY <1>0, <1>5, StopIdle
  <2>2. queue' = <<>>
    BY <1>0, <2>1, TransportEnds DEF DrainInv, DrainStacks, queueVars
  <2>3. Held' = 0 /\ Pushing' = 0 /\ ~At("ix", "discard")'
    BY <2>1 DEF Held, Pushing, At, HoldingStacks
  <2>4. HeldNext' /\ Queued'
    BY <2>2, <2>3 DEF HeldNext, Queued
  <2>5. /\ pc'["ix"] \notin {<<"stamp", "poll">>, <<"push", "poll">>}
        /\ pc'["ix"] \notin RenewStacks /\ pc'["ix"] \notin FlowingStacks
    BY <2>1, FlowKinds DEF RenewStacks
  <2>6. OrderFlows'
    <3>. HIDE DEF Held, Pushing, Queued
    <3>. QED  BY <2>3, <2>4, <2>5 DEF OrderFlows
  <2>. QED  BY <1>1, <1>2, <2>4, <2>6 DEF OrderInv
<1>6. CASE Next /\ ~stopping
  <2>1. ~(TransportStep \/ TeardownStep("teardown"))
    BY <1>0, <1>6, TransportWakes, TransportEnds, TransportTears DEF TransportStep
  <2>2. CASE IxStep \/ Environment \/ GapStep("ix")
    BY <1>0, <1>1, <1>2, <1>6, <2>2, OrderIx DEF OrderInv
  <2>3. CASE WorkerStep \/ GapStep("worker")
    <3>1. CalmInv(c)'
      BY <1>0, CalmStep
    <3>. QED  BY <1>0, <1>1, <1>2, <1>6, <2>3, <3>1, OrderWorker DEF OrderInv
  <2>4. CASE CallerSteps(c) \/ GapStep(c) \/ TeardownStep(c)
    BY <1>0, <1>1, <1>2, <1>6, <2>4, OrderCaller DEF OrderInv
  <2>. QED  BY <1>0, <1>6, <2>1, <2>2, <2>3, <2>4, IxOrOther DEF OtherStep
<1>. QED  BY <1>3, <1>4, <1>5, <1>6

(* In the histories of calls the events that make another thread mark a gap are used up. *)
CallsInOrder(c) ==
    /\ LossInv(c) /\ "kind" \in DOMAIN budget
    /\ budget["kind"] = "calls" => Spared /\ CalmInv(c) /\ OrderInv(c)

LEMMA OrderInit ==
    ASSUME NEW c, OneCaller(c), MCInit
    PROVE  CallsInOrder(c)
<1>1. LossInv(c)
  BY LossInit DEF MCInit
<1>2. "ix" \in Threads /\ "worker" \in Threads /\ c \in Threads
  BY <1>1, IxReadyFacts DEF LossInv
<1>3. /\ pc["ix"] = <<>> /\ pc["worker"] = <<>> /\ pc[c] = <<>> /\ queue = <<>> /\ ordered
  BY <1>2 DEF MCInit, InitState
<1>4. CalmInv(c)
  BY <1>3, CalmKinds DEF CalmInv
<1>5. Held = 0 /\ Pushing = 0 /\ ~At("ix", "discard")
  BY <1>3 DEF Held, Pushing, At, HoldingStacks
<1>6. HeldNext /\ Queued /\ DeliverNext
  BY <1>3, <1>5 DEF HeldNext, Queued, DeliverNext
<1>7. /\ pc["ix"] \notin {<<"stamp", "poll">>, <<"push", "poll">>}
      /\ pc["ix"] \notin RenewStacks /\ pc["ix"] \notin FlowingStacks
  BY <1>3, FlowKinds DEF RenewStacks
<1>8. OrderFlows
  <2>. HIDE DEF Held, Pushing, Queued
  <2>. QED  BY <1>5, <1>6, <1>7 DEF OrderFlows
<1>9. OrderInv(c)
  BY <1>3, <1>6, <1>8 DEF OrderInv
<1>10. /\ "kind" \in DOMAIN budget
       /\ budget["kind"] = "calls" => Spared
  <2>1. CASE budget = Spent("calls", 0, 0, MaxRequests, 0, 0, 0, MaxThrows, MaxIdles)
    BY <2>1 DEF Spent, Spared, Causes
  <2>2. ASSUME NEW causes, NEW ends,
               budget = Spent("resnapshots", MaxConnects - 1, MaxStops, causes[1],
                              ends[1], ends[2], MaxFailures, causes[2], causes[3])
        PROVE  "kind" \in DOMAIN budget /\ budget["kind"] # "calls"
    BY <2>2 DEF Spent
  <2>. QED  BY <2>1, <2>2 DEF MCInit
<1>. QED  BY <1>1, <1>4, <1>9, <1>10 DEF CallsInOrder

LEMMA OrderKeeps ==
    ASSUME NEW c, CallsInOrder(c), [Next]_vars
    PROVE  CallsInOrder(c)'
<1>1. LossInv(c) /\ IxReady(c) /\ "kind" \in DOMAIN budget
  BY DEF CallsInOrder, LossInv
<1>2. "kind" \in DOMAIN budget' /\ budget'["kind"] = budget["kind"]
  BY <1>1, KindStep
<1>3. ASSUME budget["kind"] = "calls" PROVE Spared' /\ CalmInv(c)' /\ OrderInv(c)'
  <2>1. Spared /\ CalmInv(c) /\ OrderInv(c)
    BY <1>3 DEF CallsInOrder
  <2>. QED  BY <1>1, <2>1, SparedStep, CalmStep, OrderStep
<1>. QED  BY <1>1, <1>2, <1>3, LossStep DEF CallsInOrder

(* MESSAGES ARRIVE IN ORDER.  With one user thread that does not stop the client from a
   callback, and as long as only the IX thread marks gaps, the sequenced callback admits the
   messages of a generation one after the other, from the first one and without a hole: across
   any number of connects, stops, failed dials, dropped connections, reconnects, bursts and
   overflows of the queue, for every queue limit (enqueue_message, push_message, message_loop,
   dispatch_message, mark_stream_gap). *)
THEOREM MessagesInOrder ==
    ASSUME NEW c, OneCaller(c)
    PROVE  MCSpec => []InOrderAcrossCalls
<1>1. MCInit => CallsInOrder(c)
  BY OrderInit
<1>2. CallsInOrder(c) /\ [Next]_vars => CallsInOrder(c)'
  BY OrderKeeps
<1>3. CallsInOrder(c) => InOrderAcrossCalls
  BY DEF CallsInOrder, OrderInv, InOrderAcrossCalls, InOrder
<1>. QED  BY <1>1, <1>2, <1>3, PTL DEF MCSpec

=============================================================================
