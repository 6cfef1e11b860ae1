---------------------------- MODULE StreamProofs ----------------------------
(***************************************************************************)
(* Safety of the four stream runtimes over GapStream, for every value of   *)
(* the constants and any number of calls, messages and faults.  They share *)
(* no state: each has an inductive invariant of its own (RpcInv, PublicInv,*)
(* UserInv, BookInv), preserved by its own actions one lemma at a time and *)
(* left alone by the steps of the others.                                  *)
(***************************************************************************)
EXTENDS StreamRuntimes, SequenceTheorems, FiniteSetTheorems, TLAPS

(* A step of the composition is a step of the runtime it is about; the others do not
   change. *)
LEMMA StepOfOne ==
    ASSUME [Next]_allVars
    PROVE  /\ User!Next \/ UNCHANGED u_vars
           /\ Books!Next \/ UNCHANGED o_vars
           /\ Public!Next \/ UNCHANGED p_vars
           /\ Rpc!Next \/ UNCHANGED j_vars
<1>1. CASE UNCHANGED allVars
  BY <1>1 DEF allVars
<1>2. CASE Next
  BY <1>2 DEF Next, OnlyUser, OnlyBooks, OnlyPublic, OnlyRpc, OnlyFills
<1> QED BY <1>1, <1>2

-----------------------------------------------------------------------------
(* JsonRpcWs. *)

RpcSubscribes ==
    {Rpc!Idle} \cup [pc : {"read"}] \cup [pc : {"check", "send"}, gen : Nat]
RpcReplays == {Rpc!Idle} \cup [pc : {"send"}, next : Nat, last : Nat, gen : Nat]

RpcTypeOK ==
    /\ j_link \in Rpc!Phases /\ j_gen \in Nat /\ j_reports \subseteq Rpc!Reports
    /\ j_closing \in BOOLEAN /\ j_owner \in BOOLEAN /\ j_active \in BOOLEAN /\ j_sgen \in Nat
    /\ j_user \in {"idle", "start", "stop"}
    /\ j_stored \in Nat /\ j_sent \in Seq(Nat) /\ Len(j_sent) = j_stored /\ j_failed \in BOOLEAN
    /\ j_subs \in RpcSubscribes /\ j_resub \in RpcReplays
    /\ j_heard \in Nat /\ j_loss \in Nat

(* The life of the stream: an inactive one excuses what is not sent, and only the connect
   callback of a connection replays. *)
RpcLife ==
    /\ j_active => j_owner
    /\ j_user = "start" => j_active
    /\ j_user = "stop" => ~j_active
    /\ ~j_active => j_loss = 0 /\ (j_link # "off" => j_failed)
    /\ j_resub # Rpc!Idle => j_link = "connect" /\ j_resub.next > 0 /\ j_resub.last <= j_stored
    /\ j_link \in {"opened", "restore", "replay", "connect", "up", "lost"} => j_gen > 0

(* The caller of a subscription has not come to its send, and the replay of this connection
   will not come to it any more. *)
RpcPending(i) == j_subs # Rpc!Idle /\ i = j_stored
RpcPassed(i) ==
    \/ j_link \notin {"opened", "restore", "replay", "connect"}
    \/ j_resub # Rpc!Idle /\ j_resub.next > i

RpcCounts ==
    \A i \in 1 .. j_stored :
        /\ j_sent[i] <= 2
        /\ RpcPending(i) => j_sent[i] <= 1
        /\ ~RpcPassed(i) => j_sent[i] <= 1
        /\ RpcPending(i) /\ ~RpcPassed(i) => j_sent[i] = 0

RpcReplayed(i) ==
    \/ j_link = "up"
    \/ j_link = "connect" /\ j_resub # Rpc!Idle /\ (j_resub.next > i \/ j_resub.last < i)
RpcKept ==
    j_active /\ ~j_closing /\ ~j_failed =>
        \A i \in 1 .. j_stored : RpcReplayed(i) => j_sent[i] > 0 \/ RpcPending(i)

RpcLoss ==
    j_active => \/ j_heard >= j_loss
                \/ j_link = "lost" /\ j_loss > 1
                   /\ \E r \in j_reports : r.own /\ ~r.told /\ r.gen = j_loss

RpcInv == RpcTypeOK /\ RpcLife /\ RpcCounts /\ RpcKept /\ RpcLoss

LEMMA RpcIdle ==
    /\ Rpc!Idle.pc = "idle" /\ Rpc!Idle \in RpcSubscribes /\ Rpc!Idle \in RpcReplays
    /\ \A s \in RpcSubscribes : s = Rpc!Idle <=> s.pc = "idle"
    /\ \A s \in RpcReplays : s = Rpc!Idle <=> s.pc = "idle"
  BY DEF Rpc!Idle, RpcSubscribes, RpcReplays

(* A step that leaves the subscriptions alone: what it has to show of the connection. *)
LEMMA RpcFrame ==
    ASSUME RpcInv,
           UNCHANGED <<j_owner, j_active, j_sgen, j_stored, j_sent, j_failed, j_subs, j_resub>>,
           j_user' \in {j_user, "idle"}, j_heard' \in Nat, j_loss' \in Nat, ~j_active
             => j_loss' = j_loss,
           j_link' \in Rpc!Phases, j_gen' \in Nat, j_gen' >= j_gen, j_closing' \in BOOLEAN,
           j_reports' \subseteq Rpc!Reports,
           j_resub = Rpc!Idle \/ j_link' = j_link,
           j_link' \in {"opened", "restore", "replay", "connect"} =>
               j_link \in {"opened", "restore", "replay", "connect"},
           j_link' \in {"up", "lost"} => j_link \in {"up", "lost"},
           j_link' = "up" => j_link = "up",
           j_link' \in {"connect", "up"} /\ ~j_closing' => ~j_closing,
           j_link' # "off" /\ ~j_active => j_link # "off",
           RpcLoss'
    PROVE  RpcInv'
<1>1. RpcTypeOK'
  BY DEF RpcInv, RpcTypeOK
<1>2. RpcLife'
  BY DEF RpcInv, RpcTypeOK, RpcLife
<1>3. \A i \in 1 .. j_stored : (RpcPending(i)' <=> RpcPending(i)) /\ (RpcPassed(i) => RpcPassed(i)')
  BY DEF RpcInv, RpcLife, RpcPending, RpcPassed
<1>4. RpcCounts'
  BY <1>3 DEF RpcInv, RpcCounts
<1>5. \A i \in 1 .. j_stored : ~j_closing' /\ RpcReplayed(i)' => ~j_closing /\ RpcReplayed(i)
  BY DEF RpcInv, RpcLife, RpcReplayed
<1>6. RpcKept'
  BY <1>3, <1>5 DEF RpcInv, RpcKept
<1> QED BY <1>1, <1>2, <1>4, <1>6 DEF RpcInv

LEMMA RpcDraw ==
    ASSUME RpcTypeOK, NEW own \in BOOLEAN, Rpc!Draw(own)
    PROVE  /\ j_gen' = j_gen + 1 /\ j_gen' \in Nat /\ j_gen' > j_gen
                /\ j_reports' \subseteq Rpc!Reports
           /\ j_reports \subseteq j_reports'
           /\ \E r \in j_reports' : r.gen = j_gen' /\ r.own = own /\ ~r.told
<1> DEFINE r == [gen |-> j_gen + 1, own |-> own, told |-> FALSE]
<1>1. j_gen + 1 \in Nat /\ j_gen + 1 > j_gen
  BY DEF RpcTypeOK
<1>2. r \in Rpc!Reports /\ r.gen = j_gen + 1 /\ r.own = own /\ ~r.told
  BY <1>1 DEF Rpc!Reports
<1>3. j_gen' = j_gen + 1 /\ j_reports' = j_reports \cup {r}
  BY DEF Rpc!Draw
<1> HIDE DEF r
<1> QED BY <1>1, <1>2, <1>3 DEF RpcTypeOK

(* The transport, but for a new connection. *)
LEMMA RpcQuietTransport ==
    ASSUME RpcInv,
           \/ Rpc!Publish \/ (j_link = "restore" /\ Rpc!Replay) \/ Rpc!Lost \/ Rpc!Closed
                \/ Rpc!Failed
           \/ Rpc!PeerCloses \/ Rpc!DialFails
           \/ \E r \in j_reports : Rpc!Abandon(r) \/ Rpc!CloseSocket(r),
           UNCHANGED <<j_owner, j_active, j_sgen, j_user, j_stored, j_sent, j_failed, j_subs,
                       j_resub, j_heard, j_loss>>
    PROVE  RpcInv'
<1>1. CASE \/ Rpc!Publish \/ (j_link = "restore" /\ Rpc!Replay) \/ Rpc!Closed \/ Rpc!Failed
  <2>1. RpcLoss'
    BY <1>1 DEF RpcInv, RpcLoss, Rpc!Publish, Rpc!Replay, Rpc!Closed, Rpc!Failed
  <2> QED BY <1>1, <2>1, RpcFrame DEF RpcInv, RpcTypeOK, RpcLife, Rpc!Publish, Rpc!Replay,
             Rpc!Closed,
                                      Rpc!Failed, Rpc!Phases
<1>2. CASE Rpc!Lost
  <2>1. RpcLoss'
    BY <1>2 DEF RpcInv, RpcLoss, Rpc!Lost, Rpc!OwnReported
  <2> QED BY <1>2, <2>1, RpcFrame DEF RpcInv, RpcTypeOK, RpcLife, Rpc!Lost, Rpc!Phases
<1>3. CASE Rpc!PeerCloses
  <2>1. RpcLoss' /\ j_closing'
    BY <1>3 DEF RpcInv, RpcLoss, Rpc!PeerCloses
  <2>2. j_closing' \in BOOLEAN
    BY <1>3 DEF Rpc!PeerCloses
  <2> QED BY <1>3, <2>1, <2>2, RpcFrame DEF RpcInv, RpcTypeOK, RpcLife, Rpc!PeerCloses, Rpc!Phases
<1>4. CASE Rpc!DialFails
  <2>1. j_link = "dial" /\ j_link' = "failed" /\ j_closing' = j_closing /\ Rpc!Draw(TRUE)
    BY <1>4 DEF Rpc!DialFails
  <2>2. j_gen' \in Nat /\ j_gen' > j_gen /\ j_reports' \subseteq Rpc!Reports
    BY <2>1, RpcDraw DEF RpcInv
  <2>3. RpcLoss'
    BY <2>1 DEF RpcInv, RpcLoss
  <2> QED BY <2>1, <2>2, <2>3, RpcFrame DEF RpcInv, RpcTypeOK, RpcLife, Rpc!Phases
<1>5. ASSUME NEW r \in j_reports, Rpc!Abandon(r) PROVE RpcInv'
  <2>1. RpcLoss'
    BY <1>5 DEF RpcInv, RpcLoss, Rpc!Abandon
  <2> QED BY <1>5, <2>1, RpcFrame DEF RpcInv, RpcTypeOK, RpcLife, Rpc!Abandon, Rpc!Phases
<1>6. ASSUME NEW r \in j_reports, Rpc!CloseSocket(r) PROVE RpcInv'
  <2>1. /\ r.told /\ j_reports' = j_reports \ {r} /\ UNCHANGED <<j_link, j_gen>>
        /\ j_closing' \in BOOLEAN /\ (j_closing => j_closing')
    BY <1>6 DEF Rpc!CloseSocket, RpcInv, RpcTypeOK
  <2>2. RpcLoss'
    BY <2>1 DEF RpcInv, RpcLoss
  <2> QED BY <2>1, <2>2, RpcFrame DEF RpcInv, RpcTypeOK, RpcLife, Rpc!Phases
<1> QED BY <1>1, <1>2, <1>3, <1>4, <1>5, <1>6

LEMMA RpcDrop ==
    ASSUME RpcInv, Rpc!Drop, j_loss' = IF j_active THEN j_gen' ELSE j_loss,
           UNCHANGED <<j_owner, j_active, j_sgen, j_user, j_stored, j_sent, j_failed, j_subs,
                       j_resub, j_heard>>
    PROVE  RpcInv'
<1>1. j_link = "up" /\ j_link' = "lost" /\ j_closing' = FALSE /\ Rpc!Draw(TRUE)
  BY DEF Rpc!Drop
<1>2. /\ j_gen' = j_gen + 1 /\ j_gen' \in Nat /\ j_gen' > j_gen /\ j_reports' \subseteq Rpc!Reports
      /\ \E r \in j_reports' : r.gen = j_gen' /\ r.own /\ ~r.told
  BY <1>1, RpcDraw DEF RpcInv
<1>3. j_gen > 0 /\ j_gen \in Nat /\ j_closing' \in BOOLEAN
  BY <1>1 DEF RpcInv, RpcLife, RpcTypeOK
<1>4. RpcLoss'
  BY <1>1, <1>2, <1>3 DEF RpcLoss
<1> QED BY <1>1, <1>2, <1>3, <1>4, RpcFrame DEF RpcInv, RpcTypeOK, RpcLife, Rpc!Phases

LEMMA RpcEndCall == ASSUME RpcInv, Rpc!EndCall PROVE RpcInv'
<1>1. CASE j_user = "start" /\ Rpc!Start
  <2>1. /\ j_active
        /\ UNCHANGED <<j_gen, j_reports>>
        /\ \/ j_link = "off" /\ j_link' = "dial" /\ j_closing' = FALSE
           \/ UNCHANGED <<j_link, j_closing>>
    BY <1>1 DEF RpcInv, RpcLife, Rpc!Start
  <2>2. RpcLoss' /\ j_closing' \in BOOLEAN
    BY <2>1 DEF RpcInv, RpcTypeOK, RpcLoss, Rpc!EndCall
  <2> QED BY <1>1, <2>1, <2>2, RpcFrame DEF RpcInv, RpcTypeOK, RpcLife, Rpc!EndCall, Rpc!subVars,
             Rpc!Phases
<1>2. CASE j_user = "stop" /\ j_resub = Rpc!Idle /\ Rpc!Stop
  <2>1. /\ ~j_active /\ j_link' = "off" /\ j_closing' = FALSE /\ UNCHANGED j_gen
        /\ j_reports' \subseteq j_reports
    BY <1>2 DEF RpcInv, RpcLife, Rpc!Stop
  <2>2. RpcLoss' /\ j_closing' \in BOOLEAN
    BY <2>1 DEF RpcLoss, Rpc!EndCall
  <2> QED BY <1>2, <2>1, <2>2, RpcFrame DEF RpcInv, RpcTypeOK, RpcLife, Rpc!EndCall, Rpc!subVars,
             Rpc!Phases
<1> QED BY <1>1, <1>2 DEF Rpc!EndCall

LEMMA RpcGapReports == ASSUME RpcInv, Rpc!GapReports PROVE RpcInv'
<1>1. PICK r \in j_reports : Rpc!OnStreamGap(r)
  BY DEF Rpc!GapReports
<1>2. /\ ~r.told /\ UNCHANGED <<j_link, j_gen, j_closing>>
      /\ UNCHANGED <<j_owner, j_active, j_sgen, j_user, j_stored, j_sent, j_failed, j_subs, j_resub,
                     j_loss>>
      /\ j_reports' = (j_reports \ {r}) \cup (IF r.own THEN {} ELSE {[r EXCEPT !.told = TRUE]})
      /\ j_heard' = IF r.gen > 1 THEN Rpc!EmitError(r.gen) ELSE j_heard
  BY <1>1 DEF Rpc!OnStreamGap, Rpc!Report, Rpc!lifeVars, Rpc!subVars
<1>3. r \in Rpc!Reports /\ r.gen \in Nat /\ j_heard \in Nat /\ j_loss \in Nat
  BY DEF RpcInv, RpcTypeOK, Rpc!Reports
<1>4. j_heard' \in Nat /\ j_heard' >= j_heard /\ (j_active /\ r.gen > 1 => j_heard' >= r.gen)
  BY <1>2, <1>3 DEF RpcInv, RpcLife, Rpc!EmitError, Rpc!IsCurrent
<1> DEFINE t == [r EXCEPT !.told = TRUE]
<1>5. t \in Rpc!Reports
  BY <1>3 DEF Rpc!Reports
<1> HIDE DEF t
<1>6. j_reports' \subseteq Rpc!Reports /\ j_reports \ {r} \subseteq j_reports'
  BY <1>2, <1>5 DEF RpcInv, RpcTypeOK, t
<1>7. RpcLoss'
  BY <1>2, <1>3, <1>4, <1>6 DEF RpcInv, RpcLoss
<1> QED BY <1>2, <1>4, <1>6, <1>7, RpcFrame DEF RpcInv, RpcTypeOK, RpcLife

LEMMA RpcOpen ==
    ASSUME RpcInv, Rpc!Open, j_sent' = [i \in DOMAIN j_sent |-> 0], j_failed' = ~j_active,
           UNCHANGED <<j_owner, j_active, j_sgen, j_user, j_stored, j_subs, j_resub, j_heard,
                       j_loss>>
    PROVE  RpcInv'
<1>1. j_link = "dial" /\ j_link' = "opened" /\ j_closing' = j_closing /\ Rpc!Draw(TRUE)
  BY DEF Rpc!Open
<1>2. j_gen' \in Nat /\ j_gen' > j_gen /\ j_gen \in Nat /\ j_reports' \subseteq Rpc!Reports
  BY <1>1, RpcDraw DEF RpcInv, RpcTypeOK
<1>3. DOMAIN j_sent = 1 .. j_stored /\ j_stored \in Nat
  BY DEF RpcInv, RpcTypeOK
<1>4. j_sent' \in Seq(Nat) /\ Len(j_sent') = j_stored /\ \A i \in 1 .. j_stored : j_sent'[i] = 0
  BY <1>3, IsASeq
<1>5. j_resub = Rpc!Idle /\ (j_failed' <=> ~j_active)
  BY <1>1 DEF RpcInv, RpcLife
<1>6. RpcTypeOK'
  BY <1>1, <1>2, <1>4 DEF RpcInv, RpcTypeOK, Rpc!Phases
<1>7. RpcLife'
  BY <1>1, <1>2, <1>5 DEF RpcInv, RpcLife
<1>8. RpcCounts'
  BY <1>4 DEF RpcCounts
<1>9. RpcKept'
  BY <1>1 DEF RpcKept, RpcReplayed
<1>10. RpcLoss'
  BY <1>1 DEF RpcInv, RpcLoss
<1> QED BY <1>6, <1>7, <1>8, <1>9, <1>10 DEF RpcInv

LEMMA RpcTransport == ASSUME RpcInv, Rpc!Transport PROVE RpcInv'
<1>1. UNCHANGED <<j_owner, j_active, j_sgen, j_user, j_stored, j_subs, j_resub, j_heard>>
  BY DEF Rpc!Transport, Rpc!lifeVars
<1>2. CASE Rpc!Open /\ j_sent' = [i \in DOMAIN j_sent |-> 0] /\ j_failed' = ~j_active
             /\ UNCHANGED j_loss
  BY <1>1, <1>2, RpcOpen
<1>3. CASE Rpc!Drop /\ j_loss' = (IF j_active THEN j_gen' ELSE j_loss)
             /\ UNCHANGED <<j_sent, j_failed>>
  BY <1>1, <1>3, RpcDrop
<1>4. CASE /\ \/ Rpc!Publish \/ (j_link = "restore" /\ Rpc!Replay) \/ Rpc!Lost \/ Rpc!Closed
              \/ Rpc!Failed \/ Rpc!PeerCloses \/ Rpc!DialFails
              \/ \E r \in j_reports : Rpc!Abandon(r) \/ Rpc!CloseSocket(r)
           /\ UNCHANGED <<j_sent, j_failed, j_loss>>
  BY <1>1, <1>4, RpcQuietTransport
<1> QED BY <1>2, <1>3, <1>4 DEF Rpc!Transport

LEMMA RpcCall == ASSUME RpcInv, Rpc!Call PROVE RpcInv'
<1>1. /\ UNCHANGED <<j_link, j_gen, j_reports, j_closing, j_stored, j_sent, j_subs, j_resub,
                     j_heard>>
      /\ (j_failed' <=> (j_failed \/ (j_link # "off" /\ ~j_active')))
      /\ j_failed' \in BOOLEAN
  BY DEF Rpc!Call, Rpc!gapVars
<1>2. CASE j_owner /\ j_active' /\ j_user' = "start" /\ UNCHANGED <<j_owner, j_sgen, j_loss>>
             /\ j_active' \in BOOLEAN
  <2>1. j_failed' <=> j_failed
    BY <1>1, <1>2
  <2>2. RpcTypeOK' /\ RpcLife'
    BY <1>1, <1>2 DEF RpcInv, RpcTypeOK, RpcLife
  <2>3. RpcCounts'
    BY <1>1 DEF RpcInv, RpcCounts, RpcPending, RpcPassed
  <2>4. RpcKept'
    BY <1>1, <1>2, <2>1 DEF RpcInv, RpcKept, RpcLife, RpcReplayed, RpcPending
  <2>5. RpcLoss'
    BY <1>1, <1>2 DEF RpcInv, RpcTypeOK, RpcLoss, RpcLife
  <2> QED BY <2>2, <2>3, <2>4, <2>5 DEF RpcInv
<1>3. CASE /\ j_owner' \in {j_owner, FALSE} /\ ~j_active' /\ j_active' \in BOOLEAN
           /\ j_sgen' = (IF j_active THEN j_sgen + 1 ELSE j_sgen)
           /\ j_user' = "stop" /\ j_loss' = 0
  <2> j_sgen' \in Nat
    BY <1>3 DEF RpcInv, RpcTypeOK
  <2>1. j_owner' \in BOOLEAN
    BY <1>3, Zenon DEF RpcInv, RpcTypeOK
  <2>2. RpcTypeOK'
    BY <1>1, <1>3, <2>1 DEF RpcInv, RpcTypeOK
  <2>3. RpcLife'
    BY <1>1, <1>3, <2>1 DEF RpcInv, RpcLife
  <2>4. RpcCounts'
    BY <1>1 DEF RpcInv, RpcCounts, RpcPending, RpcPassed
  <2>5. RpcKept' /\ RpcLoss'
    BY <1>3 DEF RpcKept, RpcLoss
  <2> QED BY <2>2, <2>3, <2>4, <2>5 DEF RpcInv
<1> QED
  <2>1. TRUE \in BOOLEAN /\ FALSE \in BOOLEAN
    OBVIOUS
  <2> QED BY <1>2, <1>3, <2>1 DEF Rpc!Call

(* What send_subscription does to the counts. *)
LEMMA RpcSendCounts ==
    ASSUME RpcTypeOK, NEW i \in Nat, NEW g, Rpc!Send(i, g)
    PROVE  /\ j_sent' \in Seq(Nat) /\ Len(j_sent') = j_stored
           /\ j_failed' \in BOOLEAN /\ (j_failed => j_failed')
           /\ \/ /\ ~j_closing /\ j_link # "lost" /\ (j_failed' <=> j_failed)
                 /\ j_failed' = j_failed
                 /\ i \in 1 .. j_stored => j_sent'[i] = j_sent[i] + 1 /\ j_sent' # j_sent
                 /\ \A k \in 1 .. j_stored : k # i => j_sent'[k] = j_sent[k]
              \/ j_sent' = j_sent /\ (j_failed' \/ j_closing \/ j_link = "lost")
<1>1. DOMAIN j_sent = 1 .. j_stored /\ j_stored \in Nat /\ \A k \in 1 .. j_stored :
          j_sent[k] \in Nat
  BY DEF RpcTypeOK
<1>2. CASE j_failed' = TRUE /\ UNCHANGED j_sent
  BY <1>2 DEF RpcTypeOK
<1>3. CASE (j_closing \/ j_link = "lost") /\ j_sent' = j_sent /\ UNCHANGED j_failed
  BY <1>3 DEF RpcTypeOK
<1>4. CASE ~(j_closing \/ j_link = "lost") /\ j_sent' = [j_sent EXCEPT ![i] = @ + 1]
             /\ UNCHANGED j_failed
  <2>1. \A k \in 1 .. j_stored : j_sent'[k] \in Nat
    BY <1>1, <1>4
  <2>2. j_sent' \in Seq(Nat) /\ Len(j_sent') = j_stored
    <3>1. j_sent' = [k \in 1 .. j_stored |-> j_sent'[k]]
      BY <1>1, <1>4
    <3> QED BY <1>1, <2>1, <3>1, IsASeq
  <2>3. i \in 1 .. j_stored => j_sent'[i] = j_sent[i] + 1 /\ j_sent' # j_sent
    BY <1>1, <1>4
  <2>4. \A k \in 1 .. j_stored : k # i => j_sent'[k] = j_sent[k]
    BY <1>1, <1>4
  <2> QED BY <1>4, <2>2, <2>3, <2>4 DEF RpcTypeOK
<1> QED BY <1>2, <1>3, <1>4 DEF Rpc!Send

LEMMA RpcSubscribe == ASSUME RpcInv, Rpc!Subscribe PROVE RpcInv'
<1>1. /\ UNCHANGED <<j_link, j_gen, j_reports, j_closing, j_owner, j_active, j_sgen, j_user>>
      /\ UNCHANGED <<j_resub, j_heard, j_loss>>
  BY DEF Rpc!Subscribe, Rpc!gapVars, Rpc!lifeVars
<1>2. RpcLoss' /\ \A i : (RpcPassed(i)' <=> RpcPassed(i)) /\ (RpcReplayed(i)' <=> RpcReplayed(i))
  BY <1>1 DEF RpcInv, RpcLoss, RpcPassed, RpcReplayed
<1>3. j_stored \in Nat /\ j_sgen \in Nat /\ j_sent \in Seq(Nat) /\ Len(j_sent) = j_stored
  BY DEF RpcInv, RpcTypeOK
<1>4. ASSUME j_subs' \in RpcSubscribes, UNCHANGED <<j_stored, j_sent, j_failed>>,
             \A i \in 1 .. j_stored : RpcPending(i)' => RpcPending(i),
             \A i \in 1 .. j_stored :
                 j_active /\ RpcReplayed(i) /\ RpcPending(i) => RpcPending(i)'
      PROVE  RpcInv'
  <2>1. RpcTypeOK' /\ RpcLife'
    BY <1>1, <1>4 DEF RpcInv, RpcTypeOK, RpcLife
  <2>2. RpcCounts'
    BY <1>2, <1>4 DEF RpcInv, RpcCounts
  <2>3. RpcKept'
    BY <1>1, <1>2, <1>4 DEF RpcInv, RpcKept
  <2> QED BY <1>2, <2>1, <2>2, <2>3 DEF RpcInv
<1>5. CASE /\ j_subs = Rpc!Idle /\ j_stored' = j_stored + 1 /\ j_sent' = Append(j_sent, 0)
           /\ j_subs' = [pc |-> "read"] /\ UNCHANGED j_failed
  <2>1. /\ j_sent' \in Seq(Nat) /\ Len(j_sent') = j_stored' /\ j_sent'[j_stored'] = 0
        /\ \A i \in 1 .. j_stored : j_sent'[i] = j_sent[i]
    BY <1>3, <1>5, AppendProperties
  <2>2. j_subs' \in RpcSubscribes /\ j_subs' # Rpc!Idle
    BY <1>5 DEF RpcSubscribes, Rpc!Idle
  <2>3. RpcTypeOK'
    BY <1>1, <1>5, <2>1, <2>2 DEF RpcInv, RpcTypeOK
  <2>4. RpcLife'
    BY <1>1, <1>5 DEF RpcInv, RpcTypeOK, RpcLife, RpcReplays
  <2>5. \A i \in 1 .. j_stored' : i = j_stored'
          \/ (i \in 1 .. j_stored /\ ~RpcPending(i)' /\ ~RpcPending(i))
    BY <1>3, <1>5 DEF RpcPending
  <2>6. \A i : i = j_stored' => RpcPending(i)'
    BY <2>2 DEF RpcPending
  <2>7. RpcCounts'
    BY <1>2, <1>3, <2>1, <2>5 DEF RpcInv, RpcCounts
  <2>8. RpcKept'
    BY <1>1, <1>2, <1>5, <2>1, <2>5, <2>6 DEF RpcInv, RpcKept
  <2> QED BY <1>2, <2>3, <2>4, <2>7, <2>8 DEF RpcInv
<1>6. CASE /\ j_subs.pc = "read" /\ j_subs' = [pc |-> "check", gen |-> j_sgen]
           /\ UNCHANGED <<j_stored, j_sent, j_failed>>
  <2>1. j_subs # Rpc!Idle /\ j_subs' # Rpc!Idle /\ j_subs' \in RpcSubscribes
    BY <1>3, <1>6 DEF RpcSubscribes, Rpc!Idle
  <2> QED BY <1>4, <1>6, <2>1 DEF RpcPending
<1>7. CASE /\ j_subs.pc = "check" /\ UNCHANGED <<j_stored, j_sent, j_failed>>
           /\ j_subs' = IF j_owner /\ Rpc!Connected THEN [j_subs EXCEPT !.pc = "send"] ELSE Rpc!Idle
  <2>1. j_subs \in [pc : {"check", "send"}, gen : Nat] /\ j_subs # Rpc!Idle
    BY <1>7 DEF RpcInv, RpcTypeOK, RpcSubscribes, Rpc!Idle
  <2>2. CASE j_owner /\ Rpc!Connected
    <3>1. j_subs' \in RpcSubscribes /\ j_subs' # Rpc!Idle
      BY <1>7, <2>1, <2>2 DEF RpcSubscribes, Rpc!Idle
    <3> QED BY <1>4, <1>7, <2>1, <3>1 DEF RpcPending
  <2>3. CASE ~(j_owner /\ Rpc!Connected)
    <3>1. j_subs' = Rpc!Idle /\ j_subs' \in RpcSubscribes
      BY <1>7, <2>3, RpcIdle
    <3>2. \A i \in 1 .. j_stored : ~(j_active /\ RpcReplayed(i)) /\ ~RpcPending(i)'
      BY <2>3, <3>1 DEF RpcInv, RpcLife, RpcReplayed, RpcPending, Rpc!Connected
    <3> QED BY <1>4, <1>7, <3>1, <3>2
  <2> QED BY <2>2, <2>3
<1>8. CASE j_subs.pc = "send" /\ Rpc!Send(j_stored, j_subs.gen) /\ j_subs' = Rpc!Idle
             /\ UNCHANGED j_stored
  <2> DEFINE g == j_subs.gen
  <2>1. Rpc!Send(j_stored, g)
    BY <1>8
  <2> HIDE DEF g
  <2>2. RpcTypeOK
    BY DEF RpcInv
  <2>3. /\ j_sent' \in Seq(Nat) /\ Len(j_sent') = j_stored
        /\ j_failed' \in BOOLEAN /\ (j_failed => j_failed')
        /\ \/ /\ ~j_closing /\ j_link # "lost" /\ (j_failed' <=> j_failed)
              /\ (j_stored \in 1 .. j_stored => j_sent'[j_stored] = j_sent[j_stored] + 1)
              /\ \A k \in 1 .. j_stored : k # j_stored => j_sent'[k] = j_sent[k]
           \/ j_sent' = j_sent /\ (j_failed' \/ j_closing \/ j_link = "lost")
    BY <1>3, <2>1, <2>2, RpcSendCounts
  <2>4. j_subs \in RpcSubscribes /\ j_subs # Rpc!Idle /\ j_subs' \in RpcSubscribes
    BY <1>8, RpcIdle DEF RpcInv, RpcTypeOK
  <2>5. RpcTypeOK'
    BY <1>1, <1>8, <2>3, <2>4 DEF RpcInv, RpcTypeOK
  <2>6. RpcLife'
    BY <1>1, <1>8, <2>3 DEF RpcInv, RpcLife
  <2>7. \A i \in 1 .. j_stored : j_sent[i] \in Nat /\ ~RpcPending(i)'
          /\ (RpcPending(i) <=> i = j_stored)
    BY <1>3, <1>8, <2>4 DEF RpcPending
  <2>8. RpcCounts'
    <3>1. SUFFICES ASSUME NEW i \in 1 .. j_stored
                   PROVE  j_sent'[i] <= 2 /\ (~RpcPassed(i) => j_sent'[i] <= 1)
      BY <1>2, <1>8, <2>7 DEF RpcCounts
    <3>2. CASE j_sent'[i] = j_sent[i]
      BY <3>2 DEF RpcInv, RpcCounts
    <3>3. CASE i = j_stored /\ j_sent'[i] = j_sent[i] + 1
      BY <3>3, <2>7 DEF RpcInv, RpcCounts
    <3> QED BY <2>3, <3>2, <3>3
  <2>9. RpcKept'
    BY <1>1, <1>2, <1>8, <2>3, <2>7 DEF RpcInv, RpcKept, RpcReplayed
  <2> QED BY <1>2, <2>5, <2>6, <2>8, <2>9 DEF RpcInv
<1> QED BY <1>5, <1>6, <1>7, <1>8 DEF Rpc!Subscribe, Rpc!subVars

LEMMA RpcResubscribe == ASSUME RpcInv, Rpc!Resubscribe PROVE RpcInv'
<1>1. UNCHANGED <<j_owner, j_active, j_sgen, j_user, j_stored, j_subs, j_heard, j_loss>>
  BY DEF Rpc!Resubscribe, Rpc!lifeVars
<1>2. j_stored \in Nat /\ j_sgen \in Nat /\ (j_active => j_owner)
  BY DEF RpcInv, RpcTypeOK, RpcLife
<1>3. \A i : RpcPending(i)' <=> RpcPending(i)
  BY <1>1 DEF RpcPending
<1>4. ASSUME UNCHANGED <<j_sent, j_failed, j_gen, j_reports, j_closing>>, j_link = "connect",
             j_resub' = Rpc!Idle, j_link' = "up",
             j_active => \A i \in 1 .. j_stored : RpcReplayed(i)
      PROVE  RpcInv'
  <2>1. RpcTypeOK'
    BY <1>1, <1>4, RpcIdle DEF RpcInv, RpcTypeOK, Rpc!Phases
  <2>2. RpcLife'
    BY <1>1, <1>4 DEF RpcInv, RpcLife
  <2>3. RpcCounts'
    BY <1>1, <1>3, <1>4 DEF RpcInv, RpcCounts, RpcPassed
  <2>4. RpcKept'
    BY <1>1, <1>3, <1>4 DEF RpcInv, RpcKept
  <2>5. RpcLoss'
    BY <1>1, <1>4 DEF RpcInv, RpcLoss
  <2> QED BY <2>1, <2>2, <2>3, <2>4, <2>5 DEF RpcInv
<1>5. CASE /\ j_link = "connect" /\ j_resub = Rpc!Idle /\ UNCHANGED <<j_sent, j_failed>>
           /\ j_resub' = [pc |-> "send", next |-> 1, last |-> j_stored, gen |-> j_sgen]
           /\ UNCHANGED <<j_link, j_gen, j_reports, j_closing>>
  <2>1. j_resub' \in RpcReplays /\ j_resub' # Rpc!Idle /\ j_resub'.next = 1
          /\ j_resub'.last = j_stored
    BY <1>2, <1>5 DEF RpcReplays, Rpc!Idle
  <2>2. RpcTypeOK' /\ RpcLoss'
    BY <1>1, <1>5, <2>1 DEF RpcInv, RpcTypeOK, RpcLoss
  <2>3. RpcLife'
    BY <1>1, <1>2, <1>5, <2>1 DEF RpcInv, RpcLife
  <2>4. \A i \in 1 .. j_stored : ~RpcPassed(i) /\ ~RpcReplayed(i)'
    BY <1>2, <1>5, <2>1 DEF RpcPassed, RpcReplayed
  <2>5. RpcCounts'
    BY <1>1, <1>3, <1>5, <2>4 DEF RpcInv, RpcCounts
  <2>6. RpcKept'
    BY <1>1, <2>4 DEF RpcKept
  <2> QED BY <2>2, <2>3, <2>5, <2>6 DEF RpcInv
<1>6. CASE /\ j_link = "connect" /\ j_resub = Rpc!Idle /\ UNCHANGED <<j_sent, j_failed>>
           /\ ~Rpc!IsCurrent(j_sgen) /\ Rpc!OnConnect /\ UNCHANGED j_resub
  BY <1>2, <1>4, <1>6 DEF Rpc!OnConnect, Rpc!IsCurrent
<1>7. CASE /\ j_resub.pc = "send" /\ j_resub.next > j_resub.last /\ j_resub' = Rpc!Idle
           /\ IF j_link = "connect" THEN Rpc!OnConnect ELSE UNCHANGED Rpc!gapVars
           /\ UNCHANGED <<j_sent, j_failed>>
  <2>1. j_resub # Rpc!Idle /\ j_link = "connect" /\ j_resub.next \in Nat /\ j_resub.last \in Nat
    BY <1>7, RpcIdle DEF RpcInv, RpcTypeOK, RpcLife, RpcReplays, Rpc!Idle
  <2>2. \A i \in 1 .. j_stored : RpcReplayed(i)
    BY <1>2, <1>7, <2>1 DEF RpcReplayed
  <2> QED BY <1>4, <1>7, <2>1, <2>2 DEF Rpc!OnConnect
<1>8. CASE /\ j_resub.pc = "send" /\ j_resub.next <= j_resub.last
           /\ Rpc!Send(j_resub.next, j_resub.gen)
           /\ j_resub' = [j_resub EXCEPT !.next = IF Rpc!SendFailed THEN j_resub.last + 1 ELSE @ + 1]
           /\ UNCHANGED Rpc!gapVars
  <2> DEFINE n == j_resub.next
             m == j_resub.last
             g == j_resub.gen
  <2>1. /\ j_resub # Rpc!Idle /\ j_link = "connect" /\ n \in Nat /\ m \in Nat /\ n > 0 /\ n <= m
        /\ m <= j_stored
    BY <1>8, RpcIdle DEF RpcInv, RpcTypeOK, RpcLife, RpcReplays, Rpc!Idle
  <2>2. j_resub' \in RpcReplays /\ j_resub' # Rpc!Idle /\ j_resub'.last = m
    <3> DEFINE x == IF Rpc!SendFailed THEN m + 1 ELSE n + 1
    <3>1. x \in Nat /\ j_resub' = [j_resub EXCEPT !.next = x]
      BY <1>8, <2>1
    <3> HIDE DEF x
    <3>2. j_resub \in [pc : {"send"}, next : Nat, last : Nat, gen : Nat]
      BY <2>1 DEF RpcInv, RpcTypeOK, RpcReplays
    <3> QED BY <3>1, <3>2 DEF RpcReplays, Rpc!Idle
  <2>3. /\ j_resub'.next = IF Rpc!SendFailed THEN m + 1 ELSE n + 1
        /\ UNCHANGED <<j_link, j_gen, j_reports, j_closing>>
    BY <1>8, <2>1 DEF RpcInv, RpcTypeOK, RpcReplays, Rpc!gapVars
  <2>4. Rpc!Send(n, g) /\ RpcTypeOK
    BY <1>8 DEF RpcInv
  <2> HIDE DEF n, m, g
  <2>5. /\ j_sent' \in Seq(Nat) /\ Len(j_sent') = j_stored
        /\ j_failed' \in BOOLEAN /\ (j_failed => j_failed')
        /\ \/ /\ ~j_closing /\ j_link # "lost" /\ (j_failed' <=> j_failed) /\ j_failed' = j_failed
              /\ (n \in 1 .. j_stored => j_sent'[n] = j_sent[n] + 1 /\ j_sent' # j_sent)
              /\ \A k \in 1 .. j_stored : k # n => j_sent'[k] = j_sent[k]
           \/ j_sent' = j_sent /\ (j_failed' \/ j_closing \/ j_link = "lost")
    BY <2>1, <2>4, RpcSendCounts
  <2>6. n \in 1 .. j_stored /\ \A i \in 1 .. j_stored : j_sent[i] \in Nat
    BY <1>2, <2>1 DEF RpcInv, RpcTypeOK
  <2>7. RpcTypeOK'
    BY <1>1, <2>2, <2>3, <2>5 DEF RpcInv, RpcTypeOK
  <2>8. RpcLife'
    BY <1>1, <2>1, <2>2, <2>3, <2>5 DEF RpcInv, RpcLife
  <2>9. RpcLoss'
    BY <1>1, <2>3 DEF RpcInv, RpcLoss
  <2>10. \A i \in 1 .. j_stored : RpcPassed(i) <=> n > i
    BY <2>1 DEF RpcPassed, n
  <2>11. CASE j_sent' = j_sent /\ (j_failed' \/ j_closing \/ j_link = "lost")
    <3>1. \A i \in 1 .. j_stored : RpcPassed(i) => RpcPassed(i)'
      BY <2>1, <2>2, <2>3, <2>10 DEF RpcPassed
    <3>2. RpcCounts'
      BY <1>1, <1>3, <2>11, <3>1 DEF RpcInv, RpcCounts
    <3>3. RpcKept'
      BY <2>1, <2>3, <2>11 DEF RpcKept
    <3> QED BY <2>7, <2>8, <2>9, <3>2, <3>3 DEF RpcInv
  <2>12. CASE /\ j_failed' = j_failed /\ (j_failed' <=> j_failed)
              /\ j_sent'[n] = j_sent[n] + 1 /\ j_sent' # j_sent
              /\ \A k \in 1 .. j_stored : k # n => j_sent'[k] = j_sent[k]
    <3>1. j_resub'.next = n + 1
      BY <2>3, <2>12 DEF Rpc!SendFailed
    <3>2. \A i \in 1 .. j_stored : RpcPassed(i)' <=> n + 1 > i
      BY <2>1, <2>2, <2>3, <3>1 DEF RpcPassed
    <3>3. RpcCounts'
      <4>1. SUFFICES ASSUME NEW i \in 1 .. j_stored
                     PROVE  /\ j_sent'[i] <= 2
                            /\ (RpcPending(i) => j_sent'[i] <= 1)
                            /\ (~RpcPassed(i)' => j_sent'[i] <= 1)
                            /\ (RpcPending(i) /\ ~RpcPassed(i)' => j_sent'[i] = 0)
        BY <1>1, <1>3 DEF RpcCounts
      <4>2. CASE i = n
        BY <2>1, <2>6, <2>10, <2>12, <3>2, <4>2 DEF RpcInv, RpcCounts
      <4>3. CASE i # n
        <5>1. j_sent'[i] = j_sent[i] /\ (~RpcPassed(i)' => ~RpcPassed(i))
          BY <2>1, <2>10, <2>12, <3>2, <4>3
        <5> QED BY <5>1 DEF RpcInv, RpcCounts
      <4> QED BY <4>2, <4>3
    <3>4. \A i \in 1 .. j_stored : RpcReplayed(i)' => i = n \/ RpcReplayed(i)
      BY <2>1, <2>2, <2>3, <3>1 DEF RpcReplayed, n, m
    <3>5. RpcKept'
      BY <1>1, <1>3, <2>3, <2>6, <2>12, <3>4 DEF RpcInv, RpcKept
    <3> QED BY <2>7, <2>8, <2>9, <3>3, <3>5 DEF RpcInv
  <2> QED BY <2>5, <2>6, <2>11, <2>12
<1> QED BY <1>5, <1>6, <1>7, <1>8 DEF Rpc!Resubscribe, Rpc!gapVars

LEMMA RpcNext == ASSUME RpcInv, Rpc!Next \/ UNCHANGED j_vars PROVE RpcInv'
<1>1. CASE UNCHANGED j_vars
  BY <1>1 DEF j_vars, RpcInv, RpcTypeOK, RpcLife, RpcCounts, RpcKept, RpcLoss, RpcPending,
     RpcPassed,
              RpcReplayed
<1> QED BY <1>1, RpcCall, RpcEndCall, RpcSubscribe, RpcResubscribe, RpcGapReports, RpcTransport
        DEF Rpc!Next

LEMMA RpcInit == ASSUME Rpc!InitState PROVE RpcInv
<1>1. j_closing \in BOOLEAN /\ j_owner \in BOOLEAN /\ j_active \in BOOLEAN /\ j_failed \in BOOLEAN
  BY DEF Rpc!InitState, Rpc!GapInit
<1>2. j_sent \in Seq(Nat) /\ Len(j_sent) = j_stored
  BY DEF Rpc!InitState
<1>3. j_subs \in RpcSubscribes /\ j_resub \in RpcReplays
  BY RpcIdle DEF Rpc!InitState
<1>4. RpcTypeOK
  BY <1>1, <1>2, <1>3 DEF Rpc!InitState, Rpc!GapInit, RpcTypeOK, Rpc!Phases
<1> QED BY <1>4 DEF Rpc!InitState, Rpc!GapInit, RpcInv, RpcLife, RpcCounts, RpcKept, RpcLoss

LEMMA RpcSafe == ASSUME RpcInv PROVE RpcSubscriptionsKept
<1>1. DOMAIN j_sent = 1 .. j_stored
  BY DEF RpcInv, RpcTypeOK
<1>2. Rpc!SentAtMostTwice
  BY <1>1 DEF Rpc!SentAtMostTwice, RpcInv, RpcCounts
<1>3. Rpc!NoLostSubscription
  BY DEF Rpc!NoLostSubscription, RpcInv, RpcKept, RpcReplayed, RpcPending
<1>4. Rpc!LossReported
  BY DEF Rpc!LossReported, RpcInv, RpcLoss
<1> QED BY <1>2, <1>3, <1>4 DEF RpcSubscriptionsKept

(* No stored subscription is lost across connections, the replay and the caller send it at
   most twice, and a lost connection is reported before the next attempt: the property
   RpcSubscriptionsKept, of EvmJsonRpcWsRuntime. *)
THEOREM RpcKeepsSubscriptions == Spec => []RpcSubscriptionsKept
<1>1. Init => RpcInv
  BY RpcInit DEF Init
<1>2. RpcInv /\ [Next]_allVars => RpcInv'
  BY StepOfOne, RpcNext
<1>3. RpcInv => RpcSubscriptionsKept
  BY RpcSafe
<1> QED BY <1>1, <1>2, <1>3, PTL DEF Spec

-----------------------------------------------------------------------------
(* PublicStream: the frames of an update that are still to be sent.        *)

PublicFrames == [kind : {"subscribe", "unsubscribe"},
                 keys : SUBSET UNION {Keys[id] : id \in DOMAIN Keys}]
PublicUpdates ==
    {Public!Idle} \cup [pc : {"send"}, request : BOOLEAN, frames : Seq(PublicFrames)]
PublicWorks ==
    {Public!Idle} \cup [pc : {"parse", "invalid"}, gen : Nat]
        \cup [pc : {"check", "fire"}, gen : Nat, left : Int]

ToSend == IF p_subs = Public!Idle THEN <<>> ELSE p_subs.frames
KeysIn(frames, kind) == UNION {frames[i].keys : i \in {n \in 1 .. Len(frames) : frames[n].kind = kind}}
ToSubscribe == KeysIn(ToSend, "subscribe")
ToUnsubscribe == KeysIn(ToSend, "unsubscribe")
NeededKeys == Public!ServerKeys(p_added)

PublicTypeOK ==
    /\ p_gen \in Nat /\ p_late \in Nat
    /\ p_added \subseteq DOMAIN Keys /\ IsFiniteSet(p_added)
    /\ p_subs \in PublicUpdates /\ p_work \in PublicWorks

(* Who deactivates the stream waits for the worker before it lets go of the user thread. *)
PublicLife ==
    /\ p_user = "stop" => ~p_active
    /\ p_user \in {"start", "wait"} => p_active
    /\ p_user = "idle" /\ p_result = "down" => p_link = "off" /\ ~p_active

(* A message that was superseded once stays superseded until the worker is done with it. *)
PublicMessage ==
    /\ p_work # Public!Idle => p_work.gen <= p_gen /\ (~p_active => p_user = "stop")
    /\ p_late <= 1
    /\ p_late = 1 =>
          p_work = Public!Idle \/ (p_work.pc = "check" /\ ~Public!IsCurrent(p_work.gen))

(* What the server sends for, phase by phase: the frames still to be sent make up the
   difference to what the subscriptions need. *)
PublicKeys ==
    /\ ToSubscribe \subseteq NeededKeys /\ ToUnsubscribe \cap NeededKeys = {}
    /\ p_owner =>
         /\ p_link = "opened" => p_server = {}
         /\ p_link = "restore" /\ ~p_closing => p_server \ ToUnsubscribe \subseteq NeededKeys
         /\ p_link = "replay" /\ ~p_closing /\ ~p_overlap =>
               p_server \ ToUnsubscribe \subseteq NeededKeys /\ p_copy = p_added
         /\ p_link \in {"connect", "up"} /\ ~p_closing /\ ~p_overlap =>
               (p_server \cup ToSubscribe) \ ToUnsubscribe = NeededKeys

PublicInv == PublicTypeOK /\ PublicLife /\ PublicMessage /\ PublicKeys

LEMMA PublicIdle ==
    /\ Public!Idle.pc = "idle" /\ Public!Idle \in PublicUpdates /\ Public!Idle \in PublicWorks
    /\ \A s \in PublicUpdates : s = Public!Idle <=> s.pc = "idle"
    /\ \A w \in PublicWorks : w = Public!Idle <=> w.pc = "idle"
  BY DEF Public!Idle, PublicUpdates, PublicWorks

LEMMA NoKeysIn == ASSUME NEW kind PROVE KeysIn(<<>>, kind) = {}
  BY DEF KeysIn

(* The keys of the first frame and of the others. *)
LEMMA KeysInTail ==
    ASSUME NEW F \in Seq(PublicFrames), F # <<>>, NEW kind
    PROVE  /\ Head(F) \in PublicFrames /\ Tail(F) \in Seq(PublicFrames)
           /\ KeysIn(F, kind) =
                  (IF Head(F).kind = kind THEN Head(F).keys ELSE {}) \cup KeysIn(Tail(F), kind)
<1>1. /\ Len(F) \in Nat /\ Len(F) > 0 /\ Tail(F) \in Seq(PublicFrames) /\ Len(Tail(F)) = Len(F) - 1
      /\ Head(F) = F[1] /\ Head(F) \in PublicFrames
      /\ \A i \in 1 .. Len(Tail(F)) : Tail(F)[i] = F[i + 1]
  BY HeadTailProperties
<1>2. ASSUME NEW k, k \in KeysIn(F, kind)
      PROVE  k \in (IF Head(F).kind = kind THEN Head(F).keys ELSE {}) \cup KeysIn(Tail(F), kind)
  <2>1. PICK i \in 1 .. Len(F) : F[i].kind = kind /\ k \in F[i].keys
    BY <1>2 DEF KeysIn
  <2>2. CASE i = 1
    BY <1>1, <2>1, <2>2
  <2>3. CASE i # 1
    <3>1. i - 1 \in 1 .. Len(Tail(F)) /\ Tail(F)[i - 1] = F[i]
      BY <1>1, <2>3
    <3>2. k \in KeysIn(Tail(F), kind)
      BY <2>1, <3>1 DEF KeysIn
    <3> QED BY <3>2
  <2> QED BY <2>2, <2>3
<1>3. ASSUME NEW k, k \in KeysIn(Tail(F), kind)
      PROVE  k \in KeysIn(F, kind)
  <2>1. PICK i \in 1 .. Len(Tail(F)) : Tail(F)[i].kind = kind /\ k \in Tail(F)[i].keys
    BY <1>3 DEF KeysIn
  <2>2. i + 1 \in 1 .. Len(F) /\ Tail(F)[i] = F[i + 1]
    BY <1>1, <2>1
  <2> QED BY <2>1, <2>2 DEF KeysIn
<1>4. ASSUME NEW k, Head(F).kind = kind, k \in Head(F).keys
      PROVE  k \in KeysIn(F, kind)
  <2>1. 1 \in 1 .. Len(F) /\ F[1].kind = kind /\ k \in F[1].keys
    BY <1>1, <1>4
  <2> QED BY <2>1 DEF KeysIn
<1> QED BY <1>1, <1>2, <1>3, <1>4

LEMMA ServerKeysKnown ==
    ASSUME NEW a \in SUBSET DOMAIN Keys
    PROVE  Public!ServerKeys(a) \subseteq UNION {Keys[id] : id \in DOMAIN Keys}
  BY DEF Public!ServerKeys

(* What one frame of sync adds. *)
LEMMA OneFrame ==
    ASSUME NEW f \in PublicFrames, NEW kind
    PROVE  /\ <<f>> \in Seq(PublicFrames)
           /\ KeysIn(<<f>>, kind) = IF f.kind = kind THEN f.keys ELSE {}
<1>1. <<f>> \in Seq(PublicFrames) /\ <<f>> # <<>> /\ Head(<<f>>) = f /\ Tail(<<f>>) = <<>>
  OBVIOUS
<1>2. KeysIn(<<f>>, kind) = (IF f.kind = kind THEN f.keys ELSE {}) \cup KeysIn(<<>>, kind)
  BY <1>1, KeysInTail
<1> QED BY <1>1, <1>2, NoKeysIn

LEMMA TwoFrames ==
    ASSUME NEW f \in PublicFrames, NEW g \in PublicFrames, NEW kind
    PROVE  /\ <<f, g>> \in Seq(PublicFrames)
           /\ KeysIn(<<f, g>>, kind) = (IF f.kind = kind THEN f.keys ELSE {})
                                           \cup (IF g.kind = kind THEN g.keys ELSE {})
<1>1. <<f, g>> \in Seq(PublicFrames) /\ <<f, g>> # <<>> /\ Head(<<f, g>>) = f
        /\ Tail(<<f, g>>) = <<g>>
  OBVIOUS
<1>2. KeysIn(<<f, g>>, kind) = (IF f.kind = kind THEN f.keys ELSE {}) \cup KeysIn(<<g>>, kind)
  BY <1>1, KeysInTail
<1> QED BY <1>1, <1>2, OneFrame

(* sync: subscribe to what is newly needed, unsubscribe from what no subscription needs. *)
LEMMA SyncFrames ==
    ASSUME NEW a \in SUBSET DOMAIN Keys, NEW b \in SUBSET DOMAIN Keys
    PROVE  /\ Public!Sync(a, b) \in Seq(PublicFrames)
           /\ KeysIn(Public!Sync(a, b), "subscribe") = Public!ServerKeys(b) \ Public!ServerKeys(a)
           /\ KeysIn(Public!Sync(a, b), "unsubscribe") = Public!ServerKeys(a) \ Public!ServerKeys(b)
<1> DEFINE p == Public!ServerKeys(b) \ Public!ServerKeys(a)
           q == Public!ServerKeys(a) \ Public!ServerKeys(b)
           f == [kind |-> "subscribe", keys |-> p]
           g == [kind |-> "unsubscribe", keys |-> q]
<1>1. f \in PublicFrames /\ g \in PublicFrames
  BY ServerKeysKnown DEF PublicFrames
<1>2. f.kind = "subscribe" /\ f.keys = p /\ g.kind = "unsubscribe" /\ g.keys = q
  OBVIOUS
<1>3. Public!Sync(a, b) = (IF p = {} THEN <<>> ELSE <<f>>) \o (IF q = {} THEN <<>> ELSE <<g>>)
  BY DEF Public!Sync
<1> HIDE DEF p, q, f, g
<1>4. Public!Sync(a, b) = IF p = {} THEN IF q = {} THEN <<>> ELSE <<g>>
                                    ELSE IF q = {} THEN <<f>> ELSE <<f, g>>
  <2>1. <<f>> \in Seq(PublicFrames) /\ <<g>> \in Seq(PublicFrames) /\ <<>> \in Seq(PublicFrames)
    BY <1>1
  <2>2. <<>> \o <<>> = <<>> /\ <<>> \o <<g>> = <<g>> /\ <<f>> \o <<>> = <<f>>
    BY <2>1, ConcatEmptySeq
  <2>3. <<f>> \o <<g>> = <<f, g>>
    <3> DEFINE s == <<f>> \o <<g>>
               t == <<f, g>>
    <3>1. s \in Seq(PublicFrames) /\ Len(s) = 2 /\ s[1] = f /\ s[2] = g
      BY <2>1, ConcatProperties
    <3>2. t \in Seq(PublicFrames) /\ Len(t) = 2 /\ t[1] = f /\ t[2] = g
      BY <1>1
    <3> HIDE DEF s, t
    <3>3. Len(s) = Len(t) /\ \A i \in 1 .. Len(s) : s[i] = t[i]
      BY <3>1, <3>2
    <3>4. s = t
      BY <3>1, <3>2, <3>3, SeqEqual
    <3> QED BY <3>4 DEF s, t
  <2> QED BY <1>3, <2>2, <2>3
<1>5. Public!Sync(a, b) \in Seq(PublicFrames)
  BY <1>1, <1>4
<1>6. KeysIn(Public!Sync(a, b), "subscribe") = p
  <2>1. CASE p = {} /\ q = {}
    BY <1>4, <2>1, NoKeysIn
  <2>2. CASE p = {} /\ q # {}
    BY <1>1, <1>2, <1>4, <2>2, OneFrame
  <2>3. CASE p # {} /\ q = {}
    BY <1>1, <1>2, <1>4, <2>3, OneFrame
  <2>4. CASE p # {} /\ q # {}
    <3>1. KeysIn(<<f, g>>, "subscribe") = (IF f.kind = "subscribe" THEN f.keys ELSE {})
                                        \cup (IF g.kind = "subscribe" THEN g.keys ELSE {})
      BY <1>1, TwoFrames
    <3> QED BY <1>2, <1>4, <2>4, <3>1
  <2> QED BY <2>1, <2>2, <2>3, <2>4
<1>7. KeysIn(Public!Sync(a, b), "unsubscribe") = q
  <2>1. CASE p = {} /\ q = {}
    BY <1>4, <2>1, NoKeysIn
  <2>2. CASE p = {} /\ q # {}
    BY <1>1, <1>2, <1>4, <2>2, OneFrame
  <2>3. CASE p # {} /\ q = {}
    BY <1>1, <1>2, <1>4, <2>3, OneFrame
  <2>4. CASE p # {} /\ q # {}
    <3>1. KeysIn(<<f, g>>, "unsubscribe") = (IF f.kind = "unsubscribe" THEN f.keys ELSE {})
                                        \cup (IF g.kind = "unsubscribe" THEN g.keys ELSE {})
      BY <1>1, TwoFrames
    <3> QED BY <1>2, <1>4, <2>4, <3>1
  <2> QED BY <2>1, <2>2, <2>3, <2>4
<1> QED BY <1>5, <1>6, <1>7 DEF p, q

-----------------------------------------------------------------------------
(* PublicStream: what a step that leaves a part of it alone has to show.   *)

LEMMA PublicMessageFrame ==
    ASSUME PublicInv, UNCHANGED <<p_work, p_late>>, p_gen' \in Nat, p_gen' >= p_gen,
           p_owner' => p_owner,
           p_work # Public!Idle => (p_active' => p_active) /\ (~p_active' => p_user' = "stop")
    PROVE  PublicMessage'
<1>1. p_gen \in Nat /\ p_work \in PublicWorks
  BY DEF PublicInv, PublicTypeOK
<1>2. p_work # Public!Idle => p_work.gen \in Nat
  BY <1>1 DEF PublicWorks
<1>3. p_work # Public!Idle /\ ~Public!IsCurrent(p_work.gen) => ~(Public!IsCurrent(p_work.gen))'
  BY <1>1, <1>2 DEF PublicInv, PublicMessage, Public!IsCurrent, Public!IsActive
<1> QED BY <1>1, <1>2, <1>3 DEF PublicInv, PublicMessage

LEMMA PublicKeysFrame ==
    ASSUME PublicInv, UNCHANGED <<p_added, p_copy, p_server, p_overlap>>, ToSend' = ToSend,
           p_owner' => p_owner,
           p_link' = "opened" => p_link = "opened",
           p_link' = "restore" => p_link \in {"opened", "restore"},
           p_link' = "replay" => p_link = "replay",
           p_link' = "connect" => p_link = "connect",
           p_link' = "up" => p_link \in {"connect", "up"} \/ p_closing',
           p_link' \in {"restore", "replay", "connect", "up"} /\ p_closing => p_closing'
    PROVE  PublicKeys'
<1>1. UNCHANGED <<ToSubscribe, ToUnsubscribe, NeededKeys>>
  BY DEF ToSubscribe, ToUnsubscribe, NeededKeys
<1> QED BY <1>1 DEF PublicInv, PublicKeys

(* A step that changes neither the subscriptions nor the message. *)
LEMMA PublicFrame ==
    ASSUME PublicInv, UNCHANGED <<p_added, p_copy, p_server, p_subs, p_overlap, p_work, p_late>>,
           p_gen' \in Nat, p_gen' >= p_gen, p_owner' => p_owner, PublicLife',
           p_work # Public!Idle => (p_active' => p_active) /\ (~p_active' => p_user' = "stop"),
           p_link' = "opened" => p_link = "opened",
           p_link' = "restore" => p_link \in {"opened", "restore"},
           p_link' = "replay" => p_link = "replay",
           p_link' = "connect" => p_link = "connect",
           p_link' = "up" => p_link \in {"connect", "up"} \/ p_closing',
           p_link' \in {"restore", "replay", "connect", "up"} /\ p_closing => p_closing'
    PROVE  PublicInv'
<1>1. PublicTypeOK'
  BY DEF PublicInv, PublicTypeOK
<1>2. PublicMessage'
  BY PublicMessageFrame
<1>3. ToSend' = ToSend
  BY DEF ToSend
<1>4. PublicKeys'
  BY <1>3, PublicKeysFrame
<1> QED BY <1>1, <1>2, <1>4 DEF PublicInv

LEMMA PublicDraw ==
    ASSUME p_gen \in Nat, NEW own, Public!Draw(own)
    PROVE  p_gen' \in Nat /\ p_gen' >= p_gen
  BY DEF Public!Draw

LEMMA PublicRequest ==
    ASSUME p_gen \in Nat, Public!Request \/ UNCHANGED Public!gapVars
    PROVE  p_gen' \in Nat /\ p_gen' >= p_gen /\ UNCHANGED <<p_link, p_closing>>
<1>1. CASE Public!Draw(FALSE) /\ UNCHANGED <<p_link, p_closing>>
  BY <1>1, PublicDraw
<1>2. CASE UNCHANGED <<p_gen, p_link, p_closing>>
  BY <1>2
<1> QED BY <1>1, <1>2 DEF Public!Request, Public!gapVars

-----------------------------------------------------------------------------
(* PublicStream: the user's calls.                                         *)

LEMMA PublicCallConnect == ASSUME PublicInv, Public!CallConnect PROVE PublicInv'
<1>1. /\ UNCHANGED <<p_link, p_gen, p_closing, p_owner, p_result, p_added, p_copy, p_server,
                     p_subs>>
      /\ UNCHANGED <<p_overlap, p_work, p_late>>
      /\ p_user = "idle" /\ p_user' = "start" /\ p_active'
  BY DEF Public!CallConnect, Public!gapVars, Public!subVars, Public!workVars
<1>2. p_work # Public!Idle => p_active
  BY <1>1 DEF PublicInv, PublicMessage
<1>3. PublicLife'
  BY <1>1 DEF PublicLife
<1>4. p_gen' \in Nat /\ p_gen' >= p_gen
  BY <1>1 DEF PublicInv, PublicTypeOK
<1> QED BY <1>1, <1>2, <1>3, <1>4, PublicFrame

LEMMA PublicConnect == ASSUME PublicInv, Public!Connect PROVE PublicInv'
<1>1. UNCHANGED <<p_gen, p_owner, p_active, p_added, p_copy, p_server, p_subs, p_overlap, p_work,
                  p_late>>
  BY DEF Public!Connect, Public!Start, Public!gapVars, Public!subVars, Public!workVars
<1>2. p_gen' \in Nat /\ p_gen' >= p_gen
  BY <1>1 DEF PublicInv, PublicTypeOK
<1>3. p_user \in {"start", "wait"} /\ p_active /\ p_user' # "stop"
  BY DEF Public!Connect, PublicInv, PublicLife
<1>4. \/ p_link = "off" /\ p_link' = "dial"
      \/ UNCHANGED <<p_link, p_closing>>
  BY DEF Public!Connect, Public!Start, Public!gapVars
<1>5. p_user' = "idle" => p_result' = "up"
  BY DEF Public!Connect
<1>6. PublicLife'
  BY <1>1, <1>3, <1>5 DEF PublicLife
<1> QED BY <1>1, <1>2, <1>3, <1>4, <1>6, PublicFrame

LEMMA PublicDisconnect == ASSUME PublicInv, Public!Disconnect PROVE PublicInv'
<1>1. UNCHANGED <<p_gen, p_owner, p_added, p_copy, p_server, p_subs, p_overlap, p_work, p_late>>
  BY DEF Public!Disconnect, Public!Stop, Public!gapVars, Public!subVars, Public!workVars
<1>2. p_gen' \in Nat /\ p_gen' >= p_gen
  BY <1>1 DEF PublicInv, PublicTypeOK
<1>3. CASE p_user = "deactivate" /\ p_active' = FALSE /\ p_user' = "stop"
             /\ UNCHANGED <<p_link, p_closing>>
  <2>1. PublicLife'
    BY <1>3 DEF PublicLife
  <2> QED BY <1>1, <1>2, <1>3, <2>1, PublicFrame
<1>4. CASE /\ p_user = "stop" /\ p_work = Public!Idle /\ p_user' = "idle" /\ p_link' = "off"
           /\ UNCHANGED p_active
  <2>1. PublicLife'
    BY <1>4 DEF PublicInv, PublicLife
  <2> QED BY <1>1, <1>2, <1>4, <2>1, PublicFrame
<1> QED BY <1>3, <1>4 DEF Public!Disconnect, Public!Stop, Public!gapVars

(* shutdown forgets the subscriptions of an owner that is gone. *)
LEMMA PublicCallDisconnect == ASSUME PublicInv, Public!CallDisconnect PROVE PublicInv'
<1>1. /\ UNCHANGED <<p_link, p_gen, p_closing, p_active, p_result, p_copy, p_server, p_subs>>
      /\ UNCHANGED <<p_overlap, p_work, p_late>>
      /\ p_user = "idle" /\ p_user' = "deactivate"
      /\ (p_owner' => p_owner)
      /\ \/ UNCHANGED <<p_owner, p_added>>
         \/ p_subs = Public!Idle /\ ~p_owner' /\ p_added' = {}
  BY DEF Public!CallDisconnect, Public!gapVars, Public!workVars
<1>2. p_gen' \in Nat /\ p_gen' >= p_gen
  BY <1>1 DEF PublicInv, PublicTypeOK
<1>3. PublicLife'
  BY <1>1 DEF PublicLife
<1>4. p_work # Public!Idle => p_active
  BY <1>1 DEF PublicInv, PublicMessage
<1>5. CASE UNCHANGED p_added
  BY <1>1, <1>2, <1>3, <1>4, <1>5, PublicFrame
<1>6. CASE p_subs = Public!Idle /\ ~p_owner' /\ p_added' = {}
  <2>1. PublicMessage'
    BY <1>1, <1>2, <1>4, PublicMessageFrame
  <2>2. PublicTypeOK'
    BY <1>1, <1>6, FS_EmptySet DEF PublicInv, PublicTypeOK
  <2>3. ToSubscribe' = {} /\ ToUnsubscribe' = {}
    BY <1>1, <1>6, NoKeysIn DEF ToSubscribe, ToUnsubscribe, ToSend
  <2>4. PublicKeys'
    BY <1>6, <2>3 DEF PublicKeys
  <2> QED BY <1>3, <2>1, <2>2, <2>4 DEF PublicInv
<1> QED BY <1>1, <1>5, <1>6

-----------------------------------------------------------------------------
(* PublicStream: the subscriptions.                                        *)

LEMMA PublicUpdate == ASSUME PublicInv, Public!Update PROVE PublicInv'
<1>1. /\ UNCHANGED <<p_link, p_gen, p_closing, p_owner, p_active, p_user, p_result, p_copy,
                     p_server>>
      /\ UNCHANGED <<p_work, p_late>>
      /\ p_subs = Public!Idle /\ p_owner /\ (p_overlap' <=> (p_overlap \/ p_link = "replay"))
  BY DEF Public!Update, Public!gapVars, Public!lifeVars, Public!workVars
<1>2. PICK id \in DOMAIN Keys :
         /\ p_added' = IF id \in p_added THEN p_added \ {id} ELSE p_added \cup {id}
         /\ p_subs' = [pc |-> "send", request |-> FALSE,
                       frames |-> IF p_owner /\ Public!Connected
                                  THEN Public!Sync(p_added, p_added') ELSE <<>>]
  BY DEF Public!Update
<1>3. p_added' \subseteq DOMAIN Keys /\ IsFiniteSet(p_added')
  BY <1>2, FS_AddElement, FS_RemoveElement DEF PublicInv, PublicTypeOK
<1> DEFINE F == IF p_owner /\ Public!Connected THEN Public!Sync(p_added, p_added') ELSE <<>>
           b == FALSE
<1>4. /\ Public!Sync(p_added, p_added') \in Seq(PublicFrames)
      /\ KeysIn(Public!Sync(p_added, p_added'), "subscribe") = NeededKeys' \ NeededKeys
      /\ KeysIn(Public!Sync(p_added, p_added'), "unsubscribe") = NeededKeys \ NeededKeys'
  BY <1>3, SyncFrames DEF PublicInv, PublicTypeOK, NeededKeys
<1>5. /\ F \in Seq(PublicFrames)
      /\ Public!Connected => /\ KeysIn(F, "subscribe") = NeededKeys' \ NeededKeys
                             /\ KeysIn(F, "unsubscribe") = NeededKeys \ NeededKeys'
      /\ ~Public!Connected => KeysIn(F, "subscribe") = {} /\ KeysIn(F, "unsubscribe") = {}
  BY <1>1, <1>4, NoKeysIn
<1>6. p_subs' = [pc |-> "send", request |-> b, frames |-> F] /\ b \in BOOLEAN
  BY <1>2
<1> HIDE DEF F, b
<1>7. p_subs' \in PublicUpdates /\ p_subs' # Public!Idle /\ p_subs'.frames = F
  BY <1>5, <1>6 DEF PublicUpdates, Public!Idle
<1>8. ToSubscribe' = KeysIn(F, "subscribe") /\ ToUnsubscribe' = KeysIn(F, "unsubscribe")
  BY <1>7 DEF ToSubscribe, ToUnsubscribe, ToSend
<1>9. ToSubscribe = {} /\ ToUnsubscribe = {}
  BY <1>1, NoKeysIn DEF ToSubscribe, ToUnsubscribe, ToSend
<1>10. PublicTypeOK'
  BY <1>1, <1>3, <1>7 DEF PublicInv, PublicTypeOK
<1>11. PublicLife' /\ PublicMessage'
  BY <1>1 DEF PublicInv, PublicLife, PublicMessage, Public!IsCurrent, Public!IsActive
<1>12. PublicKeys'
  <2> DEFINE N == NeededKeys
             M == NeededKeys'
             S == p_server
  <2>1. CASE Public!Connected
    <3>1. ToSubscribe' = M \ N /\ ToUnsubscribe' = N \ M
      BY <1>5, <1>8, <2>1
    <3>2. ToSubscribe' \subseteq M /\ ToUnsubscribe' \cap M = {} /\ p_link # "opened"
      BY <2>1, <3>1 DEF Public!Connected
    <3>3. p_link = "restore" /\ ~p_closing => S \ ToUnsubscribe' \subseteq M
      <4>1. p_link = "restore" /\ ~p_closing => S \subseteq N
        BY <1>1, <1>9 DEF PublicInv, PublicKeys
      <4> QED BY <3>1, <4>1
    <3>4. p_link \in {"connect", "up"} /\ ~p_closing /\ ~p_overlap =>
             (S \cup ToSubscribe') \ ToUnsubscribe' = M
      <4>1. p_link \in {"connect", "up"} /\ ~p_closing /\ ~p_overlap => S = N
        BY <1>1, <1>9 DEF PublicInv, PublicKeys
      <4> HIDE DEF N, M
      <4> QED BY <3>1, <4>1
    <3> QED BY <1>1, <3>2, <3>3, <3>4 DEF PublicKeys
  <2>2. CASE ~Public!Connected
    <3>1. ToSubscribe' = {} /\ ToUnsubscribe' = {}
      BY <1>5, <1>8, <2>2
    <3> QED BY <1>1, <2>2, <3>1 DEF PublicInv, PublicKeys, Public!Connected
  <2> QED BY <2>1, <2>2
<1> QED BY <1>10, <1>11, <1>12 DEF PublicInv

LEMMA PublicSendFrame == ASSUME PublicInv, Public!SendFrame PROVE PublicInv'
<1>1. /\ UNCHANGED <<p_link, p_gen, p_closing, p_owner, p_active, p_user, p_result, p_added,
                     p_copy>>
      /\ UNCHANGED <<p_overlap, p_work, p_late>>
      /\ p_subs.pc = "send" /\ p_subs.frames # <<>>
  BY DEF Public!SendFrame, Public!gapVars, Public!lifeVars, Public!workVars
<1>2. p_subs \in [pc : {"send"}, request : BOOLEAN, frames : Seq(PublicFrames)]
        /\ p_subs # Public!Idle
  BY <1>1 DEF PublicInv, PublicTypeOK, PublicUpdates, Public!Idle
<1> DEFINE F == p_subs.frames
           f == Head(F)
           T == Tail(F)
<1>3. F \in Seq(PublicFrames) /\ F # <<>> /\ UNCHANGED NeededKeys
  BY <1>1, <1>2 DEF NeededKeys
<1>4. /\ f \in PublicFrames /\ T \in Seq(PublicFrames)
      /\ KeysIn(F, "subscribe") = (IF f.kind = "subscribe" THEN f.keys ELSE {}) \cup KeysIn(T, "subscribe")
      /\ KeysIn(F, "unsubscribe") =
             (IF f.kind = "unsubscribe" THEN f.keys ELSE {}) \cup KeysIn(T, "unsubscribe")
  BY <1>3, KeysInTail
<1>5. ToSubscribe = KeysIn(F, "subscribe") /\ ToUnsubscribe = KeysIn(F, "unsubscribe")
  BY <1>2 DEF ToSubscribe, ToUnsubscribe, ToSend
<1>6. ASSUME p_subs' \in PublicUpdates, PublicKeys' PROVE PublicInv'
  <2>1. PublicTypeOK'
    BY <1>1, <1>6 DEF PublicInv, PublicTypeOK
  <2>2. PublicLife' /\ PublicMessage'
    BY <1>1 DEF PublicInv, PublicLife, PublicMessage, Public!IsCurrent, Public!IsActive
  <2> QED BY <1>6, <2>1, <2>2 DEF PublicInv
<1>7. CASE /\ Public!Connected /\ p_subs' = [p_subs EXCEPT !.frames = Tail(@)]
           /\ p_server' = IF p_closing \/ p_link = "lost" THEN p_server
                          ELSE IF f.kind = "subscribe" THEN p_server \cup f.keys ELSE p_server \ f.keys
  <2>1. p_subs' = [p_subs EXCEPT !.frames = T]
    BY <1>2, <1>7
  <2> HIDE DEF F, f, T
  <2>2. p_subs' \in PublicUpdates /\ p_subs' # Public!Idle /\ p_subs'.frames = T
    BY <1>2, <1>4, <2>1 DEF PublicUpdates, Public!Idle
  <2>3. ToSubscribe' = KeysIn(T, "subscribe") /\ ToUnsubscribe' = KeysIn(T, "unsubscribe")
    BY <2>2 DEF ToSubscribe, ToUnsubscribe, ToSend
  <2>4. /\ ToSubscribe' \subseteq ToSubscribe /\ ToUnsubscribe' \subseteq ToUnsubscribe
        /\ p_link # "opened"
    BY <1>4, <1>5, <1>7, <2>3 DEF Public!Connected
  <2>5. CASE p_closing \/ p_link = "lost"
    <3>1. PublicKeys'
      BY <1>1, <1>3, <2>4, <2>5 DEF PublicInv, PublicKeys
    <3> QED BY <1>6, <2>2, <3>1
  <2>6. CASE ~(p_closing \/ p_link = "lost") /\ f.kind = "subscribe"
    <3>1. p_server' = p_server \cup f.keys
      BY <1>7, <2>6
    <3>2. ToSubscribe = f.keys \cup ToSubscribe' /\ ToUnsubscribe = ToUnsubscribe'
      BY <1>4, <1>5, <2>3, <2>6
    <3>3. p_server' \cup ToSubscribe' = p_server \cup ToSubscribe
      BY <3>1, <3>2
    <3>4. f.keys \subseteq NeededKeys
      BY <3>2 DEF PublicInv, PublicKeys
    <3>5. p_server \ ToUnsubscribe \subseteq NeededKeys
            => p_server' \ ToUnsubscribe' \subseteq NeededKeys
      BY <3>1, <3>2, <3>4
    <3> QED BY <1>1, <1>3, <2>4, <3>2, <3>3, <3>5, <1>6, <2>2 DEF PublicInv, PublicKeys
  <2>7. CASE ~(p_closing \/ p_link = "lost") /\ f.kind # "subscribe"
    <3>1. p_server' = p_server \ f.keys /\ f.kind = "unsubscribe"
      BY <1>4, <1>7, <2>7 DEF PublicFrames
    <3>2. ToSubscribe = ToSubscribe' /\ ToUnsubscribe = f.keys \cup ToUnsubscribe'
      BY <1>4, <1>5, <2>3, <3>1
    <3>3. ToSubscribe \cap f.keys = {}
      BY <3>2 DEF PublicInv, PublicKeys
    <3>4. (p_server' \cup ToSubscribe') \ ToUnsubscribe' = (p_server \cup ToSubscribe) \ ToUnsubscribe
      BY <3>1, <3>2, <3>3
    <3>5. p_server' \ ToUnsubscribe' = p_server \ ToUnsubscribe
      BY <3>1, <3>2
    <3> QED BY <1>1, <1>3, <2>4, <3>4, <3>5, <1>6, <2>2 DEF PublicInv, PublicKeys
  <2> QED BY <1>6, <2>2, <2>5, <2>6, <2>7
<1>8. CASE /\ ~Public!Connected \/ p_closing \/ p_link = "lost"
           /\ p_subs' = [p_subs EXCEPT !.frames = <<>>, !.request = TRUE]
           /\ UNCHANGED p_server
  <2> DEFINE e == <<>>
             b == TRUE
  <2>1. e \in Seq(PublicFrames) /\ b \in BOOLEAN /\ p_subs' = [p_subs EXCEPT !.frames = e,
                                                               !.request = b]
    BY <1>8
  <2> HIDE DEF e, b
  <2>2. p_subs' \in PublicUpdates /\ p_subs' # Public!Idle /\ p_subs'.frames = e
    BY <1>2, <2>1 DEF PublicUpdates, Public!Idle
  <2>3. ToSubscribe' = {} /\ ToUnsubscribe' = {}
    BY <2>2, NoKeysIn DEF ToSubscribe, ToUnsubscribe, ToSend, e
  <2>4. PublicKeys'
    BY <1>1, <1>3, <1>8, <2>3 DEF PublicInv, PublicKeys, Public!Connected
  <2> QED BY <1>6, <2>2, <2>4
<1> QED BY <1>7, <1>8 DEF Public!SendFrame

LEMMA PublicEndUpdate == ASSUME PublicInv, Public!EndUpdate PROVE PublicInv'
<1>1. /\ UNCHANGED <<p_owner, p_active, p_user, p_result, p_added, p_copy, p_server, p_overlap>>
      /\ UNCHANGED <<p_work, p_late>>
      /\ p_subs.frames = <<>> /\ p_subs' = Public!Idle
      /\ Public!Request \/ UNCHANGED Public!gapVars
  BY DEF Public!EndUpdate, Public!lifeVars, Public!workVars
<1>2. p_gen' \in Nat /\ p_gen' >= p_gen /\ UNCHANGED <<p_link, p_closing>>
  BY <1>1, PublicRequest DEF PublicInv, PublicTypeOK
<1>3. ToSend' = ToSend
  BY <1>1 DEF ToSend
<1>4. PublicTypeOK'
  BY <1>1, <1>2, PublicIdle DEF PublicInv, PublicTypeOK
<1>5. PublicLife'
  BY <1>1, <1>2 DEF PublicInv, PublicLife
<1>6. PublicMessage'
  BY <1>1, <1>2, PublicMessageFrame DEF PublicInv, PublicMessage
<1>7. PublicKeys'
  BY <1>1, <1>2, <1>3, PublicKeysFrame
<1> QED BY <1>4, <1>5, <1>6, <1>7 DEF PublicInv

-----------------------------------------------------------------------------
(* PublicStream: the connection.                                           *)

LEMMA PublicGapReports == ASSUME PublicInv, Public!GapReports PROVE PublicInv'
<1>1. /\ UNCHANGED <<p_link, p_gen, p_closing, p_owner, p_active, p_user, p_result>>
      /\ UNCHANGED <<p_added, p_copy, p_server, p_subs, p_overlap, p_work, p_late>>
  BY DEF Public!GapReports, Public!HandleGap, Public!CheckGap, Public!StoreGap, Public!TellGap,
     Public!Report, Public!gapVars, Public!lifeVars, Public!subVars, Public!workVars
<1>2. PublicLife' /\ p_gen' \in Nat /\ p_gen' >= p_gen
  BY <1>1 DEF PublicInv, PublicTypeOK, PublicLife
<1>3. p_work # Public!Idle => (~p_active' => p_user' = "stop")
  BY <1>1 DEF PublicInv, PublicMessage
<1> QED BY <1>1, <1>2, <1>3, PublicFrame

LEMMA PublicHandleConnect == ASSUME PublicInv, Public!HandleConnect PROVE PublicInv'
<1>1. /\ UNCHANGED <<p_gen, p_closing, p_owner, p_active, p_user, p_result>>
      /\ UNCHANGED <<p_added, p_copy, p_server, p_subs, p_overlap, p_work, p_late>>
      /\ \/ UNCHANGED p_link
         \/ p_link = "connect" /\ p_link' = "up"
  BY DEF Public!HandleConnect, Public!ConnectCheck, Public!ConnectTake, Public!ConnectCompare,
         Public!ConnectRecovered, Public!OnConnect, Public!gapVars, Public!lifeVars,
         Public!subVars, Public!workVars
<1>2. PublicLife' /\ p_gen' \in Nat /\ p_gen' >= p_gen
  BY <1>1 DEF PublicInv, PublicTypeOK, PublicLife
<1>3. p_work # Public!Idle => (~p_active' => p_user' = "stop")
  BY <1>1 DEF PublicInv, PublicMessage
<1> QED BY <1>1, <1>2, <1>3, PublicFrame

LEMMA PublicTransport == ASSUME PublicInv, Public!Transport PROVE PublicInv'
<1>1. UNCHANGED <<p_owner, p_active, p_user, p_result, p_added, p_subs, p_work, p_late>>
  BY DEF Public!Transport, Public!lifeVars, Public!workVars
<1>2. p_work # Public!Idle => (~p_active' => p_user' = "stop")
  BY <1>1 DEF PublicInv, PublicMessage
<1>3. p_gen \in Nat /\ p_gen + 1 \in Nat /\ p_gen + 1 >= p_gen
  BY DEF PublicInv, PublicTypeOK
<1>4. UNCHANGED <<ToSend, ToSubscribe, ToUnsubscribe, NeededKeys>>
  BY <1>1 DEF ToSend, ToSubscribe, ToUnsubscribe, NeededKeys
<1>5. ASSUME p_gen' \in Nat, p_gen' >= p_gen, p_link # "off" \/ p_link' = "off", PublicKeys'
      PROVE  PublicInv'
  <2>1. PublicTypeOK'
    BY <1>1, <1>5 DEF PublicInv, PublicTypeOK
  <2>2. PublicLife'
    BY <1>1, <1>5 DEF PublicInv, PublicLife
  <2>3. PublicMessage'
    BY <1>1, <1>2, <1>5, PublicMessageFrame
  <2> QED BY <1>5, <2>1, <2>2, <2>3 DEF PublicInv
<1>6. CASE Public!Open /\ p_server' = {} /\ ~p_overlap'
  <2>1. p_link = "dial" /\ p_link' = "opened" /\ p_gen' = p_gen + 1
    BY <1>6 DEF Public!Open, Public!Draw
  <2>2. PublicKeys'
    BY <1>4, <1>6, <2>1 DEF PublicInv, PublicKeys
  <2> QED BY <1>3, <1>5, <2>1, <2>2
<1>7. CASE Public!CopySubscriptions /\ p_copy' = p_added /\ UNCHANGED <<p_server, p_overlap>>
  <2>1. p_link = "restore" /\ p_link' = "replay" /\ UNCHANGED <<p_gen, p_closing>>
    BY <1>7 DEF Public!CopySubscriptions
  <2>2. PublicKeys'
    BY <1>1, <1>4, <1>7, <2>1 DEF PublicInv, PublicKeys
  <2> QED BY <1>3, <1>5, <2>1, <2>2
<1>8. CASE /\ p_link = "replay" /\ Public!Replay
                /\ p_server' = p_server \cup Public!ServerKeys(p_copy)
           /\ UNCHANGED <<p_copy, p_overlap>>
  <2>1. p_link' = "connect" /\ UNCHANGED <<p_gen, p_closing>>
    BY <1>8 DEF Public!Replay
  <2>2. p_owner /\ ~p_closing /\ ~p_overlap =>
           (p_server' \cup ToSubscribe) \ ToUnsubscribe = NeededKeys
    <3>1. SUFFICES ASSUME p_owner, ~p_closing, ~p_overlap
                   PROVE  (p_server' \cup ToSubscribe) \ ToUnsubscribe = NeededKeys
      OBVIOUS
    <3>2. p_server \ ToUnsubscribe \subseteq NeededKeys /\ p_copy = p_added
      BY <1>8, <3>1 DEF PublicInv, PublicKeys
    <3>3. p_server' = p_server \cup NeededKeys
      BY <1>8, <3>2 DEF NeededKeys
    <3>4. ToSubscribe \subseteq NeededKeys /\ ToUnsubscribe \cap NeededKeys = {}
      BY DEF PublicInv, PublicKeys
    <3> QED BY <3>2, <3>3, <3>4
  <2>3. PublicKeys'
    BY <1>1, <1>4, <1>8, <2>1, <2>2 DEF PublicInv, PublicKeys
  <2> QED BY <1>3, <1>5, <1>8, <2>1, <2>3
<1>9. ASSUME UNCHANGED <<p_copy, p_server, p_overlap>>, p_gen' \in Nat, p_gen' >= p_gen,
             p_link # "off" \/ p_link' = "off",
             p_link' = "opened" => p_link = "opened",
             p_link' = "restore" => p_link \in {"opened", "restore"},
             p_link' = "replay" => p_link = "replay",
             p_link' = "connect" => p_link = "connect",
             p_link' = "up" => p_link \in {"connect", "up"} \/ p_closing',
             p_link' \in {"restore", "replay", "connect", "up"} /\ p_closing => p_closing'
      PROVE  PublicInv'
  <2>1. PublicKeys'
    BY <1>1, <1>4, <1>9, PublicKeysFrame
  <2> QED BY <1>5, <1>9, <2>1
<1>10. CASE p_closing /\ Public!ReplayFails /\ UNCHANGED <<p_copy, p_server, p_overlap>>
  <2>1. p_link \in {"restore", "replay"} /\ p_link' = "up" /\ p_closing'
          /\ (p_gen' = p_gen \/ p_gen' = p_gen + 1)
    BY <1>10 DEF Public!ReplayFails, Public!Draw
  <2> QED BY <1>3, <1>9, <1>10, <2>1
<1>11. CASE /\ Public!Publish \/ Public!Drop \/ Public!Lost \/ Public!Closed \/ Public!Failed
                  \/ Public!PeerCloses \/ Public!DialFails
            /\ UNCHANGED <<p_copy, p_server, p_overlap>>
  <2>1. \/ p_gen' = p_gen
        \/ p_gen' = p_gen + 1
    BY <1>11 DEF Public!Publish, Public!Drop, Public!Lost, Public!Closed, Public!Failed,
                 Public!PeerCloses, Public!DialFails, Public!Draw
  <2>2. \/ p_link = "opened" /\ p_link' = "restore" /\ UNCHANGED p_closing
        \/ p_link' \in {"lost", "closed", "dial", "failed"} /\ p_link \in {"up", "lost", "closed",
                                                                           "failed", "dial"}
        \/ p_link # "off" /\ UNCHANGED p_link /\ p_closing'
    BY <1>11 DEF Public!Publish, Public!Drop, Public!Lost, Public!Closed, Public!Failed,
                 Public!PeerCloses, Public!DialFails
  <2> QED BY <1>3, <1>9, <1>11, <2>1, <2>2
<1>12. CASE /\ \E r \in p_reports : Public!Abandon(r) \/ Public!CloseSocket(r)
            /\ UNCHANGED <<p_copy, p_server, p_overlap>>
  <2>1. PICK r \in p_reports : Public!Abandon(r) \/ Public!CloseSocket(r)
    BY <1>12
  <2>2. UNCHANGED <<p_link, p_gen>>
    BY <2>1 DEF Public!Abandon, Public!CloseSocket
  <2>3. p_closing => p_closing'
    BY <2>1, Zenon DEF Public!Abandon, Public!CloseSocket
  <2> QED BY <1>3, <1>9, <1>12, <2>2, <2>3
<1> QED BY <1>6, <1>7, <1>8, <1>10, <1>11, <1>12 DEF Public!Transport

-----------------------------------------------------------------------------
(* PublicStream: the messages.                                             *)

(* A step of the worker, which takes the message from w to v. *)
LEMMA PublicWorkFrame ==
    ASSUME PublicInv, p_work' \in PublicWorks, p_late' \in Nat, PublicMessage',
           UNCHANGED <<p_link, p_closing, p_active, p_user, p_result, p_owner>>,
           UNCHANGED <<p_added, p_copy, p_server, p_subs, p_overlap>>,
           p_gen' \in Nat, p_gen' >= p_gen
    PROVE  PublicInv'
<1>1. PublicTypeOK' /\ PublicLife'
  BY DEF PublicInv, PublicTypeOK, PublicLife
<1>2. ToSend' = ToSend
  BY DEF ToSend
<1>3. PublicKeys'
  BY <1>2, PublicKeysFrame
<1> QED BY <1>1, <1>3 DEF PublicInv

LEMMA PublicHandleMessage == ASSUME PublicInv, Public!HandleMessage PROVE PublicInv'
<1>1. /\ UNCHANGED <<p_link, p_gen, p_closing, p_active, p_user, p_result, p_owner>>
      /\ UNCHANGED <<p_added, p_copy, p_server, p_subs, p_overlap>>
      /\ p_late' = 0
      /\ p_work' = IF Public!IsActive THEN [pc |-> "parse", gen |-> p_gen] ELSE Public!Idle
  BY DEF Public!HandleMessage, Public!gapVars, Public!lifeVars, Public!subVars
<1>2. p_gen \in Nat /\ p_late' \in Nat
  BY <1>1 DEF PublicInv, PublicTypeOK
<1>3. CASE Public!IsActive
  <2>1. p_work' \in PublicWorks /\ p_work'.gen = p_gen /\ p_active
    BY <1>1, <1>2, <1>3 DEF PublicWorks, Public!IsActive
  <2>2. PublicMessage'
    BY <1>1, <1>2, <2>1 DEF PublicMessage
  <2> QED BY <1>1, <1>2, <2>1, <2>2, PublicWorkFrame
<1>4. CASE ~Public!IsActive
  <2>1. p_work' = Public!Idle /\ p_work' \in PublicWorks
    BY <1>1, <1>4, PublicIdle
  <2>2. PublicMessage'
    BY <1>1, <2>1 DEF PublicMessage
  <2> QED BY <1>1, <1>2, <2>1, <2>2, PublicWorkFrame
<1> QED BY <1>3, <1>4

(* The worker lets go of the message, or goes on with the one it has. *)
LEMMA PublicWorkStep == ASSUME PublicInv, Public!WorkStep PROVE PublicInv'
<1>1. /\ UNCHANGED <<p_active, p_user, p_result, p_owner, p_added, p_copy, p_server, p_subs,
                     p_overlap>>
      /\ Public!Request \/ UNCHANGED Public!gapVars
  BY DEF Public!WorkStep, Public!Parse, Public!SportsMessage, Public!ReportInvalidMessage,
     Public!Deliver,
         Public!lifeVars, Public!subVars
<1>2. p_gen \in Nat /\ p_gen' \in Nat /\ p_gen' >= p_gen /\ UNCHANGED <<p_link, p_closing>>
  BY <1>1, PublicRequest DEF PublicInv, PublicTypeOK
<1>3. p_work \in PublicWorks /\ p_late \in Nat /\ p_late <= 1
  BY DEF PublicInv, PublicTypeOK, PublicMessage
<1>4. ASSUME p_work' = Public!Idle, p_late' \in Nat, p_late' <= 1 PROVE PublicInv'
  <2>1. PublicMessage' /\ p_work' \in PublicWorks
    BY <1>4, PublicIdle DEF PublicMessage
  <2> QED BY <1>1, <1>2, <1>4, <2>1, PublicWorkFrame
<1>5. ASSUME p_work # Public!Idle, p_work' \in PublicWorks, p_work'.gen = p_work.gen,
             UNCHANGED p_gen,
             p_late' \in Nat, p_late' <= 1,
             p_late' = 1 => p_work'.pc = "check" /\ ~Public!IsCurrent(p_work.gen)
      PROVE  PublicInv'
  <2>1. p_work.gen <= p_gen /\ (~p_active => p_user = "stop")
    BY <1>5 DEF PublicInv, PublicMessage
  <2>2. PublicMessage'
    BY <1>1, <1>2, <1>5, <2>1 DEF PublicMessage, Public!IsCurrent, Public!IsActive
  <2> QED BY <1>1, <1>2, <1>5, <2>2, PublicWorkFrame
<1>6. p_late = 1 => p_work = Public!Idle \/ (p_work.pc = "check" /\ ~Public!IsCurrent(p_work.gen))
  BY DEF PublicInv, PublicMessage
<1>7. CASE Public!Parse \/ Public!SportsMessage
  <2>1. p_work.pc = "parse" /\ UNCHANGED <<p_gen, p_late>>
    BY <1>7 DEF Public!Parse, Public!SportsMessage, Public!gapVars
  <2>2. p_work # Public!Idle /\ p_work.gen \in Nat /\ p_late = 0
    BY <1>3, <1>6, <2>1, PublicIdle DEF PublicWorks
  <2>3. Public!Cardinality(p_added) \in Nat
    BY FS_CardinalityType DEF PublicInv, PublicTypeOK, Public!Cardinality, Cardinality
  <2>4. PICK pc \in {"check", "fire"}, n \in Int :
           p_work' = Public!Idle \/ p_work' = [pc |-> pc, gen |-> p_work.gen, left |-> n]
    BY <1>7, <2>3 DEF Public!Parse, Public!SportsMessage
  <2>5. CASE p_work' = Public!Idle
    BY <1>4, <2>1, <2>2, <2>5
  <2>6. CASE p_work' = [pc |-> pc, gen |-> p_work.gen, left |-> n]
    <3>1. p_work' \in PublicWorks /\ p_work'.gen = p_work.gen
      BY <2>2, <2>6 DEF PublicWorks
    <3> QED BY <1>5, <2>1, <2>2, <3>1
  <2> QED BY <2>4, <2>5, <2>6
<1>8. CASE Public!ReportInvalidMessage
  <2>1. p_work.pc \in {"parse", "invalid"} /\ UNCHANGED p_late
    BY <1>8 DEF Public!ReportInvalidMessage
  <2>2. p_work # Public!Idle /\ p_late = 0 /\ p_work \in [pc : {"parse", "invalid"}, gen : Nat]
    BY <1>3, <1>6, <2>1, PublicIdle DEF PublicWorks
  <2>3. CASE p_work' = Public!Idle
    BY <1>4, <2>1, <2>2, <2>3
  <2>4. CASE p_work' = [p_work EXCEPT !.pc = "invalid"] /\ UNCHANGED p_gen
    <3>1. p_work' \in PublicWorks /\ p_work'.gen = p_work.gen
      BY <2>2, <2>4 DEF PublicWorks
    <3> QED BY <1>5, <2>1, <2>2, <2>4, <3>1
  <2> QED BY <1>8, <2>3, <2>4 DEF Public!ReportInvalidMessage, Public!gapVars
<1>9. CASE Public!Deliver
  <2>1. p_work.pc \in {"check", "fire"} /\ UNCHANGED p_gen
    BY <1>9 DEF Public!Deliver, Public!gapVars
  <2>2. p_work # Public!Idle /\ p_work \in [pc : {"check", "fire"}, gen : Nat, left : Int]
    BY <1>3, <2>1, PublicIdle DEF PublicWorks
  <2>3. CASE p_work.pc = "check" /\ UNCHANGED p_late /\ ~Public!IsCurrent(p_work.gen)
               /\ p_work' = Public!Idle
    BY <1>3, <1>4, <2>3
  <2>4. CASE /\ p_work.pc = "check" /\ UNCHANGED p_late /\ Public!IsCurrent(p_work.gen)
             /\ p_work' = [p_work EXCEPT !.pc = "fire"]
    <3>1. p_work' \in PublicWorks /\ p_work'.gen = p_work.gen
      BY <2>2, <2>4 DEF PublicWorks
    <3>2. p_late' = 0
      BY <1>3, <1>6, <2>2, <2>4
    <3> QED BY <1>5, <2>1, <2>2, <3>1, <3>2
  <2>5. CASE /\ p_work.pc = "fire"
             /\ p_late' = IF Public!IsCurrent(p_work.gen) THEN p_late ELSE p_late + 1
             /\ p_work' = IF p_work.left = 1 THEN Public!Idle
                          ELSE [p_work EXCEPT !.left = @ - 1, !.pc = "check"]
    <3>1. p_late = 0
      BY <1>3, <1>6, <2>2, <2>5
    <3>2. p_late' \in Nat /\ p_late' <= 1 /\ (p_late' = 1 => ~Public!IsCurrent(p_work.gen))
      BY <2>5, <3>1
    <3>3. CASE p_work.left = 1
      BY <1>4, <2>5, <3>2, <3>3
    <3>4. CASE p_work.left # 1
      <4> DEFINE n == p_work.left - 1
      <4>1. n \in Int /\ p_work' = [p_work EXCEPT !.left = n, !.pc = "check"]
        BY <2>2, <2>5, <3>4
      <4> HIDE DEF n
      <4>2. p_work' \in PublicWorks /\ p_work'.gen = p_work.gen /\ p_work'.pc = "check"
        BY <2>2, <4>1 DEF PublicWorks
      <4> QED BY <1>5, <2>1, <2>2, <3>2, <4>2
    <3> QED BY <3>3, <3>4
  <2> QED BY <1>9, <2>3, <2>4, <2>5 DEF Public!Deliver
<1> QED BY <1>7, <1>8, <1>9 DEF Public!WorkStep

-----------------------------------------------------------------------------
LEMMA PublicNext == ASSUME PublicInv, Public!Next \/ UNCHANGED p_vars PROVE PublicInv'
<1>1. CASE UNCHANGED p_vars
  BY <1>1 DEF p_vars, PublicInv, PublicTypeOK, PublicLife, PublicMessage, PublicKeys, ToSend,
     ToSubscribe,
              ToUnsubscribe, NeededKeys, Public!IsCurrent, Public!IsActive
<1> QED BY <1>1, PublicCallConnect, PublicCallDisconnect, PublicConnect, PublicDisconnect,
           PublicUpdate,
           PublicSendFrame, PublicEndUpdate, PublicGapReports, PublicHandleConnect, PublicTransport,
           PublicHandleMessage, PublicWorkStep
        DEF Public!Next, Public!UserStep, Public!SubsStep

LEMMA PublicInit == ASSUME Public!InitState PROVE PublicInv
<1>1. p_subs = Public!Idle /\ p_work = Public!Idle /\ p_link = "off" /\ p_gen = 0 /\ p_late = 0
        /\ p_added = {}
      /\ p_user = "idle" /\ p_result = "none"
  BY DEF Public!InitState, Public!GapInit
<1>2. ToSubscribe = {} /\ ToUnsubscribe = {}
  BY <1>1, NoKeysIn DEF ToSubscribe, ToUnsubscribe, ToSend
<1>3. PublicTypeOK
  BY <1>1, PublicIdle, FS_EmptySet DEF PublicTypeOK
<1> QED BY <1>1, <1>2, <1>3 DEF PublicInv, PublicLife, PublicMessage, PublicKeys

LEMMA PublicSafe == ASSUME PublicInv PROVE PublicStreamSafe
<1>1. p_subs = Public!Idle => ToSubscribe = {} /\ ToUnsubscribe = {}
  BY NoKeysIn DEF ToSubscribe, ToUnsubscribe, ToSend
<1>2. Public!KeysAgree
  BY <1>1 DEF Public!KeysAgree, PublicInv, PublicKeys, NeededKeys
<1>3. Public!PublicConnectIsOff
  BY DEF Public!PublicConnectIsOff, PublicInv, PublicLife
<1>4. Public!OneLateDelivery
  BY DEF Public!OneLateDelivery, PublicInv, PublicMessage
<1> QED BY <1>2, <1>3, <1>4 DEF PublicStreamSafe

(* The server sends for exactly the keys the subscriptions need once a connection is up and
   no update is under way, a failed connect() and a disconnect() leave neither a transport
   nor an active stream, and a superseded message reaches at most one more target: the
   property PublicStreamSafe, of PublicStream and RtdsStreamRuntime. *)
THEOREM PublicStreamStaysSafe == Spec => []PublicStreamSafe
<1>1. Init => PublicInv
  BY PublicInit DEF Init
<1>2. PublicInv /\ [Next]_allVars => PublicInv'
  BY StepOfOne, PublicNext
<1>3. PublicInv => PublicStreamSafe
  BY PublicSafe
<1> QED BY <1>1, <1>2, <1>3, PTL DEF Spec

-----------------------------------------------------------------------------
(* UserStream: the messages of an update that are still to be sent.        *)

UserSubscriptions == [all : BOOLEAN, markets : SUBSET Markets]
UserSessions == [on : BOOLEAN, markets : SUBSET Markets]
UserMessages == [kind : {"full", "subscribe", "unsubscribe"}, markets : SUBSET Markets]
UserUpdates ==
    {User!Idle} \cup [pc : {"send"}, messages : Seq(UserMessages), request : BOOLEAN]
UserWorks ==
    {User!Idle} \cup [pc : {"begin"}, ws : Nat]
        \cup [pc : {"check", "fire"}, ws : Nat, sgen : Nat, left : Int]

UserToSend == IF u_subs = User!Idle THEN <<>> ELSE u_subs.messages
MarketsIn(messages, kind) ==
    UNION {messages[i].markets : i \in {n \in 1 .. Len(messages) : messages[n].kind = kind}}
(* What the server is to deliver; no markets means all of them. *)
UserMarkets == User!Full(u_sub).markets
(* A new connection has been asked for, or will be when the update is over. *)
UserAsked == u_pending \/ (u_subs # User!Idle /\ u_subs.request)

UserTellings == [gen : Nat, pc : {"count", "store", "tell"}]
UserConnects == [pc : {"none", "load", "swap", "call"}, gen : Nat]

UserTypeOK ==
    /\ u_gen \in Nat /\ u_sgen \in Nat /\ u_late \in Nat
    /\ u_recovery \in Nat /\ u_told \in Nat /\ u_reports \subseteq User!Reports
    /\ u_telling \subseteq UserTellings /\ u_conn \in UserConnects
    /\ u_sub \in UserSubscriptions /\ u_copy \in UserSubscriptions /\ u_server \in UserSessions
    /\ u_subs \in UserUpdates /\ u_work \in UserWorks

(* Who ends the stream for a policy violation holds the connection while it does. *)
UserLife ==
    /\ u_user = "stop" => ~u_active
    /\ u_user = "idle" /\ u_result = "down" => u_link = "off" /\ ~u_active
    /\ u_closer # "none" => u_link = "closed"

(* A deactivated stream has left the generation of every message behind. *)
UserMessage ==
    /\ u_work.pc \in {"check", "fire"} =>
          u_work.ws <= u_gen /\ u_work.sgen <= u_sgen /\ (u_work.sgen = u_sgen => u_active)
    /\ u_late <= 1
    /\ u_late = 1 =>
          \/ u_work = User!Idle
          \/ u_work.pc = "check" /\ ~User!Current(u_work.sgen, u_work.ws)

(* The gap of generation g is stored, and its callback is about to run. *)
UserStored(g) == \E t \in u_telling : t.gen = g /\ t.pc = "tell"

(* Every gap is drawn, stored and told once, so that the one the connect callback has loaded
   is not stored again after a newer one. *)
UserGaps ==
    /\ \A r \in u_reports : r.gen > 0 /\ r.gen <= u_gen
    /\ \A r, s \in u_reports : r.gen = s.gen => r = s
    /\ \A t \in u_telling : t.gen > 0 /\ t.gen <= u_gen
    /\ \A s, t \in u_telling : s.gen = t.gen => s = t
    /\ \A t \in u_telling : \A r \in u_reports : r.gen = t.gen => ~r.told
    /\ \A r \in u_reports :
          ~r.told /\ ~UserStored(r.gen) => r.gen # u_recovery /\ r.gen # u_conn.gen
    /\ u_recovery <= u_told \/ UserStored(u_recovery)
    /\ u_told <= u_gen /\ u_recovery <= u_gen /\ u_conn.gen <= u_gen
    /\ u_conn.pc = "swap" /\ u_conn.gen = u_recovery =>
          u_told <= u_recovery /\ \A t \in u_telling : t.pc = "tell" => t.gen <= u_recovery

(* What an update has still to send does no harm to a session that is right already. *)
UserPlan ==
    /\ ~User!IsActive(u_sub) => UserToSend = <<>>
    /\ \/ UserToSend = <<User!Full(u_sub)>>
       \/ /\ \A i \in 1 .. Len(UserToSend) : UserToSend[i].kind # "full"
          /\ MarketsIn(UserToSend, "subscribe") \subseteq UserMarkets
          /\ MarketsIn(UserToSend, "unsubscribe") \cap UserMarkets = {}

(* What the server delivers, phase by phase. *)
UserSession ==
    /\ u_link = "opened" => u_server = User!NoSession
    /\ u_link = "replay" /\ ~u_overlap => u_copy = u_sub
    /\ u_link \in {"restore", "replay", "connect", "up"} /\ ~u_closing /\ ~u_overlap
          /\ ~User!IsActive(u_sub) => u_server = User!NoSession \/ UserAsked
    /\ u_link \in {"connect", "up"} /\ ~u_closing /\ ~u_overlap /\ User!IsActive(u_sub) =>
          \/ UserToSend = <<User!Full(u_sub)>>
          \/ /\ u_server.on
             /\ (u_server.markets \cup MarketsIn(UserToSend, "subscribe"))
                    \ MarketsIn(UserToSend, "unsubscribe") = UserMarkets

UserInv == UserTypeOK /\ UserLife /\ UserMessage /\ UserGaps /\ UserPlan /\ UserSession

LEMMA UserIdle ==
    /\ User!Idle.pc = "idle" /\ User!Idle \in UserUpdates /\ User!Idle \in UserWorks
    /\ \A s \in UserUpdates : s = User!Idle <=> s.pc = "idle"
    /\ \A w \in UserWorks : w = User!Idle <=> w.pc = "idle"
  BY DEF User!Idle, UserUpdates, UserWorks

LEMMA NoMarketsIn == ASSUME NEW kind PROVE MarketsIn(<<>>, kind) = {}
  BY DEF MarketsIn

(* The markets of the first message and of the others. *)
LEMMA MarketsInTail ==
    ASSUME NEW F \in Seq(UserMessages), F # <<>>, NEW kind
    PROVE  /\ Head(F) \in UserMessages /\ Tail(F) \in Seq(UserMessages)
           /\ MarketsIn(F, kind) =
                  (IF Head(F).kind = kind THEN Head(F).markets ELSE {}) \cup MarketsIn(Tail(F), kind)
<1>1. /\ Len(F) \in Nat /\ Len(F) > 0 /\ Tail(F) \in Seq(UserMessages) /\ Len(Tail(F)) = Len(F) - 1
      /\ Head(F) = F[1] /\ Head(F) \in UserMessages
      /\ \A i \in 1 .. Len(Tail(F)) : Tail(F)[i] = F[i + 1]
  BY HeadTailProperties
<1>2. ASSUME NEW k, k \in MarketsIn(F, kind)
      PROVE  k \in (IF Head(F).kind = kind THEN Head(F).markets ELSE {}) \cup MarketsIn(Tail(F), kind)
  <2>1. PICK i \in 1 .. Len(F) : F[i].kind = kind /\ k \in F[i].markets
    BY <1>2 DEF MarketsIn
  <2>2. CASE i = 1
    BY <1>1, <2>1, <2>2
  <2>3. CASE i # 1
    <3>1. i - 1 \in 1 .. Len(Tail(F)) /\ Tail(F)[i - 1] = F[i]
      BY <1>1, <2>3
    <3>2. k \in MarketsIn(Tail(F), kind)
      BY <2>1, <3>1 DEF MarketsIn
    <3> QED BY <3>2
  <2> QED BY <2>2, <2>3
<1>3. ASSUME NEW k, k \in MarketsIn(Tail(F), kind)
      PROVE  k \in MarketsIn(F, kind)
  <2>1. PICK i \in 1 .. Len(Tail(F)) : Tail(F)[i].kind = kind /\ k \in Tail(F)[i].markets
    BY <1>3 DEF MarketsIn
  <2>2. i + 1 \in 1 .. Len(F) /\ Tail(F)[i] = F[i + 1]
    BY <1>1, <2>1
  <2> QED BY <2>1, <2>2 DEF MarketsIn
<1>4. ASSUME NEW k, Head(F).kind = kind, k \in Head(F).markets
      PROVE  k \in MarketsIn(F, kind)
  <2>1. 1 \in 1 .. Len(F) /\ F[1].kind = kind /\ k \in F[1].markets
    BY <1>1, <1>4
  <2> QED BY <2>1 DEF MarketsIn
<1> QED BY <1>1, <1>2, <1>3, <1>4

LEMMA OneMessage ==
    ASSUME NEW f \in UserMessages, NEW kind
    PROVE  /\ <<f>> \in Seq(UserMessages)
           /\ MarketsIn(<<f>>, kind) = IF f.kind = kind THEN f.markets ELSE {}
<1>1. <<f>> \in Seq(UserMessages) /\ <<f>> # <<>> /\ Head(<<f>>) = f /\ Tail(<<f>>) = <<>>
  OBVIOUS
<1>2. MarketsIn(<<f>>, kind) = (IF f.kind = kind THEN f.markets ELSE {}) \cup MarketsIn(<<>>, kind)
  BY <1>1, MarketsInTail
<1> QED BY <1>1, <1>2, NoMarketsIn

LEMMA TwoMessages ==
    ASSUME NEW f \in UserMessages, NEW g \in UserMessages, NEW kind
    PROVE  /\ <<f>> \o <<g>> = <<f, g>> /\ <<f, g>> \in Seq(UserMessages)
           /\ MarketsIn(<<f, g>>, kind) = (IF f.kind = kind THEN f.markets ELSE {})
                                              \cup (IF g.kind = kind THEN g.markets ELSE {})
<1>1. <<f, g>> \in Seq(UserMessages) /\ <<f, g>> # <<>> /\ Head(<<f, g>>) = f
        /\ Tail(<<f, g>>) = <<g>>
  OBVIOUS
<1>2. MarketsIn(<<f, g>>, kind) = (IF f.kind = kind THEN f.markets ELSE {}) \cup MarketsIn(<<g>>, kind)
  BY <1>1, MarketsInTail
<1>3. <<f>> \o <<g>> = <<f, g>>
  <2> DEFINE s == <<f>> \o <<g>>
             t == <<f, g>>
  <2>1. <<f>> \in Seq(UserMessages) /\ <<g>> \in Seq(UserMessages)
    OBVIOUS
  <2>2. s \in Seq(UserMessages) /\ Len(s) = 2 /\ s[1] = f /\ s[2] = g
    BY <2>1, ConcatProperties
  <2>3. t \in Seq(UserMessages) /\ Len(t) = 2 /\ t[1] = f /\ t[2] = g
    OBVIOUS
  <2> HIDE DEF s, t
  <2>4. Len(s) = Len(t) /\ \A i \in 1 .. Len(s) : s[i] = t[i]
    BY <2>2, <2>3
  <2>5. s = t
    BY <2>2, <2>3, <2>4, SeqEqual
  <2> QED BY <2>5 DEF s, t
<1> QED BY <1>1, <1>2, <1>3, OneMessage

LEMMA FullIs ==
    ASSUME NEW s \in UserSubscriptions
    PROVE  /\ User!Full(s) \in UserMessages /\ User!Full(s).kind = "full"
           /\ User!Full(s).markets = IF s.all THEN {} ELSE s.markets
           /\ User!Full(s).markets \subseteq Markets
<1> DEFINE m == IF s.all THEN {} ELSE s.markets
<1>1. m \in SUBSET Markets /\ User!Full(s) = [kind |-> "full", markets |-> m]
  BY DEF UserSubscriptions, User!Full
<1> HIDE DEF m
<1>2. User!Full(s) \in UserMessages /\ User!Full(s).kind = "full" /\ User!Full(s).markets = m
  BY <1>1 DEF UserMessages
<1> QED BY <1>1, <1>2 DEF m

LEMMA SyncIs ==
    ASSUME NEW kind \in {"subscribe", "unsubscribe"}, NEW m \in SUBSET Markets
    PROVE  /\ User!Sync(kind, m) \in UserMessages /\ User!Sync(kind, m).kind = kind
           /\ User!Sync(kind, m).markets = m
  BY DEF User!Sync, UserMessages

(* plan_user_subscription_sync: what its messages make of a session that was right before
   the update. *)
LEMMA PlanIs ==
    ASSUME NEW a \in UserSubscriptions, NEW b \in UserSubscriptions
    PROVE  LET p == User!PlanSync(a, b)
               A == User!Full(a).markets
               B == User!Full(b).markets
           IN  /\ p.messages \in Seq(UserMessages) /\ p.reconnect \in BOOLEAN
               /\ ~User!IsActive(b) => p.messages = <<>> /\ (User!IsActive(a) => p.reconnect)
               /\ User!IsActive(b) /\ ~User!IsActive(a) => p.messages = <<User!Full(b)>>
               /\ User!IsActive(b) /\ User!IsActive(a) =>
                     /\ \A i \in 1 .. Len(p.messages) : p.messages[i].kind # "full"
                     /\ MarketsIn(p.messages, "subscribe") \subseteq B
                     /\ MarketsIn(p.messages, "unsubscribe") \cap B = {}
                     /\ (A \cup MarketsIn(p.messages, "subscribe"))
                            \ MarketsIn(p.messages, "unsubscribe") = B
<1> DEFINE p == User!PlanSync(a, b)
           A == User!Full(a).markets
           B == User!Full(b).markets
           f == User!Sync("subscribe", b.markets \ a.markets)
           g == User!Sync("unsubscribe", a.markets \ b.markets)
           up == User!Sync("subscribe", b.markets)
           down == User!Sync("unsubscribe", a.markets)
<1>1. /\ A = (IF a.all THEN {} ELSE a.markets) /\ B = (IF b.all THEN {} ELSE b.markets)
      /\ a.markets \in SUBSET Markets /\ b.markets \in SUBSET Markets
  BY FullIs DEF UserSubscriptions
<1>2. /\ f \in UserMessages /\ f.kind = "subscribe" /\ f.markets = b.markets \ a.markets
      /\ g \in UserMessages /\ g.kind = "unsubscribe" /\ g.markets = a.markets \ b.markets
      /\ up \in UserMessages /\ up.kind = "subscribe" /\ up.markets = b.markets
      /\ down \in UserMessages /\ down.kind = "unsubscribe" /\ down.markets = a.markets
  BY <1>1, SyncIs
<1>3. /\ <<>> \in Seq(UserMessages) /\ <<f>> \in Seq(UserMessages) /\ <<g>> \in Seq(UserMessages)
      /\ <<f, g>> \in Seq(UserMessages) /\ <<up>> \in Seq(UserMessages)
           /\ <<down>> \in Seq(UserMessages)
      /\ <<User!Full(b)>> \in Seq(UserMessages)
  BY <1>2, FullIs
<1>4. <<>> \o <<>> = <<>> /\ <<>> \o <<g>> = <<g>> /\ <<f>> \o <<>> = <<f>>
        /\ <<f>> \o <<g>> = <<f, g>>
  BY <1>2, <1>3, ConcatEmptySeq, TwoMessages
<1>5. CASE ~User!IsActive(b)
  <2>1. p.messages = <<>> /\ p.reconnect = User!IsActive(a)
    BY <1>5 DEF User!PlanSync
  <2>2. p.reconnect \in BOOLEAN /\ (User!IsActive(a) => p.reconnect)
    BY <2>1 DEF User!IsActive
  <2> QED BY <1>3, <1>5, <2>1, <2>2
<1>6. CASE User!IsActive(b) /\ ~User!IsActive(a)
  <2>1. p.messages = <<User!Full(b)>> /\ p.reconnect = FALSE
    BY <1>6 DEF User!PlanSync
  <2> QED BY <1>3, <1>6, <2>1
<1>7. CASE User!IsActive(b) /\ User!IsActive(a)
  <2> DEFINE M == IF b.all THEN IF a.all THEN <<>> ELSE <<down>>
                  ELSE IF a.all THEN <<up>>
                  ELSE (IF b.markets \ a.markets = {} THEN <<>> ELSE <<f>>)
                           \o (IF a.markets \ b.markets = {} THEN <<>> ELSE <<g>>)
  <2>1. p.messages = M /\ p.reconnect = FALSE
    BY <1>7 DEF User!PlanSync
  <2>2. SUFFICES /\ M \in Seq(UserMessages)
                 /\ \A i \in 1 .. Len(M) : M[i].kind # "full"
                 /\ MarketsIn(M, "subscribe") \subseteq B
                 /\ MarketsIn(M, "unsubscribe") \cap B = {}
                 /\ (A \cup MarketsIn(M, "subscribe")) \ MarketsIn(M, "unsubscribe") = B
    BY <1>7, <2>1
  <2> HIDE DEF f, g, up, down, A, B
  <2>3. CASE b.all /\ a.all
    <3>1. M = <<>> /\ MarketsIn(M, "subscribe") = {} /\ MarketsIn(M, "unsubscribe") = {}
      BY <2>3, NoMarketsIn
    <3> QED BY <1>1, <1>3, <2>3, <3>1
  <2>4. CASE b.all /\ ~a.all
    <3>1. M = <<down>>
      BY <2>4
    <3>2. MarketsIn(M, "subscribe") = {} /\ MarketsIn(M, "unsubscribe") = a.markets
      BY <1>2, <3>1, OneMessage
    <3>3. \A i \in 1 .. Len(M) : M[i].kind # "full"
      BY <1>2, <3>1
    <3> HIDE DEF M
    <3> QED BY <1>1, <1>3, <2>4, <3>1, <3>2, <3>3
  <2>5. CASE ~b.all /\ a.all
    <3>1. M = <<up>>
      BY <2>5
    <3>2. MarketsIn(M, "subscribe") = b.markets /\ MarketsIn(M, "unsubscribe") = {}
      BY <1>2, <3>1, OneMessage
    <3>3. \A i \in 1 .. Len(M) : M[i].kind # "full"
      BY <1>2, <3>1
    <3> HIDE DEF M
    <3> QED BY <1>1, <1>3, <2>5, <3>1, <3>2, <3>3
  <2>6. CASE ~b.all /\ ~a.all
    <3> DEFINE P == b.markets \ a.markets
               Q == a.markets \ b.markets
    <3>1. M = IF P = {} THEN IF Q = {} THEN <<>> ELSE <<g>> ELSE IF Q = {} THEN <<f>> ELSE <<f, g>>
      BY <1>4, <2>6
    <3>2. /\ MarketsIn(<<>>, "subscribe") = {} /\ MarketsIn(<<>>, "unsubscribe") = {}
          /\ MarketsIn(<<f>>, "subscribe") = P /\ MarketsIn(<<f>>, "unsubscribe") = {}
          /\ MarketsIn(<<g>>, "subscribe") = {} /\ MarketsIn(<<g>>, "unsubscribe") = Q
      BY <1>2, NoMarketsIn, OneMessage
    <3>3. MarketsIn(<<f, g>>, "subscribe") = P /\ MarketsIn(<<f, g>>, "unsubscribe") = Q
      <4>1. f \in UserMessages /\ g \in UserMessages
        BY <1>2
      <4>2. MarketsIn(<<f, g>>, "subscribe") = (IF f.kind = "subscribe" THEN f.markets ELSE {})
                                                   \cup (IF g.kind = "subscribe" THEN g.markets ELSE {})
        BY <4>1, TwoMessages
      <4>3. MarketsIn(<<f, g>>, "unsubscribe") = (IF f.kind = "unsubscribe" THEN f.markets ELSE {})
                                                   \cup (IF g.kind = "unsubscribe" THEN g.markets ELSE {})
        BY <4>1, TwoMessages
      <4> QED BY <1>2, <4>2, <4>3
    <3>4. \A i \in 1 .. Len(M) : M[i].kind # "full"
      BY <1>2, <3>1
    <3>5. M \in Seq(UserMessages)
      BY <1>3, <3>1
    <3> HIDE DEF M
    <3>6. MarketsIn(M, "subscribe") = P /\ MarketsIn(M, "unsubscribe") = Q
      BY <3>1, <3>2, <3>3
    <3>7. P \subseteq B /\ Q \cap B = {} /\ (A \cup P) \ Q = B
      BY <1>1, <2>6
    <3> QED BY <3>4, <3>5, <3>6, <3>7
  <2> QED BY <2>3, <2>4, <2>5, <2>6
<1> QED BY <1>5, <1>6, <1>7

(* External: what the server makes of a message. *)
LEMMA ReceivesIs ==
    ASSUME u_server \in UserSessions, NEW m \in UserMessages
    PROVE  /\ User!Receives(m) \in UserSessions
           /\ m.kind = "full" => User!Receives(m).on /\ User!Receives(m).markets = m.markets
           /\ m.kind # "full" /\ ~u_server.on => User!Receives(m) = u_server
           /\ m.kind = "subscribe" /\ u_server.on =>
                 User!Receives(m).on /\ User!Receives(m).markets = u_server.markets \cup m.markets
           /\ m.kind = "unsubscribe" /\ u_server.on =>
                 User!Receives(m).on /\ User!Receives(m).markets = u_server.markets \ m.markets
<1>1. m.kind \in {"full", "subscribe", "unsubscribe"} /\ m.markets \in SUBSET Markets
  BY DEF UserMessages
<1>2. CASE m.kind = "full"
  <2> DEFINE b == TRUE
             s == [on |-> b, markets |-> m.markets]
  <2>1. User!Receives(m) = s
    BY <1>2 DEF User!Receives
  <2>2. b \in BOOLEAN
    OBVIOUS
  <2>3. s.on = b /\ s.markets = m.markets
    OBVIOUS
  <2>4. s.on
    BY <2>3
  <2> HIDE DEF b
  <2>5. s \in UserSessions
    BY <1>1, <2>2 DEF UserSessions
  <2> HIDE DEF s
  <2> QED BY <1>2, <2>1, <2>3, <2>4, <2>5
<1>3. CASE m.kind # "full" /\ ~u_server.on
  <2>1. User!Receives(m) = u_server
    BY <1>1, <1>3 DEF User!Receives
  <2> QED BY <1>3, <2>1
<1>4. CASE m.kind = "subscribe" /\ u_server.on
  <2> DEFINE x == u_server.markets \cup m.markets
             s == [u_server EXCEPT !.markets = x]
  <2>1. User!Receives(m) = s
    BY <1>4 DEF User!Receives
  <2>2. x \in SUBSET Markets
    BY <1>1 DEF UserSessions
  <2> HIDE DEF x
  <2>3. s \in UserSessions /\ s.markets = x
    BY <2>2 DEF UserSessions
  <2>4. s.on = u_server.on
    BY DEF UserSessions
  <2> HIDE DEF s
  <2> QED BY <1>4, <2>1, <2>3, <2>4 DEF x
<1>5. CASE m.kind = "unsubscribe" /\ u_server.on
  <2> DEFINE x == u_server.markets \ m.markets
             s == [u_server EXCEPT !.markets = x]
  <2>1. User!Receives(m) = s
    BY <1>5 DEF User!Receives
  <2>2. x \in SUBSET Markets
    BY <1>1 DEF UserSessions
  <2> HIDE DEF x
  <2>3. s \in UserSessions /\ s.markets = x
    BY <2>2 DEF UserSessions
  <2>4. s.on = u_server.on
    BY DEF UserSessions
  <2> HIDE DEF s
  <2> QED BY <1>5, <2>1, <2>3, <2>4 DEF x
<1> QED BY <1>1, <1>2, <1>3, <1>4, <1>5

-----------------------------------------------------------------------------
(* UserStream: what a step that leaves a part of it alone has to show.     *)

(* A gap is drawn, or some reports are over. *)
UserGapStep ==
    \/ u_gen' = u_gen /\ u_reports' \subseteq u_reports
    \/ /\ u_gen' = u_gen + 1
       /\ \E n \in User!Reports : n.gen = u_gen + 1 /\ u_reports' = u_reports \cup {n}

(* A step of the connection that needs nothing of the session. *)
UserLinkStep ==
    /\ u_link' = "opened" => u_link = "opened"
    /\ u_link' = "restore" => u_link \in {"opened", "restore"}
    /\ u_link' = "replay" => u_link = "replay"
    /\ u_link' = "connect" => u_link = "connect"
    /\ u_link' = "up" => u_link \in {"connect", "up"} \/ u_closing'
    /\ u_link' \in {"restore", "replay", "connect", "up"} =>
          (u_closing => u_closing') /\ (u_link = "opened" \/ (u_pending => u_pending'))

LEMMA UserDraw ==
    ASSUME UserTypeOK, NEW own \in BOOLEAN, User!Draw(own)
    PROVE  UserGapStep
<1> DEFINE b == FALSE
           n == [gen |-> u_gen + 1, own |-> own, told |-> b]
<1>1. u_gen + 1 \in Nat /\ b \in BOOLEAN
  BY DEF UserTypeOK
<1>2. u_gen' = u_gen + 1 /\ u_reports' = u_reports \cup {n}
  BY DEF User!Draw
<1> HIDE DEF b
<1>3. n \in User!Reports /\ n.gen = u_gen + 1
  BY <1>1 DEF User!Reports
<1> HIDE DEF n
<1> QED BY <1>2, <1>3 DEF UserGapStep

LEMMA UserGenerations ==
    ASSUME UserTypeOK, UserGapStep
    PROVE  u_gen' \in Nat /\ u_gen' >= u_gen /\ u_reports' \subseteq User!Reports
<1>1. u_gen \in Nat /\ u_reports \subseteq User!Reports
  BY DEF UserTypeOK
<1> QED BY <1>1 DEF UserGapStep

LEMMA UserRequest ==
    ASSUME UserTypeOK, User!Request \/ UNCHANGED User!gapVars
    PROVE  /\ UserGapStep /\ UNCHANGED <<u_link, u_closing>> /\ (u_pending => u_pending')
           /\ User!Request /\ u_link # "off" => u_pending'
<1>1. CASE User!Draw(FALSE) /\ u_pending' = TRUE /\ UNCHANGED <<u_link, u_closing>>
  BY <1>1, UserDraw
<1>2. CASE /\ UNCHANGED <<u_gen, u_reports, u_link, u_closing, u_pending>>
           /\ User!Request => u_pending \/ u_link = "off"
  BY <1>2 DEF UserGapStep
<1>3. FALSE \in BOOLEAN
  OBVIOUS
<1> QED BY <1>1, <1>2 DEF User!Request, User!gapVars, User!Draw

LEMMA UserMessageFrame ==
    ASSUME UserInv, UNCHANGED <<u_work, u_late>>, u_gen' \in Nat, u_gen' >= u_gen,
           u_sgen' \in Nat, u_sgen' >= u_sgen, u_owner' => u_owner,
           u_sgen' = u_sgen /\ u_active => u_active'
    PROVE  UserMessage'
<1>1. u_gen \in Nat /\ u_sgen \in Nat /\ u_work \in UserWorks
  BY DEF UserInv, UserTypeOK
<1>2. CASE u_work.pc \in {"check", "fire"}
  <2>1. u_work.ws \in Nat /\ u_work.sgen \in Nat
    BY <1>1, <1>2, UserIdle DEF UserWorks
  <2> DEFINE w == u_work.ws
             s == u_work.sgen
  <2>2. /\ w \in Nat /\ s \in Nat /\ w <= u_gen /\ s <= u_sgen /\ (s = u_sgen => u_active)
        /\ w' = w /\ s' = s
    BY <1>2, <2>1 DEF UserInv, UserMessage
  <2> HIDE DEF w, s
  <2>3. w <= u_gen' /\ s <= u_sgen' /\ (s = u_sgen' => u_active')
    BY <1>1, <2>2
  <2>4. ~User!Current(s, w) => ~(User!Current(s, w))'
    BY <1>1, <2>2 DEF User!Current
  <2> QED BY <2>3, <2>4 DEF UserInv, UserMessage, w, s
<1>3. CASE u_work.pc \notin {"check", "fire"}
  BY <1>3 DEF UserInv, UserMessage
<1> QED BY <1>2, <1>3

LEMMA UserGapsFrame ==
    ASSUME UserInv, UserGapStep, UNCHANGED <<u_recovery, u_told, u_telling, u_conn>>
    PROVE  UserGaps'
<1>1. /\ u_gen \in Nat /\ u_recovery \in Nat /\ u_told \in Nat /\ u_conn.gen \in Nat
      /\ \A r \in u_reports : r.gen \in Nat
      /\ \A t \in u_telling : t.gen \in Nat
  BY DEF UserInv, UserTypeOK, User!Reports, UserTellings, UserConnects
<1>2. \A g : UserStored(g)' <=> UserStored(g)
  BY DEF UserStored
<1>3. CASE u_gen' = u_gen /\ u_reports' \subseteq u_reports
  BY <1>1, <1>2, <1>3 DEF UserInv, UserGaps
<1>4. CASE /\ u_gen' = u_gen + 1
           /\ \E n \in User!Reports : n.gen = u_gen + 1 /\ u_reports' = u_reports \cup {n}
  <2>1. PICK n \in User!Reports : n.gen = u_gen + 1 /\ u_reports' = u_reports \cup {n}
    BY <1>4
  <2>2. n.gen > u_gen /\ n.gen > 0 /\ n.gen = u_gen'
    BY <1>1, <1>4, <2>1
  <2>3. \A r \in u_reports' : r.gen > 0 /\ r.gen <= u_gen'
    BY <1>1, <1>4, <2>1, <2>2 DEF UserInv, UserGaps
  <2>4. \A r, s \in u_reports' : r.gen = s.gen => r = s
    BY <1>1, <2>1, <2>2 DEF UserInv, UserGaps
  <2>5. /\ u_recovery < n.gen /\ u_conn.gen < n.gen
        /\ u_told <= u_gen' /\ u_recovery <= u_gen' /\ u_conn.gen <= u_gen'
    BY <1>1, <1>4, <2>1, <2>2 DEF UserInv, UserGaps
  <2>6. \A r \in u_reports' : ~r.told /\ ~UserStored(r.gen) => r.gen # u_recovery /\ r.gen # u_conn.gen
    BY <1>1, <2>1, <2>5 DEF UserInv, UserGaps
  <2>7. \A t \in u_telling : t.gen > 0 /\ t.gen <= u_gen' /\ t.gen # n.gen
    BY <1>1, <1>4, <2>2 DEF UserInv, UserGaps
  <2>8. \A t \in u_telling : \A r \in u_reports' : r.gen = t.gen => ~r.told
    BY <2>1, <2>7 DEF UserInv, UserGaps
  <2> QED BY <1>2, <2>3, <2>4, <2>5, <2>6, <2>7, <2>8 DEF UserInv, UserGaps
<1> QED BY <1>3, <1>4 DEF UserGapStep

LEMMA UserSessionFrame ==
    ASSUME UserInv, UNCHANGED <<u_sub, u_copy, u_server, u_subs, u_overlap>>, UserLinkStep
    PROVE  UserPlan' /\ UserSession'
<1>1. UNCHANGED <<UserToSend, UserMarkets>>
  BY DEF UserToSend, UserMarkets
<1>2. UserPlan'
  BY <1>1 DEF UserInv, UserPlan
<1>3. u_link' \in {"restore", "replay", "connect", "up"} /\ u_link # "opened" /\ UserAsked
        => UserAsked'
  BY DEF UserAsked, UserLinkStep
<1>4. u_link' = "opened" => u_server' = User!NoSession
  BY DEF UserInv, UserSession, UserLinkStep
<1>5. u_link' = "replay" /\ ~u_overlap' => u_copy' = u_sub'
  BY DEF UserInv, UserSession, UserLinkStep
<1>6. u_link' \in {"restore", "replay", "connect", "up"} /\ ~u_closing' /\ ~u_overlap'
         /\ ~User!IsActive(u_sub') => u_server' = User!NoSession \/ UserAsked'
  BY <1>3 DEF UserInv, UserSession, UserLinkStep
<1>7. u_link' \in {"connect", "up"} /\ ~u_closing' => u_link \in {"connect", "up"} /\ ~u_closing
  BY DEF UserLinkStep
<1> QED BY <1>1, <1>2, <1>4, <1>5, <1>6, <1>7 DEF UserInv, UserSession

(* A step that changes neither the subscriptions nor the message nor what was told. *)
LEMMA UserFrame ==
    ASSUME UserInv,
           UNCHANGED <<u_recovery, u_told, u_telling, u_conn, u_sub, u_copy, u_server, u_subs, u_overlap,
                       u_work, u_late>>,
           UserGapStep, UserLinkStep, UserLife', u_sgen' \in Nat, u_sgen' >= u_sgen,
           u_owner' => u_owner, u_sgen' = u_sgen /\ u_active => u_active'
    PROVE  UserInv'
<1>1. u_gen' \in Nat /\ u_gen' >= u_gen /\ u_reports' \subseteq User!Reports
  BY UserGenerations DEF UserInv
<1>2. UserTypeOK'
  BY <1>1 DEF UserInv, UserTypeOK
<1>3. UserMessage'
  BY <1>1, UserMessageFrame
<1>4. UserGaps'
  BY UserGapsFrame
<1>5. UserPlan' /\ UserSession'
  BY UserSessionFrame
<1> QED BY <1>2, <1>3, <1>4, <1>5 DEF UserInv

-----------------------------------------------------------------------------
(* UserStream: the user's calls.                                           *)

LEMMA UserCalls ==
    ASSUME UserInv, User!CallConnect \/ User!CallDisconnect \/ User!ConnectFlags \/ User!ConnectWait
    PROVE  UserInv'
<1>1. /\ UNCHANGED <<u_link, u_gen, u_reports, u_pending, u_closing, u_sgen, u_closer>>
      /\ UNCHANGED <<u_recovery, u_told, u_telling, u_conn, u_sub, u_copy, u_server, u_subs, u_overlap, u_work,
                     u_late>>
  BY DEF User!CallConnect, User!CallDisconnect, User!ConnectFlags, User!ConnectWait, User!gapVars,
         User!lifeVars, User!subVars, User!workVars, User!gapStateVars
<1>2. u_owner' => u_owner
  BY DEF User!CallConnect, User!CallDisconnect, User!ConnectFlags, User!ConnectWait, User!lifeVars
<1>3. u_active => u_active'
  BY DEF User!CallConnect, User!CallDisconnect, User!ConnectFlags, User!ConnectWait, User!lifeVars
<1>4. u_user' # "stop" /\ (u_user' = "idle" => u_result' = "up")
  BY DEF User!CallConnect, User!CallDisconnect, User!ConnectFlags, User!ConnectWait
<1>5. UserLife'
  BY <1>1, <1>4 DEF UserInv, UserLife
<1>6. UserGapStep /\ UserLinkStep /\ u_sgen' \in Nat /\ u_sgen' >= u_sgen
  BY <1>1 DEF UserGapStep, UserLinkStep, UserInv, UserTypeOK
<1> QED BY <1>1, <1>2, <1>3, <1>5, <1>6, UserFrame

LEMMA UserConnectStart == ASSUME UserInv, User!ConnectStart PROVE UserInv'
<1>1. /\ UNCHANGED <<u_gen, u_reports, u_owner, u_active, u_sgen, u_closer>>
      /\ UNCHANGED <<u_recovery, u_told, u_telling, u_conn, u_sub, u_copy, u_server, u_subs, u_overlap, u_work,
                     u_late>>
      /\ u_user' = "wait"
      /\ \/ u_link = "off" /\ u_link' = "dial"
         \/ UNCHANGED <<u_link, u_pending, u_closing>>
  BY DEF User!ConnectStart, User!Start, User!lifeVars, User!subVars, User!workVars,
     User!gapStateVars
<1>2. UserLife'
  BY <1>1 DEF UserInv, UserLife
<1>3. UserGapStep /\ UserLinkStep /\ u_sgen' \in Nat /\ u_sgen' >= u_sgen
  BY <1>1 DEF UserGapStep, UserLinkStep, UserInv, UserTypeOK
<1> QED BY <1>1, <1>2, <1>3, UserFrame

(* deactivate_stream *)
LEMMA UserDeactivate ==
    ASSUME UserTypeOK, User!Deactivate
    PROVE  /\ ~u_active' /\ u_sgen' \in Nat /\ u_sgen' >= u_sgen
           /\ u_sgen' = u_sgen /\ u_active => u_active'
<1>1. u_sgen \in Nat /\ ~u_active' /\ u_sgen' = IF u_active THEN u_sgen + 1 ELSE u_sgen
  BY DEF UserTypeOK, User!Deactivate
<1> QED BY <1>1

LEMMA UserTearDown == ASSUME UserInv, User!TearDown PROVE UserInv'
<1>1. /\ UNCHANGED <<u_gen, u_owner, u_closer>>
      /\ UNCHANGED <<u_recovery, u_told, u_telling, u_conn, u_sub, u_copy, u_server, u_subs, u_overlap, u_work,
                     u_late>>
  BY DEF User!TearDown, User!StopTransport, User!Stop, User!gapVars, User!subVars, User!workVars, User!gapStateVars
<1>2. CASE /\ u_user = "deactivate" /\ User!Deactivate /\ u_user' = "stop"
           /\ UNCHANGED <<u_link, u_reports, u_pending, u_closing>>
  <2>1. /\ ~u_active' /\ u_sgen' \in Nat /\ u_sgen' >= u_sgen
        /\ u_sgen' = u_sgen /\ u_active => u_active'
    BY <1>2, UserDeactivate DEF UserInv
  <2>2. UserLife' /\ UserGapStep /\ UserLinkStep
    BY <1>1, <1>2, <2>1 DEF UserInv, UserLife, UserGapStep, UserLinkStep
  <2> QED BY <1>1, <2>1, <2>2, UserFrame
<1>3. CASE /\ u_user = "stop" /\ u_closer = "none" /\ u_user' = "idle" /\ u_link' = "off"
           /\ u_reports' \subseteq u_reports /\ UNCHANGED <<u_active, u_sgen>>
  <2>1. UserLife' /\ UserGapStep /\ UserLinkStep /\ u_sgen' \in Nat /\ u_sgen' >= u_sgen
    BY <1>1, <1>3 DEF UserInv, UserTypeOK, UserLife, UserGapStep, UserLinkStep
  <2> QED BY <1>1, <1>3, <2>1, UserFrame
<1> QED BY <1>2, <1>3 DEF User!TearDown, User!StopTransport, User!Stop, User!gapVars

LEMMA UserHandleClose == ASSUME UserInv, User!HandleClose PROVE UserInv'
<1>1. /\ UNCHANGED <<u_gen, u_owner, u_user, u_result>>
      /\ UNCHANGED <<u_recovery, u_told, u_telling, u_conn, u_sub, u_copy, u_server, u_subs, u_overlap, u_work,
                     u_late>>
  BY DEF User!HandleClose, User!Closed, User!StopTransport, User!Stop, User!gapVars, User!subVars, User!workVars,
         User!gapStateVars, User!callVars
<1>2. u_link = "closed"
  BY DEF User!HandleClose, UserInv, UserLife
<1>3. CASE User!Deactivate /\ UNCHANGED <<u_link, u_reports, u_pending, u_closing>>
  <2>1. /\ ~u_active' /\ u_sgen' \in Nat /\ u_sgen' >= u_sgen
        /\ u_sgen' = u_sgen /\ u_active => u_active'
    BY <1>3, UserDeactivate DEF UserInv
  <2>2. UserLife' /\ UserGapStep /\ UserLinkStep
    BY <1>1, <1>2, <1>3, <2>1 DEF UserInv, UserLife, UserGapStep, UserLinkStep
  <2> QED BY <1>1, <2>1, <2>2, UserFrame
<1>4. CASE /\ UNCHANGED <<u_active, u_sgen>> /\ u_reports' \subseteq u_reports
           /\ \/ u_link' \in {"dial", "off"} /\ u_closer' = "none"
              \/ UNCHANGED u_link
  <2>1. UserLife' /\ UserGapStep /\ UserLinkStep /\ u_sgen' \in Nat /\ u_sgen' >= u_sgen
    BY <1>1, <1>2, <1>4 DEF UserInv, UserTypeOK, UserLife, UserGapStep, UserLinkStep
  <2> QED BY <1>1, <1>4, <2>1, UserFrame
<1> QED BY <1>3, <1>4 DEF User!HandleClose, User!Closed, User!StopTransport, User!Stop, User!gapVars

-----------------------------------------------------------------------------
(* UserStream: the subscriptions.                                          *)

(* A step of an update: the messages left, and what the server makes of the first. *)
LEMMA UserUpdateFrame ==
    ASSUME UserInv, u_sub' \in UserSubscriptions, u_subs' \in UserUpdates,
    u_server' \in UserSessions,
           UserPlan', UserSession', UserGapStep,
           UNCHANGED <<u_link, u_owner, u_active, u_sgen, u_user, u_result, u_closer>>,
           UNCHANGED <<u_recovery, u_told, u_telling, u_conn, u_copy, u_work, u_late>>
    PROVE  UserInv'
<1>1. u_gen' \in Nat /\ u_gen' >= u_gen /\ u_reports' \subseteq User!Reports
  BY UserGenerations DEF UserInv
<1>2. UserTypeOK' /\ UserLife'
  BY <1>1 DEF UserInv, UserTypeOK, UserLife
<1>3. u_sgen' \in Nat /\ u_sgen' >= u_sgen
  BY DEF UserInv, UserTypeOK
<1>4. UserMessage'
  BY <1>1, <1>3, UserMessageFrame
<1>5. UserGaps'
  BY UserGapsFrame
<1> QED BY <1>2, <1>4, <1>5 DEF UserInv

LEMMA UpdatesTyped ==
    ASSUME NEW s \in UserSubscriptions, NEW n \in User!Updates(s)
    PROVE  n \in UserSubscriptions
<1>1. CASE \E m \in Markets : n = [s EXCEPT !.markets = @ \cup {m}]
  BY <1>1 DEF UserSubscriptions
<1>2. CASE \E m \in Markets : n = [s EXCEPT !.markets = @ \ {m}]
  BY <1>2 DEF UserSubscriptions
<1>3. CASE n = [s EXCEPT !.all = TRUE]
  <2> DEFINE b == TRUE
  <2>1. b \in BOOLEAN /\ n = [s EXCEPT !.all = b]
    BY <1>3
  <2> HIDE DEF b
  <2> QED BY <2>1 DEF UserSubscriptions
<1>4. CASE n = [all |-> FALSE, markets |-> {}]
  <2> DEFINE b == FALSE
             e == {}
  <2>1. b \in BOOLEAN /\ e \in SUBSET Markets /\ n = [all |-> b, markets |-> e]
    BY <1>4
  <2> HIDE DEF b, e
  <2> QED BY <2>1 DEF UserSubscriptions
<1> QED BY <1>1, <1>2, <1>3, <1>4 DEF User!Updates

LEMMA UserUpdateSubscription == ASSUME UserInv, User!UpdateSubscription PROVE UserInv'
<1>1. /\ UNCHANGED <<u_link, u_gen, u_reports, u_pending, u_closing>>
      /\ UNCHANGED <<u_owner, u_active, u_sgen, u_user, u_result, u_closer>>
      /\ UNCHANGED <<u_recovery, u_told, u_telling, u_conn, u_copy, u_server, u_work, u_late>>
      /\ u_subs = User!Idle /\ (u_overlap' <=> (u_overlap \/ u_link = "replay"))
  BY DEF User!UpdateSubscription, User!gapVars, User!lifeVars, User!workVars, User!gapStateVars,
     User!callVars
<1>2. PICK new \in User!Updates(u_sub) \ {u_sub} :
         /\ u_sub' = new
         /\ u_subs' = IF User!Connected
                      THEN [pc |-> "send", messages |-> User!PlanSync(u_sub, new).messages,
                            request |-> User!PlanSync(u_sub, new).reconnect]
                      ELSE User!Idle
  BY DEF User!UpdateSubscription
<1>3. u_sub \in UserSubscriptions /\ new \in UserSubscriptions /\ u_server \in UserSessions
  BY <1>2, UpdatesTyped DEF UserInv, UserTypeOK
<1> DEFINE M == User!PlanSync(u_sub, new).messages
           q == User!PlanSync(u_sub, new).reconnect
           A == User!Full(u_sub).markets
           B == User!Full(new).markets
           P == MarketsIn(M, "subscribe")
           Q == MarketsIn(M, "unsubscribe")
<1>4. /\ M \in Seq(UserMessages) /\ q \in BOOLEAN
      /\ ~User!IsActive(new) => M = <<>> /\ (User!IsActive(u_sub) => q)
      /\ User!IsActive(new) /\ ~User!IsActive(u_sub) => M = <<User!Full(new)>>
      /\ User!IsActive(new) /\ User!IsActive(u_sub) =>
            /\ \A i \in 1 .. Len(M) : M[i].kind # "full"
            /\ P \subseteq B /\ Q \cap B = {} /\ (A \cup P) \ Q = B
  BY <1>3, PlanIs
<1>5. UserToSend = <<>> /\ UserMarkets = A /\ UserMarkets' = B /\ UserGapStep
  BY <1>1, <1>2 DEF UserToSend, UserMarkets, UserGapStep
<1>6. CASE ~User!Connected
  <2>1. u_subs' = User!Idle /\ u_subs' \in UserUpdates /\ UserToSend' = <<>>
    BY <1>2, <1>6, UserIdle DEF UserToSend
  <2>2. UserPlan'
    BY <2>1, NoMarketsIn DEF UserPlan
  <2>3. UserSession'
    BY <1>1, <1>6 DEF UserInv, UserSession, User!Connected
  <2> QED BY <1>1, <1>2, <1>3, <1>5, <2>1, <2>2, <2>3, UserUpdateFrame
<1>7. CASE User!Connected
  <2>1. u_subs' = [pc |-> "send", messages |-> M, request |-> q]
    BY <1>2, <1>7
  <2> HIDE DEF M, q, A, B
  <2>2. u_subs' \in UserUpdates /\ u_subs' # User!Idle /\ u_subs'.messages = M
          /\ u_subs'.request = q
    BY <1>4, <2>1 DEF UserUpdates, User!Idle
  <2>3. UserToSend' = M /\ (q => UserAsked')
    BY <2>2 DEF UserToSend, UserAsked
  <2>4. UserPlan'
    <3>1. CASE ~User!IsActive(new)
      BY <1>2, <1>4, <1>5, <2>3, <3>1, NoMarketsIn DEF UserPlan
    <3>2. CASE User!IsActive(new) /\ ~User!IsActive(u_sub)
      BY <1>2, <1>4, <2>3, <3>2 DEF UserPlan
    <3>3. CASE User!IsActive(new) /\ User!IsActive(u_sub)
      BY <1>2, <1>4, <1>5, <2>3, <3>3 DEF UserPlan
    <3> QED BY <3>1, <3>2, <3>3
  <2>5. ~User!IsActive(new) /\ ~User!IsActive(u_sub) /\ UserAsked => UserAsked'
    BY <1>1, <2>2 DEF UserAsked
  <2>6. UserSession'
    <3>1. /\ u_link' # "opened"
          /\ u_link' = "replay" /\ ~u_overlap' => u_copy' = u_sub'
      BY <1>1, <1>7 DEF User!Connected
    <3>2. u_link' \in {"restore", "replay", "connect", "up"} /\ ~u_closing' /\ ~u_overlap'
             /\ ~User!IsActive(u_sub') => u_server' = User!NoSession \/ UserAsked'
      <4>1. CASE User!IsActive(u_sub)
        BY <1>2, <1>4, <2>3, <4>1
      <4>2. CASE ~User!IsActive(u_sub)
        BY <1>1, <1>2, <2>5, <4>2 DEF UserInv, UserSession
      <4> QED BY <4>1, <4>2
    <3>3. u_link' \in {"connect", "up"} /\ ~u_closing' /\ ~u_overlap' /\ User!IsActive(u_sub') =>
             UserToSend' = <<User!Full(u_sub')>>
               \/ (u_server.on /\ (u_server.markets \cup P) \ Q = B)
      <4>1. CASE ~User!IsActive(u_sub)
        BY <1>2, <1>4, <2>3, <4>1
      <4>2. CASE User!IsActive(u_sub)
        <5>1. SUFFICES ASSUME u_link \in {"connect", "up"}, ~u_closing, ~u_overlap,
                       User!IsActive(new)
                       PROVE  u_server.on /\ (u_server.markets \cup P) \ Q = B
          BY <1>1, <1>2
        <5>2. u_server.on /\ u_server.markets = A
          BY <1>5, <4>2, <5>1, NoMarketsIn DEF UserInv, UserSession
        <5> QED BY <1>4, <4>2, <5>1, <5>2
      <4> QED BY <4>1, <4>2
    <3> QED BY <1>1, <1>5, <2>3, <3>1, <3>2, <3>3 DEF UserSession
  <2> QED BY <1>1, <1>2, <1>3, <1>5, <2>2, <2>4, <2>6, UserUpdateFrame
<1> QED BY <1>6, <1>7

LEMMA UserSendUpdate == ASSUME UserInv, User!SendUpdate PROVE UserInv'
<1>1. /\ UNCHANGED <<u_link, u_gen, u_reports, u_pending, u_closing>>
      /\ UNCHANGED <<u_owner, u_active, u_sgen, u_user, u_result, u_closer>>
      /\ UNCHANGED <<u_recovery, u_told, u_telling, u_conn, u_sub, u_copy, u_overlap, u_work, u_late>>
      /\ u_subs.pc = "send" /\ u_subs.messages # <<>>
  BY DEF User!SendUpdate, User!gapVars, User!lifeVars, User!workVars, User!gapStateVars,
     User!callVars
<1>2. u_subs \in [pc : {"send"}, messages : Seq(UserMessages), request : BOOLEAN]
        /\ u_subs # User!Idle
  BY <1>1 DEF UserInv, UserTypeOK, UserUpdates, User!Idle
<1> DEFINE F == u_subs.messages
           f == Head(F)
           T == Tail(F)
<1>3. F \in Seq(UserMessages) /\ F # <<>> /\ UNCHANGED UserMarkets /\ UserGapStep
  BY <1>1, <1>2 DEF UserMarkets, UserGapStep
<1>4. /\ f \in UserMessages /\ T \in Seq(UserMessages)
      /\ MarketsIn(F, "subscribe") = (IF f.kind = "subscribe" THEN f.markets ELSE {})
                                         \cup MarketsIn(T, "subscribe")
      /\ MarketsIn(F, "unsubscribe") = (IF f.kind = "unsubscribe" THEN f.markets ELSE {})
                                         \cup MarketsIn(T, "unsubscribe")
  BY <1>3, MarketsInTail
<1>5. /\ f = F[1] /\ Len(F) \in Nat /\ Len(F) > 0 /\ Len(T) = Len(F) - 1
      /\ \A i \in 1 .. Len(T) : T[i] = F[i + 1]
  BY <1>3, HeadTailProperties
<1>6. UserToSend = F /\ u_server \in UserSessions /\ u_sub \in UserSubscriptions
  BY <1>2 DEF UserToSend, UserInv, UserTypeOK
<1>7. User!IsActive(u_sub)
  BY <1>3, <1>6 DEF UserInv, UserPlan
<1>8. CASE /\ User!Connected /\ u_subs' = [u_subs EXCEPT !.messages = Tail(@)]
           /\ u_server' = IF u_closing
                \/ u_link = "lost" THEN u_server ELSE User!Receives(Head(u_subs.messages))
  <2>1. /\ u_subs' = [u_subs EXCEPT !.messages = T]
        /\ u_server' = IF u_closing \/ u_link = "lost" THEN u_server ELSE User!Receives(f)
    BY <1>2, <1>8
  <2> HIDE DEF F, f, T
  <2>2. u_subs' \in UserUpdates /\ u_subs' # User!Idle /\ u_subs'.messages = T
    BY <1>2, <1>4, <2>1 DEF UserUpdates, User!Idle
  <2>3. UserToSend' = T /\ u_server' \in UserSessions
    BY <1>4, <1>6, <2>1, <2>2, ReceivesIs DEF UserToSend
  <2>4. CASE F = <<User!Full(u_sub)>>
    <3>1. f = User!Full(u_sub) /\ T = <<>>
      BY <2>4 DEF f, T
    <3>2. f.kind = "full" /\ f.markets = UserMarkets
      BY <1>6, <3>1, FullIs DEF UserMarkets
    <3>3. MarketsIn(T, "subscribe") = {} /\ MarketsIn(T, "unsubscribe") = {}
      BY <3>1, NoMarketsIn
    <3>4. UserPlan'
      BY <2>3, <3>1, <3>3 DEF UserPlan
    <3>5. ~u_closing /\ u_link # "lost" => u_server'.on /\ u_server'.markets = UserMarkets
      BY <1>4, <1>6, <2>1, <3>2, ReceivesIs
    <3>6. UserSession'
      BY <1>1, <1>3, <1>7, <1>8, <2>3, <3>3, <3>5 DEF UserInv, UserSession, User!Connected
    <3> QED BY <1>1, <1>3, <1>6, <2>2, <2>3, <3>4, <3>6, UserUpdateFrame
  <2>5. CASE /\ \A i \in 1 .. Len(F) : F[i].kind # "full"
             /\ MarketsIn(F, "subscribe") \subseteq UserMarkets
             /\ MarketsIn(F, "unsubscribe") \cap UserMarkets = {}
    <3>1. f.kind \in {"subscribe", "unsubscribe"}
      BY <1>4, <1>5, <2>5 DEF UserMessages
    <3>2. \A i \in 1 .. Len(T) : T[i].kind # "full"
      BY <1>5, <2>5
    <3>3. MarketsIn(T, "subscribe") \subseteq UserMarkets
            /\ MarketsIn(T, "unsubscribe") \cap UserMarkets = {}
      BY <1>4, <2>5
    <3>4. UserPlan'
      BY <1>1, <1>3, <1>7, <2>3, <3>2, <3>3 DEF UserPlan
    <3>5. UserToSend # <<User!Full(u_sub)>>
      <4>1. UserToSend = <<User!Full(u_sub)>> => f = User!Full(u_sub)
        BY <1>6 DEF f
      <4> QED BY <3>1, <4>1, <1>6, FullIs
    <3>6. u_link \in {"connect", "up"} /\ ~u_closing /\ ~u_overlap =>
             /\ u_server'.on
             /\ (u_server'.markets \cup MarketsIn(T, "subscribe")) \ MarketsIn(T, "unsubscribe") = UserMarkets
      <4>1. SUFFICES ASSUME u_link \in {"connect", "up"}, ~u_closing, ~u_overlap
                     PROVE  /\ u_server'.on
                            /\ (u_server'.markets \cup MarketsIn(T, "subscribe"))
                                   \ MarketsIn(T, "unsubscribe") = UserMarkets
        OBVIOUS
      <4>2. /\ u_server.on
            /\ (u_server.markets \cup MarketsIn(F, "subscribe")) \ MarketsIn(F, "unsubscribe") = UserMarkets
        BY <1>6, <1>7, <3>5, <4>1 DEF UserInv, UserSession
      <4>3. u_server' = User!Receives(f)
        BY <2>1, <4>1
      <4>4. CASE f.kind = "subscribe"
        <5>1. u_server'.on /\ u_server'.markets = u_server.markets \cup f.markets
          BY <1>4, <1>6, <4>2, <4>3, <4>4, ReceivesIs
        <5>2. /\ MarketsIn(F, "subscribe") = f.markets \cup MarketsIn(T, "subscribe")
              /\ MarketsIn(F, "unsubscribe") = MarketsIn(T, "unsubscribe")
          BY <1>4, <4>4
        <5> QED BY <4>2, <5>1, <5>2
      <4>5. CASE f.kind = "unsubscribe"
        <5>1. u_server'.on /\ u_server'.markets = u_server.markets \ f.markets
          BY <1>4, <1>6, <4>2, <4>3, <4>5, ReceivesIs
        <5>2. /\ MarketsIn(F, "subscribe") = MarketsIn(T, "subscribe")
              /\ MarketsIn(F, "unsubscribe") = f.markets \cup MarketsIn(T, "unsubscribe")
          BY <1>4, <4>5
        <5>3. MarketsIn(T, "subscribe") \cap f.markets = {}
          BY <2>5, <5>2
        <5> QED BY <4>2, <5>1, <5>2, <5>3
      <4> QED BY <3>1, <4>4, <4>5
    <3>7. UserSession'
      BY <1>1, <1>3, <1>7, <1>8, <2>3, <3>6 DEF UserInv, UserSession, User!Connected
    <3> QED BY <1>1, <1>3, <1>6, <2>2, <2>3, <3>4, <3>7, UserUpdateFrame
  <2> QED BY <1>6, <2>4, <2>5 DEF UserInv, UserPlan
<1>9. CASE /\ ~User!Connected \/ u_closing \/ u_link = "lost"
           /\ u_subs' = [u_subs EXCEPT !.messages = <<>>, !.request = TRUE]
           /\ UNCHANGED u_server
  <2> DEFINE e == <<>>
             b == TRUE
  <2>1. e \in Seq(UserMessages) /\ b \in BOOLEAN /\ u_subs' = [u_subs EXCEPT !.messages = e,
                                                               !.request = b]
    BY <1>9
  <2> HIDE DEF e, b
  <2>2. u_subs' \in UserUpdates /\ u_subs' # User!Idle /\ u_subs'.messages = e
    BY <1>2, <2>1 DEF UserUpdates, User!Idle
  <2>3. UserToSend' = <<>>
    BY <2>2 DEF UserToSend, e
  <2>4. UserPlan'
    BY <2>3, NoMarketsIn DEF UserPlan
  <2>5. UserSession'
    BY <1>1, <1>9 DEF UserInv, UserSession, User!Connected
  <2> QED BY <1>1, <1>3, <1>6, <1>9, <2>2, <2>4, <2>5, UserUpdateFrame
<1> QED BY <1>8, <1>9 DEF User!SendUpdate

LEMMA UserFinishUpdate == ASSUME UserInv, User!FinishUpdate PROVE UserInv'
<1>1. /\ UNCHANGED <<u_owner, u_active, u_sgen, u_user, u_result, u_closer>>
      /\ UNCHANGED <<u_recovery, u_told, u_telling, u_conn, u_sub, u_copy, u_server, u_overlap, u_work,
                     u_late>>
      /\ u_subs.pc = "send" /\ u_subs.messages = <<>> /\ u_subs' = User!Idle
      /\ IF u_subs.request THEN User!Request ELSE UNCHANGED User!gapVars
  BY DEF User!FinishUpdate, User!lifeVars, User!workVars, User!gapStateVars, User!callVars
<1>2. /\ UserGapStep /\ UNCHANGED <<u_link, u_closing>> /\ (u_pending => u_pending')
      /\ (User!Request /\ u_link # "off" => u_pending')
  BY <1>1, UserRequest DEF UserInv
<1>3. UserToSend' = <<>> /\ UserToSend = <<>> /\ UNCHANGED UserMarkets
  BY <1>1 DEF UserToSend, UserMarkets
<1>4. u_link # "off" /\ UserAsked => UserAsked'
  BY <1>1, <1>2 DEF UserAsked
<1>5. UserPlan'
  BY <1>3, NoMarketsIn DEF UserPlan
<1>6. UserSession'
  BY <1>1, <1>2, <1>3, <1>4 DEF UserInv, UserSession
<1>7. u_sub' \in UserSubscriptions /\ u_subs' \in UserUpdates /\ u_server' \in UserSessions
  BY <1>1, UserIdle DEF UserInv, UserTypeOK
<1> QED BY <1>1, <1>2, <1>5, <1>6, <1>7, UserUpdateFrame

-----------------------------------------------------------------------------
(* UserStream: the connection.                                             *)

LEMMA NoSessionTyped ==
    User!NoSession \in UserSessions /\ ~User!NoSession.on /\ User!NoSession.markets = {}
<1> DEFINE b == FALSE
           e == {}
<1>1. b \in BOOLEAN /\ e \in SUBSET Markets /\ User!NoSession = [on |-> b, markets |-> e]
  BY DEF User!NoSession
<1>2. ~User!NoSession.on /\ User!NoSession.markets = {}
  BY DEF User!NoSession
<1> HIDE DEF b, e
<1>3. User!NoSession \in UserSessions
  BY <1>1 DEF UserSessions
<1> QED BY <1>2, <1>3

LEMMA UserNoConnect ==
    User!NoConnect \in UserConnects /\ User!NoConnect.gen = 0 /\ User!NoConnect.pc = "none"
<1> DEFINE g == 0
           pc == "none"
<1>1. g \in Nat /\ pc \in {"none"} /\ User!NoConnect = [pc |-> pc, gen |-> g]
  BY DEF User!NoConnect
<1> HIDE DEF g, pc
<1>2. User!NoConnect \in UserConnects /\ User!NoConnect.gen = g /\ User!NoConnect.pc = pc
  BY <1>1 DEF UserConnects
<1> QED BY <1>2 DEF g, pc

(* The callback of r has returned: r is gone or marked as told. *)
LEMMA UserReported ==
    ASSUME UserInv, NEW r \in u_reports, User!Report(r)
    PROVE  /\ ~r.told /\ UNCHANGED <<u_link, u_gen, u_pending, u_closing>>
           /\ \E t \in User!Reports :
                 t.told /\ t.gen = r.gen /\ u_reports' \subseteq (u_reports \ {r}) \cup {t}
<1>1. /\ ~r.told /\ UNCHANGED <<u_link, u_gen, u_pending, u_closing>>
      /\ u_reports' = (u_reports \ {r}) \cup (IF r.own THEN {} ELSE {[r EXCEPT !.told = TRUE]})
  BY DEF User!Report
<1>2. r \in User!Reports
  BY DEF UserInv, UserTypeOK
<1> DEFINE b == TRUE
           t == [r EXCEPT !.told = b]
<1>3. b \in BOOLEAN /\ b
  OBVIOUS
<1>4. u_reports' \subseteq (u_reports \ {r}) \cup {t}
  BY <1>1
<1> HIDE DEF b
<1>5. t \in User!Reports /\ t.gen = r.gen /\ t.told = b
  BY <1>2, <1>3 DEF User!Reports
<1> HIDE DEF t
<1> QED BY <1>1, <1>3, <1>4, <1>5

(* The gaps after the callback of r has returned, when no other call is for r. *)
LEMMA UserReportedGaps ==
    ASSUME UserInv, NEW r \in u_reports, User!Report(r), u_telling' \subseteq u_telling,
           \A t \in u_telling' : t.gen # r.gen
    PROVE  /\ \A s \in u_reports' : s.gen > 0 /\ s.gen <= u_gen'
           /\ \A s, v \in u_reports' : s.gen = v.gen => s = v
           /\ \A t \in u_telling' : \A s \in u_reports' : s.gen = t.gen => ~s.told
           /\ \A s \in u_reports' : ~s.told => s \in u_reports /\ s.gen # r.gen
           /\ u_gen' = u_gen /\ u_reports' \subseteq User!Reports
<1>1. PICK n \in User!Reports :
         n.told /\ n.gen = r.gen /\ u_reports' \subseteq (u_reports \ {r}) \cup {n}
  BY UserReported
<1>2. u_gen' = u_gen
  BY UserReported
<1>3. \A s \in u_reports' : s = n \/ (s \in u_reports /\ s # r)
  BY <1>1
<1>4. \A s \in u_reports : s # r => s.gen # r.gen
  BY DEF UserInv, UserGaps
<1>5. \A s \in u_reports' : s.gen > 0 /\ s.gen <= u_gen'
  BY <1>1, <1>2, <1>3 DEF UserInv, UserGaps
<1>6. \A s, v \in u_reports' : s.gen = v.gen => s = v
  BY <1>1, <1>3, <1>4 DEF UserInv, UserGaps
<1>7. \A t \in u_telling' : \A s \in u_reports' : s.gen = t.gen => ~s.told
  BY <1>1, <1>3 DEF UserInv, UserGaps
<1>8. \A s \in u_reports' : ~s.told => s \in u_reports /\ s.gen # r.gen
  BY <1>1, <1>3, <1>4
<1>9. u_reports' \subseteq User!Reports
  BY <1>1 DEF UserInv, UserTypeOK
<1> QED BY <1>2, <1>5, <1>6, <1>7, <1>8, <1>9

(* A step of handle_stream_gap disturbs nothing but the gaps. *)
LEMMA UserGapInv ==
    ASSUME UserInv, UserGaps',
           UNCHANGED <<u_link, u_gen, u_pending, u_closing, u_owner, u_active, u_user, u_result,
                       u_closer, u_conn>>,
           UNCHANGED <<u_sub, u_copy, u_server, u_subs, u_overlap, u_work, u_late>>,
           u_reports' \subseteq User!Reports, u_telling' \subseteq UserTellings,
           u_sgen' \in Nat, u_sgen' >= u_sgen, u_recovery' \in Nat, u_told' \in Nat
    PROVE  UserInv'
<1>1. u_gen' \in Nat /\ u_gen' >= u_gen
  BY DEF UserInv, UserTypeOK
<1>2. UserTypeOK'
  BY DEF UserInv, UserTypeOK
<1>3. UserLife'
  BY DEF UserInv, UserLife
<1>4. UserMessage'
  BY <1>1, UserMessageFrame
<1>5. UserLinkStep
  BY DEF UserLinkStep
<1>6. UserPlan' /\ UserSession'
  BY <1>5, UserSessionFrame
<1> QED BY <1>2, <1>3, <1>4, <1>6 DEF UserInv

(* A call goes on from a to b. *)
LEMMA UserAdvances ==
    ASSUME UserInv, NEW r \in u_reports, NEW from, NEW to \in {"store", "tell"},
           User!Advances(r, from, {[gen |-> r.gen, pc |-> to]})
    PROVE  /\ \E a \in u_telling : a.gen = r.gen /\ a.pc = from
           /\ ~r.told
           /\ u_telling' \subseteq UserTellings
           /\ \A t \in u_telling' :
                 (t \in u_telling /\ t.gen # r.gen) \/ (t.gen = r.gen /\ t.pc = to)
           /\ \A t \in u_telling : t.gen # r.gen => t \in u_telling'
           /\ \E b \in u_telling' : b.gen = r.gen /\ b.pc = to
           /\ \A s, t \in u_telling' : s.gen = t.gen => s = t
<1> DEFINE a == [gen |-> r.gen, pc |-> from]
           b == [gen |-> r.gen, pc |-> to]
<1>1. a \in u_telling /\ u_telling' = (u_telling \ {a}) \cup {b}
  BY DEF User!Advances
<1>2. r.gen \in Nat
  BY DEF UserInv, UserTypeOK, User!Reports
<1>3. a.gen = r.gen /\ a.pc = from /\ b.gen = r.gen /\ b.pc = to /\ b \in UserTellings
  BY <1>2 DEF UserTellings
<1> HIDE DEF a, b
<1>4. ~r.told /\ \A t \in u_telling : t.gen = r.gen => t = a
  BY <1>1, <1>3 DEF UserInv, UserGaps
<1>5. \A t \in u_telling' : (t \in u_telling /\ t.gen # r.gen) \/ t = b
  BY <1>1, <1>4
<1>6. \A s, t \in u_telling' : s.gen = t.gen => s = t
  BY <1>3, <1>5 DEF UserInv, UserGaps
<1> QED BY <1>1, <1>3, <1>4, <1>5, <1>6 DEF UserInv, UserTypeOK

LEMMA UserCheckGap ==
    ASSUME UserInv, NEW r \in u_reports, User!CheckGap(r), UNCHANGED u_conn
    PROVE  UserGaps' /\ u_reports' \subseteq User!Reports /\ u_telling' \subseteq UserTellings
<1>1. /\ ~r.told /\ UNCHANGED <<u_sgen, u_recovery, u_told>>
      /\ \A t \in u_telling : t.gen # r.gen
      /\ \/ u_telling' = u_telling \cup {[gen |-> r.gen, pc |-> "count"]} /\ UNCHANGED User!gapVars
         \/ User!Report(r) /\ UNCHANGED u_telling
  BY DEF User!CheckGap, User!Running
<1>2. r.gen \in Nat
  BY DEF UserInv, UserTypeOK, User!Reports
<1>3. CASE u_telling' = u_telling \cup {[gen |-> r.gen, pc |-> "count"]} /\ UNCHANGED User!gapVars
  <2>1. UNCHANGED <<u_gen, u_reports>>
    BY <1>3 DEF User!gapVars
  <2>2. PICK c \in UserTellings :
           c.gen = r.gen /\ c.pc = "count" /\ u_telling' = u_telling \cup {c}
    BY <1>2, <1>3 DEF UserTellings
  <2>3. \A g : UserStored(g)' <=> UserStored(g)
    BY <2>2 DEF UserStored
  <2>4. \A s, t \in u_telling' : s.gen = t.gen => s = t
    BY <1>1, <2>2 DEF UserInv, UserGaps
  <2>5. \A t \in u_telling' : t.gen > 0 /\ t.gen <= u_gen
    BY <2>2 DEF UserInv, UserGaps
  <2>6. \A t \in u_telling' : \A s \in u_reports : s.gen = t.gen => ~s.told
    BY <1>1, <2>2 DEF UserInv, UserGaps
  <2>7. \A t \in u_telling' : t.pc = "tell" => t \in u_telling
    BY <2>2
  <2>8. UserGaps'
    BY <1>1, <2>1, <2>3, <2>4, <2>5, <2>6, <2>7 DEF UserInv, UserGaps
  <2> QED BY <2>1, <2>2, <2>8 DEF UserInv, UserTypeOK
<1>4. CASE User!Report(r) /\ UNCHANGED u_telling
  <2>1. /\ \A s \in u_reports' : s.gen > 0 /\ s.gen <= u_gen'
        /\ \A s, v \in u_reports' : s.gen = v.gen => s = v
        /\ \A t \in u_telling' : \A s \in u_reports' : s.gen = t.gen => ~s.told
        /\ \A s \in u_reports' : ~s.told => s \in u_reports /\ s.gen # r.gen
        /\ u_gen' = u_gen /\ u_reports' \subseteq User!Reports
    BY <1>1, <1>4, UserReportedGaps
  <2>2. \A g : UserStored(g)' <=> UserStored(g)
    BY <1>4 DEF UserStored
  <2>3. UserGaps'
    BY <1>1, <1>4, <2>1, <2>2 DEF UserInv, UserGaps
  <2> QED BY <1>4, <2>1, <2>3 DEF UserInv, UserTypeOK
<1> QED BY <1>1, <1>3, <1>4

LEMMA UserCountGap ==
    ASSUME UserInv, NEW r \in u_reports, User!CountGap(r), UNCHANGED u_conn
    PROVE  UserGaps' /\ u_telling' \subseteq UserTellings
<1>1. /\ User!Advances(r, "count", {[gen |-> r.gen, pc |-> "store"]})
      /\ UNCHANGED <<u_gen, u_reports, u_recovery, u_told>>
  BY DEF User!CountGap, User!gapVars
<1>2. /\ \E a \in u_telling : a.gen = r.gen /\ a.pc = "count"
      /\ ~r.told
      /\ u_telling' \subseteq UserTellings
      /\ \A t \in u_telling' :
            (t \in u_telling /\ t.gen # r.gen) \/ (t.gen = r.gen /\ t.pc = "store")
      /\ \A t \in u_telling : t.gen # r.gen => t \in u_telling'
      /\ \E b \in u_telling' : b.gen = r.gen /\ b.pc = "store"
      /\ \A s, t \in u_telling' : s.gen = t.gen => s = t
  BY <1>1, UserAdvances
<1>3. \A t \in u_telling : t.pc = "tell" => t.gen # r.gen
  <2>1. \A s, t \in u_telling : s.gen = t.gen => s = t
    BY DEF UserInv, UserGaps
  <2>2. PICK a \in u_telling : a.gen = r.gen /\ a.pc = "count"
    BY <1>2
  <2>3. \A t \in u_telling : t.gen = r.gen => t.pc = "count"
    BY <2>1, <2>2
  <2> QED BY <2>3
<1>4. \A g : UserStored(g)' <=> UserStored(g)
  BY <1>2, <1>3 DEF UserStored
<1>5. \A t \in u_telling' : t.gen > 0 /\ t.gen <= u_gen
  BY <1>2 DEF UserInv, UserGaps
<1>6. \A t \in u_telling' : \A s \in u_reports : s.gen = t.gen => ~s.told
  <2>1. \A s \in u_reports : s.gen = r.gen => s = r
    BY DEF UserInv, UserGaps
  <2> QED BY <1>2, <2>1 DEF UserInv, UserGaps
<1>7. \A t \in u_telling' : t.pc = "tell" => t \in u_telling
  BY <1>2
<1> QED BY <1>1, <1>2, <1>4, <1>5, <1>6, <1>7 DEF UserInv, UserGaps

LEMMA UserStoreGap ==
    ASSUME UserInv, NEW r \in u_reports, User!StoreGap(r), UNCHANGED u_conn
    PROVE  UserGaps' /\ u_telling' \subseteq UserTellings
<1>1. /\ User!Advances(r, "store", {[gen |-> r.gen, pc |-> "tell"]})
      /\ UNCHANGED <<u_gen, u_reports, u_told>> /\ u_recovery' = r.gen
  BY DEF User!StoreGap, User!gapVars
<1>2. /\ \E a \in u_telling : a.gen = r.gen /\ a.pc = "store"
      /\ ~r.told
      /\ u_telling' \subseteq UserTellings
      /\ \A t \in u_telling' :
            (t \in u_telling /\ t.gen # r.gen) \/ (t.gen = r.gen /\ t.pc = "tell")
      /\ \A t \in u_telling : t.gen # r.gen => t \in u_telling'
      /\ \E b \in u_telling' : b.gen = r.gen /\ b.pc = "tell"
      /\ \A s, t \in u_telling' : s.gen = t.gen => s = t
  BY <1>1, UserAdvances
<1>3. ~UserStored(r.gen)
  BY <1>2 DEF UserInv, UserGaps, UserStored
<1>4. r.gen # u_conn.gen
  BY <1>2, <1>3 DEF UserInv, UserGaps
<1>5. \A g : UserStored(g)' <=> UserStored(g) \/ g = r.gen
  BY <1>2 DEF UserStored
<1>6. \A t \in u_telling' : t.gen > 0 /\ t.gen <= u_gen
  BY <1>2 DEF UserInv, UserGaps
<1>7. \A t \in u_telling' : \A s \in u_reports : s.gen = t.gen => ~s.told
  <2>1. \A s \in u_reports : s.gen = r.gen => s = r
    BY DEF UserInv, UserGaps
  <2> QED BY <1>2, <2>1 DEF UserInv, UserGaps
<1>8. r.gen <= u_gen
  BY DEF UserInv, UserGaps
<1> QED BY <1>1, <1>2, <1>4, <1>5, <1>6, <1>7, <1>8 DEF UserInv, UserGaps

LEMMA UserTellGap ==
    ASSUME UserInv, NEW r \in u_reports, User!TellGap(r), UNCHANGED u_conn
    PROVE  /\ UserGaps' /\ u_reports' \subseteq User!Reports /\ u_telling' \subseteq UserTellings
           /\ u_told' \in Nat
<1> DEFINE a == [gen |-> r.gen, pc |-> "tell"]
<1>1. /\ a \in u_telling /\ u_telling' = u_telling \ {a}
      /\ User!Report(r) /\ UNCHANGED <<u_sgen, u_recovery>>
      /\ u_told' = IF r.gen > u_told THEN r.gen ELSE u_told
  BY DEF User!TellGap, User!Advances
<1>2. /\ u_gen \in Nat /\ u_recovery \in Nat /\ u_told \in Nat /\ r.gen \in Nat
      /\ u_conn.gen \in Nat /\ \A t \in u_telling : t.gen \in Nat
  BY DEF UserInv, UserTypeOK, User!Reports, UserTellings, UserConnects
<1>3. a.gen = r.gen /\ a.pc = "tell"
  OBVIOUS
<1> HIDE DEF a
<1>4. \A t \in u_telling' : t \in u_telling /\ t.gen # r.gen
  BY <1>1, <1>3 DEF UserInv, UserGaps
<1>5. /\ \A s \in u_reports' : s.gen > 0 /\ s.gen <= u_gen'
      /\ \A s, v \in u_reports' : s.gen = v.gen => s = v
      /\ \A t \in u_telling' : \A s \in u_reports' : s.gen = t.gen => ~s.told
      /\ \A s \in u_reports' : ~s.told => s \in u_reports /\ s.gen # r.gen
      /\ u_gen' = u_gen /\ u_reports' \subseteq User!Reports
  BY <1>1, <1>4, UserReportedGaps
<1>6. \A g : g # r.gen => (UserStored(g)' <=> UserStored(g))
  <2>1. \A t \in u_telling : t.gen # r.gen => t \in u_telling'
    BY <1>1, <1>3
  <2> QED BY <1>4, <2>1 DEF UserStored
<1>7. /\ u_told' \in Nat /\ u_told <= u_told' /\ r.gen <= u_told' /\ r.gen <= u_gen
      /\ u_told' = u_told \/ u_told' = r.gen
  BY <1>1, <1>2 DEF UserInv, UserGaps
<1>8. u_recovery <= u_told' \/ UserStored(u_recovery)'
  <2>1. u_recovery <= u_told \/ UserStored(u_recovery)
    BY DEF UserInv, UserGaps
  <2>2. UserStored(u_recovery) /\ u_recovery # r.gen => UserStored(u_recovery)'
    BY <1>1, <1>6
  <2> QED BY <1>2, <1>7, <2>1, <2>2
<1>9. \A s \in u_reports' : ~s.told /\ ~UserStored(s.gen)' => s.gen # u_recovery /\ s.gen # u_conn.gen
  BY <1>5, <1>6 DEF UserInv, UserGaps
<1>10. u_conn.pc = "swap" /\ u_conn.gen = u_recovery =>
          u_told' <= u_recovery /\ \A t \in u_telling' : t.pc = "tell" => t.gen <= u_recovery
  BY <1>1, <1>3, <1>4, <1>7 DEF UserInv, UserGaps
<1>11. \A t \in u_telling' : t.gen > 0 /\ t.gen <= u_gen
  BY <1>4 DEF UserInv, UserGaps
<1>12. \A s, t \in u_telling' : s.gen = t.gen => s = t
  BY <1>4 DEF UserInv, UserGaps
<1>13. u_told' <= u_gen'
  BY <1>5, <1>7 DEF UserInv, UserGaps
<1>14. UserGaps'
  BY <1>1, <1>5, <1>8, <1>9, <1>10, <1>11, <1>12, <1>13 DEF UserInv, UserGaps
<1> QED BY <1>1, <1>5, <1>7, <1>14 DEF UserInv, UserTypeOK

LEMMA UserGapReports == ASSUME UserInv, User!GapReports PROVE UserInv'
<1>1. PICK r \in u_reports : User!HandleStreamGap(r)
  BY DEF User!GapReports
<1>2. /\ UNCHANGED <<u_owner, u_active, u_user, u_result, u_closer, u_conn>>
      /\ UNCHANGED <<u_sub, u_copy, u_server, u_subs, u_overlap, u_work, u_late>>
  BY <1>1 DEF User!HandleStreamGap, User!subVars, User!workVars, User!callVars
<1>3. UNCHANGED <<u_link, u_gen, u_pending, u_closing>>
  BY <1>1 DEF User!HandleStreamGap, User!CheckGap, User!CountGap, User!StoreGap, User!TellGap,
              User!Report, User!gapVars
<1>4. u_sgen \in Nat /\ u_recovery \in Nat /\ u_told \in Nat /\ r.gen \in Nat
  BY DEF UserInv, UserTypeOK, User!Reports
<1>5. CASE User!CheckGap(r)
  <2>1. UNCHANGED <<u_sgen, u_recovery, u_told>>
    BY <1>5 DEF User!CheckGap
  <2>2. UserGaps' /\ u_reports' \subseteq User!Reports /\ u_telling' \subseteq UserTellings
    BY <1>2, <1>5, UserCheckGap
  <2> QED BY <1>2, <1>3, <1>4, <2>1, <2>2, UserGapInv
<1>6. CASE User!CountGap(r)
  <2>1. UNCHANGED <<u_reports, u_recovery, u_told>> /\ u_sgen' = u_sgen + 1
    BY <1>6 DEF User!CountGap, User!gapVars
  <2>2. UserGaps' /\ u_telling' \subseteq UserTellings
    BY <1>2, <1>6, UserCountGap
  <2>3. u_sgen' \in Nat /\ u_sgen' >= u_sgen /\ u_reports' \subseteq User!Reports
    BY <1>4, <2>1 DEF UserInv, UserTypeOK
  <2> QED BY <1>2, <1>3, <1>4, <2>1, <2>2, <2>3, UserGapInv
<1>7. CASE User!StoreGap(r)
  <2>1. UNCHANGED <<u_reports, u_sgen, u_told>> /\ u_recovery' = r.gen
    BY <1>7 DEF User!StoreGap, User!gapVars
  <2>2. UserGaps' /\ u_telling' \subseteq UserTellings
    BY <1>2, <1>7, UserStoreGap
  <2>3. u_reports' \subseteq User!Reports
    BY <2>1 DEF UserInv, UserTypeOK
  <2> QED BY <1>2, <1>3, <1>4, <2>1, <2>2, <2>3, UserGapInv
<1>8. CASE User!TellGap(r)
  <2>1. UNCHANGED <<u_sgen, u_recovery>>
    BY <1>8 DEF User!TellGap
  <2>2. /\ UserGaps' /\ u_reports' \subseteq User!Reports /\ u_telling' \subseteq UserTellings
        /\ u_told' \in Nat
    BY <1>2, <1>8, UserTellGap
  <2> QED BY <1>2, <1>3, <1>4, <2>1, <2>2, UserGapInv
<1> QED BY <1>1, <1>5, <1>6, <1>7, <1>8 DEF User!HandleStreamGap

(* What handle_connect takes for recovered is what UserGaps says of it. *)
LEMMA UserTaken ==
    ASSUME UserInv, u_conn.pc = "swap", u_conn.gen = u_recovery
    PROVE  u_recovery \in User!Handed /\ \A g \in User!Handed : g <= u_recovery
<1>1. u_recovery \in Nat /\ u_told \in Nat
  BY DEF UserInv, UserTypeOK
<1>2. u_told <= u_recovery /\ \A t \in u_telling : t.pc = "tell" => t.gen <= u_recovery
  BY DEF UserInv, UserGaps
<1>3. u_recovery = u_told \/ UserStored(u_recovery)
  BY <1>1, <1>2 DEF UserInv, UserGaps
<1> QED BY <1>2, <1>3 DEF User!Handed, UserStored

LEMMA UserHandleConnect ==
    ASSUME UserInv, User!HandleConnect
    PROVE  /\ UserInv'
           /\ u_recovery # 0 /\ u_recovery' = 0
                => u_recovery \in User!Handed /\ \A g \in User!Handed : g <= u_recovery
<1>1. /\ UNCHANGED <<u_owner, u_active, u_sgen, u_user, u_result, u_closer, u_told, u_telling>>
      /\ UNCHANGED <<u_sub, u_copy, u_server, u_subs, u_overlap, u_work, u_late>>
  BY DEF User!HandleConnect, User!lifeVars, User!subVars, User!workVars, User!callVars
<1>2. /\ UNCHANGED <<u_gen, u_reports, u_pending, u_closing>>
      /\ UNCHANGED u_link \/ (u_link = "connect" /\ u_link' = "up")
  BY DEF User!HandleConnect, User!ConnectCheck, User!ConnectLoad, User!ConnectSwap,
         User!ConnectRecovered, User!OnConnect, User!gapVars
<1>3. u_conn \in UserConnects /\ u_conn.gen \in Nat /\ u_recovery \in Nat /\ u_gen \in Nat /\ u_told \in Nat
  BY DEF UserInv, UserTypeOK, UserConnects
<1>4. \/ /\ u_conn' \in UserConnects /\ u_conn'.gen \in {0, u_conn.gen} /\ u_conn'.pc # "swap"
         /\ UNCHANGED u_recovery
      \/ /\ u_conn' \in UserConnects /\ u_conn'.pc = "swap" /\ u_conn'.gen = u_recovery
         /\ u_recovery = u_gen /\ UNCHANGED u_recovery
      \/ /\ u_conn' \in UserConnects /\ u_conn'.gen = u_conn.gen /\ u_conn'.pc # "swap"
         /\ u_recovery' = 0 /\ u_conn.pc = "swap" /\ u_conn.gen = u_recovery
  <2>1. CASE User!ConnectCheck
    <3>1. u_conn' = u_conn \/ u_conn' = [u_conn EXCEPT !.pc = "load"]
      BY <2>1 DEF User!ConnectCheck
    <3>2. u_conn = User!NoConnect /\ UNCHANGED u_recovery
      BY <2>1 DEF User!ConnectCheck
    <3> QED BY <1>3, <3>1, <3>2, UserNoConnect DEF UserConnects
  <2>2. CASE User!ConnectLoad
    <3>1. CASE u_recovery = u_gen /\ u_conn' = [pc |-> "swap", gen |-> u_recovery]
      <4>1. UNCHANGED u_recovery
        BY <2>2 DEF User!ConnectLoad
      <4> QED BY <1>3, <3>1, <4>1 DEF UserConnects
    <3>2. CASE u_conn' = User!NoConnect
      BY <2>2, <3>2, UserNoConnect DEF User!ConnectLoad
    <3> QED BY <2>2, <3>1, <3>2 DEF User!ConnectLoad
  <2>3. CASE User!ConnectSwap
    <3>1. CASE /\ u_recovery = u_conn.gen /\ u_recovery' = 0
               /\ u_conn' = [u_conn EXCEPT !.pc = "call"]
      BY <1>3, <2>3, <3>1 DEF User!ConnectSwap, UserConnects
    <3>2. CASE u_conn' = User!NoConnect /\ UNCHANGED u_recovery
      BY <3>2, UserNoConnect
    <3> QED BY <2>3, <3>1, <3>2 DEF User!ConnectSwap
  <2>4. CASE User!ConnectRecovered
    BY <2>4, UserNoConnect DEF User!ConnectRecovered
  <2> QED BY <2>1, <2>2, <2>3, <2>4 DEF User!HandleConnect
<1>5. UserLife' /\ UserLinkStep /\ u_sgen' \in Nat /\ u_sgen' >= u_sgen
  BY <1>1, <1>2 DEF UserInv, UserTypeOK, UserLife, UserLinkStep
<1>6. u_gen' \in Nat /\ u_gen' >= u_gen /\ u_recovery' \in Nat
  BY <1>2, <1>3, <1>4
<1>7. UserTypeOK'
  BY <1>1, <1>2, <1>4, <1>6 DEF UserInv, UserTypeOK
<1>8. UserMessage'
  BY <1>1, <1>5, <1>6, UserMessageFrame
<1>9. UserPlan' /\ UserSession'
  BY <1>1, <1>5, UserSessionFrame
<1>10. UserGaps'
  <2>1. \A g : UserStored(g)' <=> UserStored(g)
    BY <1>1 DEF UserStored
  <2>2. \A r \in u_reports : r.gen # 0
    BY DEF UserInv, UserTypeOK, UserGaps, User!Reports
  <2>3. u_conn'.gen <= u_gen /\ u_recovery' <= u_gen
    BY <1>3, <1>4 DEF UserInv, UserGaps
  <2>4. u_recovery' <= u_told \/ UserStored(u_recovery')
    BY <1>3, <1>4 DEF UserInv, UserGaps
  <2>5. \A r \in u_reports :
           ~r.told /\ ~UserStored(r.gen) => r.gen # u_recovery' /\ r.gen # u_conn'.gen
    BY <1>4, <2>2 DEF UserInv, UserGaps
  <2>6. u_conn'.pc = "swap" =>
           u_told <= u_recovery' /\ \A t \in u_telling : t.pc = "tell" => t.gen <= u_recovery'
    BY <1>4 DEF UserInv, UserGaps
  <2> QED BY <1>1, <1>2, <2>1, <2>3, <2>4, <2>5, <2>6 DEF UserInv, UserGaps, UserStored
<1>11. u_recovery # 0 /\ u_recovery' = 0
         => u_recovery \in User!Handed /\ \A g \in User!Handed : g <= u_recovery
  BY <1>4, UserTaken
<1> QED BY <1>5, <1>7, <1>8, <1>9, <1>10, <1>11 DEF UserInv

LEMMA UserTransport == ASSUME UserInv, User!Transport PROVE UserInv'
<1>1. /\ UNCHANGED <<u_owner, u_active, u_sgen, u_user, u_result, u_closer>>
      /\ UNCHANGED <<u_recovery, u_told, u_telling, u_conn, u_sub, u_subs, u_work, u_late>>
  BY DEF User!Transport, User!lifeVars, User!workVars, User!gapStateVars, User!callVars
<1>2. UserTypeOK /\ u_sgen' \in Nat /\ u_sgen' >= u_sgen /\ TRUE \in BOOLEAN
        /\ UNCHANGED <<UserToSend, UserMarkets>>
  BY <1>1 DEF UserInv, UserTypeOK, UserToSend, UserMarkets
<1>3. u_link # "off" /\ u_link # "closed" => UserLife'
  BY <1>1 DEF UserInv, UserLife
<1>4. ASSUME UserGapStep, UserLife', UserSession', u_copy' \in UserSubscriptions,
             u_server' \in UserSessions
      PROVE  UserInv'
  <2>1. u_gen' \in Nat /\ u_gen' >= u_gen /\ u_reports' \subseteq User!Reports
    BY <1>2, <1>4, UserGenerations
  <2>2. UserTypeOK'
    BY <1>1, <1>4, <2>1 DEF UserInv, UserTypeOK
  <2>3. UserMessage'
    BY <1>1, <1>2, <2>1, UserMessageFrame
  <2>4. UserGaps'
    BY <1>1, <1>4, UserGapsFrame
  <2>5. UserPlan'
    BY <1>1, <1>2 DEF UserInv, UserPlan
  <2> QED BY <1>4, <2>2, <2>3, <2>4, <2>5 DEF UserInv
<1>5. CASE User!Open /\ u_server' = User!NoSession /\ ~u_overlap' /\ UNCHANGED u_copy
  <2>1. u_link = "dial" /\ u_link' = "opened" /\ User!Draw(TRUE)
    BY <1>5 DEF User!Open
  <2>2. UserGapStep
    BY <1>2, <2>1, UserDraw
  <2>3. UserSession'
    BY <1>5, <2>1 DEF UserSession
  <2>4. u_copy' \in UserSubscriptions /\ u_server' \in UserSessions
    BY <1>2, <1>5, NoSessionTyped DEF UserTypeOK
  <2> QED BY <1>3, <1>4, <2>1, <2>2, <2>3, <2>4
<1>6. CASE User!CopySubscriptions /\ u_copy' = u_sub /\ UNCHANGED <<u_server, u_overlap>>
  <2>1. /\ u_link = "restore" /\ u_link' = "replay" /\ UNCHANGED <<u_gen, u_reports, u_pending,
                                                                   u_closing>>
        /\ UserGapStep
    BY <1>6 DEF User!CopySubscriptions, UserGapStep
  <2>2. UNCHANGED UserAsked
    BY <1>1, <2>1 DEF UserAsked
  <2>3. UserSession'
    BY <1>1, <1>6, <2>1, <2>2 DEF UserInv, UserSession
  <2>4. u_copy' \in UserSubscriptions /\ u_server' \in UserSessions
    BY <1>2, <1>6 DEF UserTypeOK
  <2> QED BY <1>3, <1>4, <2>1, <2>3, <2>4
<1>7. CASE /\ u_link = "replay" /\ User!Replay /\ UNCHANGED <<u_copy, u_overlap>>
           /\ u_server' = IF User!IsActive(u_copy) THEN User!Receives(User!Full(u_copy)) ELSE u_server
  <2>1. u_link' = "connect" /\ UNCHANGED <<u_gen, u_reports, u_pending, u_closing>> /\ UserGapStep
    BY <1>7 DEF User!Replay, UserGapStep
  <2>2. UNCHANGED UserAsked
    BY <1>1, <2>1 DEF UserAsked
  <2> DEFINE m == User!Full(u_copy)
  <2>3. m \in UserMessages /\ m.kind = "full" /\ u_server \in UserSessions
          /\ u_copy \in UserSubscriptions
    BY <1>2, FullIs DEF UserTypeOK
  <2>4. User!Receives(m) \in UserSessions /\ User!Receives(m).on
          /\ User!Receives(m).markets = m.markets
    BY <2>3, ReceivesIs
  <2>5. u_copy' \in UserSubscriptions /\ u_server' \in UserSessions
    BY <1>7, <2>3, <2>4
  <2>6. ~u_overlap => u_copy = u_sub
    BY <1>7 DEF UserInv, UserSession
  <2>7. ~u_overlap /\ User!IsActive(u_sub) => u_server'.on /\ u_server'.markets = UserMarkets
    BY <1>7, <2>4, <2>6 DEF UserMarkets
  <2> DEFINE P == MarketsIn(UserToSend, "subscribe")
             Q == MarketsIn(UserToSend, "unsubscribe")
  <2>8. ~u_overlap /\ User!IsActive(u_sub) =>
           \/ UserToSend = <<User!Full(u_sub)>>
           \/ u_server'.on /\ (u_server'.markets \cup P) \ Q = UserMarkets
    <3>1. UserToSend = <<User!Full(u_sub)>> \/ (P \subseteq UserMarkets /\ Q \cap UserMarkets = {})
      BY DEF UserInv, UserPlan
    <3> HIDE DEF P, Q
    <3> QED BY <2>7, <3>1
  <2>9. UserSession'
    <3>1. ~u_closing /\ ~u_overlap /\ ~User!IsActive(u_sub) => u_server' = User!NoSession
            \/ UserAsked
      BY <1>7, <2>6 DEF UserInv, UserSession
    <3> QED BY <1>1, <1>2, <1>7, <2>1, <2>2, <2>8, <3>1 DEF UserSession
  <2> QED BY <1>3, <1>4, <1>7, <2>1, <2>5, <2>9
<1>8. ASSUME UNCHANGED <<u_copy, u_server, u_overlap>>, UserGapStep, UserLinkStep, UserLife'
      PROVE  UserInv'
  BY <1>1, <1>2, <1>8, UserFrame
<1>9. CASE u_closing /\ User!ReplayFails /\ UNCHANGED <<u_copy, u_server, u_overlap>>
  <2> u_pending => u_pending'
    BY <1>9, Zenon DEF User!ReplayFails
  <2>1. u_link \in {"restore", "replay"} /\ u_link' = "up" /\ u_closing'
          /\ (u_pending => u_pending')
    BY <1>9 DEF User!ReplayFails
  <2>2. UserGapStep
    BY <1>2, <1>9, UserDraw DEF User!ReplayFails, UserGapStep
  <2>3. UserLinkStep
    BY <2>1 DEF UserLinkStep
  <2> QED BY <1>3, <1>8, <1>9, <2>1, <2>2, <2>3
<1>10. CASE /\ User!Publish \/ User!Lost \/ User!Failed \/ User!PeerCloses
            /\ UNCHANGED <<u_copy, u_server, u_overlap>>
  <2>1. UserGapStep
    BY <1>10 DEF User!Publish, User!Lost, User!Failed, User!PeerCloses, UserGapStep
  <2>2. \/ u_link = "opened" /\ u_link' = "restore" /\ UNCHANGED u_closing
        \/ u_link = "lost" /\ u_link' = "closed"
        \/ u_link = "failed" /\ u_link' = "dial"
        \/ u_link \notin {"off", "closed"} /\ UNCHANGED <<u_link, u_pending>> /\ u_closing'
    BY <1>10 DEF User!Publish, User!Lost, User!Failed, User!PeerCloses
  <2>3. UserLinkStep
    BY <2>2 DEF UserLinkStep
  <2> QED BY <1>3, <1>8, <1>10, <2>1, <2>2, <2>3
<1>11. CASE (User!Drop \/ User!DialFails) /\ UNCHANGED <<u_copy, u_server, u_overlap>>
  <2>1. User!Draw(TRUE) /\ u_link \in {"up", "dial"} /\ u_link' \in {"lost", "failed"}
    BY <1>11 DEF User!Drop, User!DialFails
  <2>2. UserGapStep /\ UserLinkStep
    BY <1>2, <2>1, UserDraw DEF UserLinkStep
  <2> QED BY <1>3, <1>8, <1>11, <2>1, <2>2
<1>12. CASE /\ \E r \in u_reports : User!Abandon(r) \/ User!CloseSocket(r)
            /\ UNCHANGED <<u_copy, u_server, u_overlap>>
  <2>1. PICK r \in u_reports : User!Abandon(r) \/ User!CloseSocket(r)
    BY <1>12
  <2>2. UNCHANGED <<u_link, u_gen, u_pending>> /\ u_reports' \subseteq u_reports
    BY <2>1 DEF User!Abandon, User!CloseSocket
  <2>3. u_closing => u_closing'
    BY <2>1, Zenon DEF User!Abandon, User!CloseSocket
  <2>4. UserGapStep /\ UserLinkStep /\ UserLife'
    BY <1>1, <2>2, <2>3 DEF UserGapStep, UserLinkStep, UserInv, UserLife
  <2> QED BY <1>8, <1>12, <2>4
<1> QED BY <1>5, <1>6, <1>7, <1>9, <1>10, <1>11, <1>12 DEF User!Transport

-----------------------------------------------------------------------------
(* UserStream: the messages.                                               *)

LEMMA UserWorkFrame ==
    ASSUME UserInv, u_work' \in UserWorks, u_late' \in Nat, UserMessage', UserGapStep,
           UNCHANGED <<u_link, u_closing, u_owner, u_active, u_sgen, u_user, u_result, u_closer>>,
           u_pending => u_pending',
           UNCHANGED <<u_recovery, u_told, u_telling, u_conn, u_sub, u_copy, u_server, u_subs, u_overlap>>
    PROVE  UserInv'
<1>1. u_gen' \in Nat /\ u_gen' >= u_gen /\ u_reports' \subseteq User!Reports
  BY UserGenerations DEF UserInv
<1>2. UserTypeOK' /\ UserLife' /\ UserLinkStep
  BY <1>1 DEF UserInv, UserTypeOK, UserLife, UserLinkStep
<1>3. UserGaps'
  BY UserGapsFrame
<1>4. UserPlan' /\ UserSession'
  BY <1>2, UserSessionFrame
<1> QED BY <1>2, <1>3, <1>4 DEF UserInv

LEMMA UserWorkStep == ASSUME UserInv, User!Dispatch \/ User!WorkStep PROVE UserInv'
<1>1. /\ UNCHANGED <<u_owner, u_active, u_sgen, u_user, u_result, u_closer>>
      /\ UNCHANGED <<u_recovery, u_told, u_telling, u_conn, u_sub, u_copy, u_server, u_subs, u_overlap>>
      /\ User!Request \/ UNCHANGED User!gapVars
  BY DEF User!Dispatch, User!WorkStep, User!HandleMessage, User!HandleEvent, User!lifeVars,
     User!subVars,
         User!gapStateVars, User!callVars
<1>2. UserGapStep /\ UNCHANGED <<u_link, u_closing>> /\ (u_pending => u_pending')
  BY <1>1, UserRequest DEF UserInv
<1>3. u_gen \in Nat /\ u_sgen \in Nat /\ u_work \in UserWorks /\ u_late \in Nat /\ u_late <= 1
  BY DEF UserInv, UserTypeOK, UserMessage
<1>4. ASSUME u_work' = User!Idle, u_late' \in Nat, u_late' <= 1 PROVE UserInv'
  <2>1. UserMessage' /\ u_work' \in UserWorks
    BY <1>4, UserIdle DEF UserMessage
  <2> QED BY <1>1, <1>2, <1>4, <2>1, UserWorkFrame
<1>5. u_late = 1 => u_work = User!Idle
        \/ (u_work.pc = "check" /\ ~User!Current(u_work.sgen, u_work.ws))
  BY DEF UserInv, UserMessage
<1>6. CASE User!Dispatch
  <2>1. u_work' = [pc |-> "begin", ws |-> u_gen] /\ u_late' = 0
    BY <1>6 DEF User!Dispatch
  <2>2. u_work' \in UserWorks /\ u_work'.pc = "begin" /\ u_late' \in Nat
    BY <1>3, <2>1 DEF UserWorks
  <2>3. UserMessage'
    BY <2>1, <2>2 DEF UserMessage
  <2> QED BY <1>1, <1>2, <2>2, <2>3, UserWorkFrame
<1>7. CASE User!HandleMessage
  <2>1. u_work.pc = "begin" /\ UNCHANGED u_late
    BY <1>7 DEF User!HandleMessage
  <2>2. u_work.ws \in Nat /\ u_late = 0
    BY <1>3, <1>5, <2>1, UserIdle DEF UserWorks
  <2>3. CASE u_work' = User!Idle
    BY <1>4, <2>1, <2>2, <2>3
  <2>4. CASE /\ User!Current(u_sgen, u_work.ws) /\ UNCHANGED User!gapVars
             /\ u_work' = [pc |-> "check", ws |-> u_work.ws, sgen |-> u_sgen, left |-> 2]
    <3>1. u_work' \in UserWorks /\ u_work'.ws = u_gen /\ u_work'.sgen = u_sgen /\ u_active
            /\ u_gen' = u_gen
      BY <1>3, <2>2, <2>4 DEF UserWorks, User!Current, User!gapVars
    <3>2. UserMessage'
      BY <1>1, <1>3, <2>1, <2>2, <3>1 DEF UserMessage
    <3>3. u_late' \in Nat
      BY <2>1, <2>2
    <3> QED BY <1>1, <1>2, <3>1, <3>2, <3>3, UserWorkFrame
  <2> QED BY <1>7, <2>3, <2>4 DEF User!HandleMessage
<1>8. CASE User!HandleEvent
  <2>1. u_work.pc \in {"check", "fire"} /\ UNCHANGED User!gapVars /\ UNCHANGED u_gen
    BY <1>8 DEF User!HandleEvent, User!gapVars
  <2>2. u_work # User!Idle /\ u_work \in [pc : {"check", "fire"}, ws : Nat, sgen : Nat, left : Int]
    BY <1>3, <2>1, UserIdle DEF UserWorks
  <2>3. u_work.ws <= u_gen /\ u_work.sgen <= u_sgen /\ (u_work.sgen = u_sgen => u_active)
    BY <2>1 DEF UserInv, UserMessage
  <2>4. ASSUME u_work' \in UserWorks, u_work'.ws = u_work.ws, u_work'.sgen = u_work.sgen,
               u_late' \in Nat, u_late' <= 1,
               u_late' = 1 => u_work'.pc = "check" /\ ~User!Current(u_work.sgen, u_work.ws)
        PROVE  UserInv'
    <3>1. UserMessage'
      BY <1>1, <2>1, <2>3, <2>4 DEF UserMessage, User!Current
    <3> QED BY <1>1, <1>2, <2>4, <3>1, UserWorkFrame
  <2>5. CASE u_work.pc = "check" /\ UNCHANGED u_late /\ u_work' = User!Idle
    BY <1>3, <1>4, <2>5
  <2>6. CASE /\ u_work.pc = "check" /\ UNCHANGED u_late /\ User!Current(u_work.sgen, u_work.ws)
             /\ u_work' = [u_work EXCEPT !.pc = "fire"]
    <3>1. u_work' \in UserWorks /\ u_work'.ws = u_work.ws /\ u_work'.sgen = u_work.sgen
      BY <2>2, <2>6 DEF UserWorks
    <3>2. u_late' = 0
      BY <1>3, <1>5, <2>2, <2>6
    <3> QED BY <2>4, <3>1, <3>2
  <2>7. CASE /\ u_work.pc = "fire"
             /\ u_late' = IF User!Current(u_work.sgen, u_work.ws) THEN u_late ELSE u_late + 1
             /\ u_work' = IF u_work.left = 1 THEN User!Idle
                          ELSE [u_work EXCEPT !.left = @ - 1, !.pc = "check"]
    <3>1. u_late = 0
      BY <1>3, <1>5, <2>2, <2>7
    <3>2. u_late' \in Nat /\ u_late' <= 1 /\ (u_late' = 1 => ~User!Current(u_work.sgen, u_work.ws))
      BY <2>7, <3>1
    <3>3. CASE u_work.left = 1
      BY <1>4, <2>7, <3>2, <3>3
    <3>4. CASE u_work.left # 1
      <4> DEFINE n == u_work.left - 1
      <4>1. n \in Int /\ u_work' = [u_work EXCEPT !.left = n, !.pc = "check"]
        BY <2>2, <2>7, <3>4
      <4> HIDE DEF n
      <4>2. u_work' \in UserWorks /\ u_work'.ws = u_work.ws /\ u_work'.sgen = u_work.sgen
              /\ u_work'.pc = "check"
        BY <2>2, <4>1 DEF UserWorks
      <4> QED BY <2>4, <3>2, <4>2
    <3> QED BY <3>3, <3>4
  <2> QED BY <1>8, <2>5, <2>6, <2>7 DEF User!HandleEvent
<1> QED BY <1>6, <1>7, <1>8 DEF User!WorkStep

-----------------------------------------------------------------------------
LEMMA UserNext == ASSUME UserInv, User!Next \/ UNCHANGED u_vars PROVE UserInv'
<1>1. CASE UNCHANGED u_vars
  BY <1>1 DEF u_vars, UserInv, UserTypeOK, UserLife, UserMessage, UserGaps, UserStored, UserPlan,
              UserSession, UserToSend, UserMarkets, UserAsked, User!Current
<1> QED BY <1>1, UserCalls, UserConnectStart, UserTearDown, UserUpdateSubscription, UserSendUpdate,
           UserFinishUpdate, UserGapReports, UserTransport, UserHandleConnect, UserHandleClose,
           UserWorkStep
        DEF User!Next, User!UserStep, User!SubsStep

LEMMA UserInit == ASSUME User!InitState PROVE UserInv
<1>1. /\ u_subs = User!Idle /\ u_work = User!Idle /\ u_link = "off" /\ u_gen = 0 /\ u_late = 0
      /\ u_sgen = 0 /\ u_recovery = 0 /\ u_told = 0 /\ u_reports = {}
      /\ u_telling = {} /\ u_conn = User!NoConnect
      /\ u_user = "idle" /\ u_result = "none" /\ u_closer = "none"
      /\ u_copy = u_sub /\ u_server = User!NoSession
  BY DEF User!InitState, User!GapInit
<1>2. u_sub \in UserSubscriptions
  <2> DEFINE b == FALSE
             e == {}
  <2>1. b \in BOOLEAN /\ e \in SUBSET Markets /\ u_sub = [all |-> b, markets |-> e]
    BY DEF User!InitState
  <2> HIDE DEF b, e
  <2> QED BY <2>1 DEF UserSubscriptions
<1>3. UserTypeOK
  BY <1>1, <1>2, UserIdle, UserNoConnect, NoSessionTyped DEF UserTypeOK
<1>4. UserToSend = <<>>
  BY <1>1 DEF UserToSend
<1>5. UserPlan
  BY <1>4, NoMarketsIn DEF UserPlan
<1>6. u_work.pc = "idle"
  BY <1>1, UserIdle
<1>7. UserMessage
  BY <1>1, <1>6 DEF UserMessage
<1> QED BY <1>1, <1>3, <1>5, <1>7, UserNoConnect DEF UserInv, UserLife, UserGaps, UserSession

LEMMA UserSafe == ASSUME UserInv PROVE UserStreamSafe
<1>1. User!FailedConnectIsOff
  BY DEF User!FailedConnectIsOff, UserInv, UserLife
<1>2. User!OneLateEvent
  BY DEF User!OneLateEvent, UserInv, UserMessage
<1>3. User!ServerAgrees
  <2>1. SUFFICES ASSUME u_link = "up", ~u_closing, ~u_pending, u_subs = User!Idle, ~u_overlap
                 PROVE  u_server = IF User!IsActive(u_sub)
                                   THEN [on |-> TRUE, markets |-> User!Full(u_sub).markets]
                                   ELSE User!NoSession
    BY DEF User!ServerAgrees
  <2>2. UserToSend = <<>> /\ ~UserAsked
    BY <2>1 DEF UserToSend, UserAsked
  <2>3. CASE ~User!IsActive(u_sub)
    BY <2>1, <2>2, <2>3 DEF UserInv, UserSession
  <2>4. CASE User!IsActive(u_sub)
    <3>1. u_server \in UserSessions /\ u_server.on /\ u_server.markets = UserMarkets
      BY <2>1, <2>2, <2>4, NoMarketsIn DEF UserInv, UserTypeOK, UserSession
    <3> DEFINE b == TRUE
    <3>2. u_server.on = b
      BY <3>1, Zenon DEF UserSessions
    <3> HIDE DEF b
    <3>3. u_server = [on |-> b, markets |-> UserMarkets]
      BY <3>1, <3>2 DEF UserSessions
    <3> QED BY <2>4, <3>3 DEF b, UserMarkets
  <2> QED BY <2>3, <2>4
<1> QED BY <1>1, <1>2, <1>3 DEF UserStreamSafe

(* A failed connect() leaves neither a transport nor an active stream, at most one event of
   a superseded message is fired, and once nothing is under way the server delivers what
   subscription_ says: the property UserStreamSafe, of UserStreamRuntime. *)
THEOREM UserStreamStaysSafe == Spec => []UserStreamSafe
<1>1. Init => UserInv
  BY UserInit DEF Init
<1>2. UserInv /\ [Next]_allVars => UserInv'
  BY StepOfOne, UserNext
<1>3. UserInv => UserStreamSafe
  BY UserSafe
<1> QED BY <1>1, <1>2, <1>3, PTL DEF Spec

(* The gap UserStreamRuntime's handle_connect takes for recovered is the newest one handed to
   the runtime, whatever order concurrent gap reports arrive in, and with the store and the
   callback of a gap as two steps: the safety half of UserGapsRecovered. *)
THEOREM UserRecoversNewestGap == Spec => User!RecoversNewestGap
<1>1. Init => UserInv
  BY UserInit DEF Init
<1>2. UserInv /\ [Next]_allVars => UserInv'
  BY StepOfOne, UserNext
<1>3. UserInv /\ [Next]_allVars
        => [u_recovery # 0 /\ u_recovery' = 0
              => u_recovery \in User!Handed /\ \A g \in User!Handed : g <= u_recovery]_User!vars
  <2>1. SUFFICES ASSUME UserInv, [Next]_allVars, u_recovery # 0, u_recovery' = 0
                 PROVE  u_recovery \in User!Handed /\ \A g \in User!Handed : g <= u_recovery
    OBVIOUS
  <2>2. User!Next
    BY <2>1, StepOfOne DEF u_vars
  <2>3. User!HandleConnect \/ User!GapReports \/ UNCHANGED u_recovery
    BY <2>2 DEF User!Next, User!UserStep, User!SubsStep, User!WorkStep,
                User!CallConnect, User!CallDisconnect, User!ConnectFlags, User!ConnectStart,
                User!ConnectWait,
                User!TearDown, User!UpdateSubscription, User!SendUpdate, User!FinishUpdate,
                User!Transport, User!HandleClose, User!Dispatch, User!HandleMessage,
                User!HandleEvent,
                User!gapStateVars
  <2>4. CASE User!GapReports
    <3>1. PICK r \in u_reports : User!HandleStreamGap(r)
      BY <2>4 DEF User!GapReports
    <3>2. u_recovery' = r.gen \/ UNCHANGED u_recovery
      BY <3>1 DEF User!HandleStreamGap, User!CheckGap, User!CountGap, User!StoreGap, User!TellGap
    <3>3. r.gen > 0 /\ r.gen \in Nat
      BY <2>1 DEF UserInv, UserGaps, UserTypeOK, User!Reports
    <3> QED BY <2>1, <3>2, <3>3
  <2> QED BY <2>1, <2>3, <2>4, UserHandleConnect
<1> QED BY <1>1, <1>2, <1>3, PTL DEF Spec, User!RecoversNewestGap

-----------------------------------------------------------------------------
(* OrderbookManager. *)

BookUpdates ==
    {Books!Idle} \cup [pc : {"track"}]
        \cup [pc : {"send", "erase", "leg"}, add : SUBSET Tokens, remove : SUBSET Tokens,
              gone : SUBSET Tokens]
BookMessages ==
    [pc : {"begin", "token", "apply", "leg", "store", "callback", "arb", "permit"}, ws : Nat,
     conn : Nat, token : Tokens, snap : BOOLEAN, sgen : Nat, legs : SUBSET Nat]
BookWorks == {Books!Idle} \cup BookMessages

(* deactivate_stream between its first step and the reset of the legs. *)
Clearing == o_user \in {"books", "legs", "books_stop", "legs_stop"}
(* The gap that opened this connection has still to reset the legs, and will. *)
OpenResets ==
    /\ o_link = "opened"
    /\ \E r \in o_reports : r.own /\ ((o_owner /\ o_active) \/ \E i \in o_inval : i.gen = r.gen)
LegsResetAhead == Clearing \/ (o_user = "deactivate_stop" /\ ~o_owner) \/ OpenResets

BookTypeOK ==
    /\ o_gen \in Nat /\ o_sgen \in Nat /\ o_conn \in Nat
    /\ o_reports \subseteq Books!Reports
    /\ o_books \in [Tokens -> Nat] /\ o_legs \in [Tokens -> Nat]
    /\ o_ready \subseteq Tokens /\ o_tracked \subseteq Tokens
    /\ o_server \subseteq Tokens /\ o_snaps \subseteq Tokens /\ o_copy \subseteq Tokens
    /\ o_subs \in BookUpdates /\ o_work \in BookWorks

(* The flags, as the user's thread moves through its calls. *)
BookLife ==
    /\ o_user \in {"start", "wait", "deactivate"} => o_owner /\ o_active
    /\ Clearing \/ o_user = "stop" => ~o_active
    /\ ~o_owner => ~o_active \/ o_user = "deactivate_stop"
    /\ o_link # "off" /\ ~o_active =>
          o_dark \/ o_user \in {"deactivate_stop", "books_stop", "legs_stop", "stop"}
    /\ \A r \in o_reports :
          r.own => ~r.told /\ (o_link \in {"restore", "replay", "connect", "up"} => o_pending)

(* A message of the current generation is one of this connection, which is still up. *)
BookMessage ==
    /\ o_link = "off" => o_work = Books!Idle
    /\ o_work # Books!Idle =>
          /\ o_work.ws <= o_gen
          /\ o_work.ws = o_gen => o_work.conn = o_conn /\ o_link = "up"
          /\ o_work.conn # o_conn => o_server \subseteq o_snaps
          /\ o_work.pc # "begin" => o_work.sgen <= o_sgen /\ (o_work.sgen = o_sgen => o_active)

(* No leg is of an earlier connection, or about to be, unless a reset is ahead. *)
BookLegs ==
    /\ o_link = "off" => o_legs = Books!None
    /\ ~o_active /\ ~Clearing => o_legs = Books!None /\ o_work.pc # "store"
    /\ (\E t \in Tokens : o_legs[t] \notin {0, o_conn}) => LegsResetAhead
    /\ o_work.pc = "store" /\ o_work.conn # o_conn => LegsResetAhead

BookArb ==
    /\ o_arb.legs \subseteq {o_arb.conn}
    /\ o_work.pc = "permit" /\ Books!Fresh => o_work.legs \subseteq {o_work.conn}

BookCalm ==
    /\ o_link \in {"restore", "replay", "connect", "up"}
    /\ o_owner /\ o_active /\ ~o_dark /\ ~o_closing /\ ~o_pending /\ o_reports = {}
Kept(t) == t \in o_ready /\ o_books[t] = o_conn
(* The snapshot of the token is in the worker's hands and will be applied. *)
Carried(t) ==
    /\ o_work.pc \in {"begin", "token", "apply"}
    /\ o_work.token = t /\ o_work.snap /\ o_work.conn = o_conn
    /\ o_work.ws = o_gen
    /\ o_work.pc # "begin" => o_work.sgen = o_sgen
Asking(t) == o_subs.pc = "send" /\ t \in o_subs.add
BookSnapshots ==
    /\ o_link = "opened" => o_server = {}
    /\ o_subs.pc \in {"send", "erase", "leg"} =>
          o_subs.gone \cap o_tracked = {} /\ o_subs.remove \subseteq o_subs.gone
    /\ BookCalm => \A t \in (o_tracked \cap o_server) \ o_snaps : Kept(t) \/ Carried(t) \/ Asking(t)

BookInv == BookTypeOK /\ BookLife /\ BookMessage /\ BookLegs /\ BookArb /\ BookSnapshots

LEMMA BookIdle ==
    /\ Books!Idle.pc = "idle" /\ Books!Idle \in BookUpdates /\ Books!Idle \in BookWorks
    /\ \A s \in BookUpdates : s = Books!Idle <=> s.pc = "idle"
    /\ \A w \in BookWorks : w = Books!Idle <=> w.pc = "idle"
    /\ \A w \in BookWorks : w # Books!Idle => w \in BookMessages
  BY DEF Books!Idle, BookUpdates, BookWorks, BookMessages

LEMMA NoLegs == Books!None \in [Tokens -> Nat] /\ \A t \in Tokens : Books!None[t] = 0
  BY DEF Books!None

-----------------------------------------------------------------------------
(* OrderbookManager: what a step that leaves a part of it alone has to show. *)

LEMMA BookMessageFrame ==
    ASSUME BookInv, UNCHANGED <<o_work, o_arb>>, o_gen' \in Nat, o_gen' >= o_gen,
           o_sgen' \in Nat, o_sgen' >= o_sgen, o_owner' => o_owner,
           o_sgen' = o_sgen /\ o_active => o_active',
           o_link' = "off" => o_work = Books!Idle,
           o_gen' = o_gen => o_conn' = o_conn
             /\ (o_link = "up" => o_link' = "up" \/ o_work = Books!Idle),
           o_conn' = o_conn /\ o_server \subseteq o_snaps => o_server' \subseteq o_snaps',
           o_conn' # o_conn => o_server' \subseteq o_snaps'
    PROVE  BookMessage' /\ BookArb'
<1>1. o_gen \in Nat /\ o_sgen \in Nat /\ o_work \in BookWorks
  BY DEF BookInv, BookTypeOK
<1>2. CASE o_work = Books!Idle
  BY <1>2, BookIdle DEF BookInv, BookMessage, BookArb
<1>3. CASE o_work # Books!Idle
  <2> DEFINE w == o_work.ws
             s == o_work.sgen
             c == o_work.conn
             p == o_work.pc
  <2>1. w \in Nat /\ s \in Nat /\ w' = w /\ s' = s /\ c' = c /\ p' = p
    BY <1>1, <1>3, BookIdle DEF BookMessages
  <2>2. /\ w <= o_gen /\ (w = o_gen => c = o_conn /\ o_link = "up")
        /\ c # o_conn => o_server \subseteq o_snaps
        /\ p # "begin" => s <= o_sgen /\ (s = o_sgen => o_active)
    BY <1>3 DEF BookInv, BookMessage
  <2>3. p = "permit" /\ Books!Current(s, w) => o_work.legs \subseteq {c}
    BY DEF BookInv, BookArb, Books!Fresh
  <2> HIDE DEF w, s, c, p
  <2>4. w <= o_gen' /\ (w = o_gen' => c = o_conn' /\ o_link' = "up")
    BY <1>1, <1>3, <2>1, <2>2
  <2>5. p # "begin" => s <= o_sgen' /\ (s = o_sgen' => o_active')
    BY <1>1, <2>1, <2>2
  <2>6. c # o_conn' => o_server' \subseteq o_snaps'
    BY <2>2
  <2>7. p # "begin" /\ (Books!Current(s, w))' => Books!Current(s, w)
    BY <1>1, <2>1, <2>2 DEF Books!Current
  <2>8. BookMessage'
    BY <1>3, <2>1, <2>4, <2>5, <2>6 DEF BookMessage, w, s, c, p
  <2>9. BookArb'
    BY <1>3, <2>1, <2>3, <2>7 DEF BookInv, BookArb, Books!Fresh, w, s, c, p
  <2> QED BY <2>8, <2>9
<1> QED BY <1>2, <1>3

LEMMA BookLegsFrame ==
    ASSUME BookInv, UNCHANGED <<o_legs, o_conn, o_work>>, LegsResetAhead => LegsResetAhead',
           o_link' = "off" => o_link = "off",
           ~o_active' /\ ~Clearing' => ~o_active /\ ~Clearing
    PROVE  BookLegs'
  BY DEF BookInv, BookLegs, Books!None

LEMMA BookLegsReset ==
    ASSUME o_legs' = Books!None, o_work'.pc # "store"
    PROVE  BookLegs'
  BY NoLegs DEF BookLegs, Books!None

LEMMA BookSnapshotsFrame ==
    ASSUME BookInv,
           UNCHANGED <<o_books, o_ready, o_tracked, o_server, o_snaps, o_subs, o_conn, o_work>>,
           o_link' = "opened" => o_link = "opened",
           BookCalm' => BookCalm /\ o_gen' = o_gen /\ o_sgen' = o_sgen
    PROVE  BookSnapshots'
  BY DEF BookInv, BookSnapshots, Kept, Carried, Asking

LEMMA BookSnapshotsOpen ==
    ASSUME BookInv, UNCHANGED <<o_tracked, o_server, o_subs>>,
           o_link' = "opened" => o_link = "opened", ~BookCalm' \/ o_server = {}
    PROVE  BookSnapshots'
  BY DEF BookInv, BookSnapshots

(* A step that leaves the message alone, and the tokens the server knows. *)
LEMMA BookCacheFrame ==
    ASSUME BookInv,
           UNCHANGED <<o_tracked, o_server, o_snaps, o_subs, o_conn, o_work, o_arb>>,
           o_books' \in [Tokens -> Nat], o_legs' \in [Tokens -> Nat], o_ready' \subseteq Tokens,
           o_copy' \subseteq Tokens, o_reports' \subseteq Books!Reports,
           o_gen' \in Nat, o_gen' >= o_gen,
           o_sgen' \in Nat, o_sgen' >= o_sgen, o_owner' => o_owner,
           o_sgen' = o_sgen /\ o_active => o_active',
           o_link' = "off" => o_link = "off" \/ o_work = Books!Idle,
           o_gen' = o_gen /\ o_link = "up" => o_link' = "up" \/ o_work = Books!Idle,
           BookLife', BookLegs', BookSnapshots'
    PROVE  BookInv'
<1>1. BookTypeOK'
  BY DEF BookInv, BookTypeOK
<1>2. BookMessage' /\ BookArb'
  <2>1. o_link' = "off" => o_work = Books!Idle
    BY DEF BookInv, BookMessage
  <2> QED BY <2>1, BookMessageFrame
<1> QED BY <1>1, <1>2 DEF BookInv

(* A step that leaves what is cached alone, too. *)
LEMMA BookFrame ==
    ASSUME BookInv,
           UNCHANGED <<o_books, o_ready, o_legs, o_tracked, o_server, o_snaps, o_subs, o_conn,
                       o_work, o_arb>>,
           o_copy' \subseteq Tokens, o_reports' \subseteq Books!Reports,
           o_gen' \in Nat, o_gen' >= o_gen,
           o_sgen' \in Nat, o_sgen' >= o_sgen, o_owner' => o_owner,
           o_sgen' = o_sgen /\ o_active => o_active',
           o_link' = "off" => o_link = "off",
           o_gen' = o_gen /\ o_link = "up" => o_link' = "up",
           BookLife', LegsResetAhead => LegsResetAhead',
           ~o_active' /\ ~Clearing' => ~o_active /\ ~Clearing,
           BookSnapshots'
    PROVE  BookInv'
<1>1. o_books' \in [Tokens -> Nat] /\ o_legs' \in [Tokens -> Nat] /\ o_ready' \subseteq Tokens
  BY DEF BookInv, BookTypeOK
<1>2. BookLegs'
  BY BookLegsFrame
<1> QED BY <1>1, <1>2, BookCacheFrame

-----------------------------------------------------------------------------
(* OrderbookManager: the user's calls.                                     *)

LEMMA BookCallConnect == ASSUME BookInv, Books!CallConnect PROVE BookInv'
<1>1. /\ UNCHANGED <<o_link, o_gen, o_reports, o_pending, o_closing, o_owner, o_sgen, o_inval,
                     o_dark>>
      /\ UNCHANGED <<o_books, o_ready, o_legs, o_tracked, o_server, o_snaps, o_subs, o_conn, o_work,
                     o_arb, o_copy>>
      /\ o_user = "idle" /\ o_owner /\ o_active' /\ o_user' = "start"
  BY DEF Books!CallConnect, Books!gapVars, Books!bookVars, Books!legVars, Books!subVars
<1>2. BookLife'
  BY <1>1 DEF BookInv, BookLife, Clearing
<1>3. ~Clearing /\ ~Clearing' /\ (LegsResetAhead => LegsResetAhead')
  BY <1>1 DEF Clearing, LegsResetAhead, OpenResets
<1>4. BookCalm' => BookCalm
  BY <1>1 DEF BookCalm, BookInv, BookLife
<1>5. BookSnapshots'
  BY <1>1, <1>4, BookSnapshotsFrame
<1>6. /\ o_copy' \subseteq Tokens /\ o_reports' \subseteq Books!Reports
      /\ o_gen' \in Nat /\ o_gen' >= o_gen /\ o_sgen' \in Nat /\ o_sgen' >= o_sgen
  BY <1>1 DEF BookInv, BookTypeOK
<1> QED BY <1>1, <1>2, <1>3, <1>5, <1>6, BookFrame

LEMMA BookCallDisconnect == ASSUME BookInv, Books!CallDisconnect PROVE BookInv'
<1>1. /\ UNCHANGED <<o_link, o_gen, o_reports, o_pending, o_closing, o_active, o_sgen, o_inval,
                     o_dark>>
      /\ UNCHANGED <<o_books, o_ready, o_legs, o_tracked, o_server, o_snaps, o_subs, o_conn, o_work,
                     o_arb, o_copy>>
      /\ o_user = "idle" /\ o_user' = "deactivate_stop"
  BY DEF Books!CallDisconnect, Books!gapVars, Books!bookVars, Books!legVars, Books!subVars
<1> o_owner' => o_owner
  BY Zenon DEF Books!CallDisconnect
<1>2. BookLife'
  BY <1>1 DEF BookInv, BookLife, Clearing
<1>3. ~Clearing /\ ~Clearing' /\ (LegsResetAhead => LegsResetAhead')
  BY <1>1 DEF Clearing, LegsResetAhead, OpenResets
<1>4. BookCalm' => BookCalm
  BY <1>1 DEF BookCalm
<1>5. BookSnapshots'
  BY <1>1, <1>4, BookSnapshotsFrame
<1>6. /\ o_copy' \subseteq Tokens /\ o_reports' \subseteq Books!Reports
      /\ o_gen' \in Nat /\ o_gen' >= o_gen /\ o_sgen' \in Nat /\ o_sgen' >= o_sgen
  BY <1>1 DEF BookInv, BookTypeOK
<1> QED BY <1>1, <1>2, <1>3, <1>5, <1>6, BookFrame

LEMMA BookConnecting == ASSUME BookInv, Books!Connecting PROVE BookInv'
<1>1. /\ UNCHANGED <<o_gen, o_reports, o_owner, o_active, o_sgen, o_inval, o_dark>>
      /\ UNCHANGED <<o_books, o_ready, o_legs, o_tracked, o_server, o_snaps, o_subs, o_conn, o_work,
                     o_arb, o_copy>>
      /\ o_user \in {"start", "wait"} /\ o_user' \in {"wait", "idle", "deactivate"}
      /\ \/ o_link = "off" /\ o_link' = "dial"
         \/ UNCHANGED <<o_link, o_pending, o_closing>>
  BY DEF Books!Connecting, Books!Start, Books!gapVars, Books!bookVars, Books!legVars, Books!subVars
<1>2. BookLife'
  BY <1>1 DEF BookInv, BookLife, Clearing
<1>3. ~Clearing /\ ~Clearing' /\ (LegsResetAhead => LegsResetAhead')
  BY <1>1 DEF Clearing, LegsResetAhead, OpenResets
<1>4. BookCalm' => BookCalm
  BY <1>1 DEF BookCalm
<1>5. BookSnapshots'
  BY <1>1, <1>4, BookSnapshotsFrame
<1>6. /\ o_copy' \subseteq Tokens /\ o_reports' \subseteq Books!Reports
      /\ o_gen' \in Nat /\ o_gen' >= o_gen /\ o_sgen' \in Nat /\ o_sgen' >= o_sgen
  BY <1>1 DEF BookInv, BookTypeOK
<1> QED BY <1>1, <1>2, <1>3, <1>5, <1>6, BookFrame

LEMMA BookDeactivate == ASSUME BookInv, Books!Deactivate PROVE BookInv'
<1>1. UNCHANGED <<o_owner, o_conn, o_work, o_inval, o_arb, o_tracked, o_copy, o_server, o_snaps,
                  o_subs>>
  BY DEF Books!Deactivate, Books!subVars
<1>2. (o_dark => o_dark') /\ (o_user = "deactivate" /\ o_link # "off" => o_dark')
  BY Zenon DEF Books!Deactivate
<1>3. o_gen \in Nat /\ o_sgen \in Nat /\ o_reports \subseteq Books!Reports
        /\ o_copy' \subseteq Tokens
      /\ o_books \in [Tokens -> Nat] /\ o_legs \in [Tokens -> Nat] /\ o_ready \subseteq Tokens
  BY <1>1 DEF BookInv, BookTypeOK
<1>4. CASE /\ o_user \in {"deactivate", "deactivate_stop"}
           /\ o_active' = FALSE
           /\ o_sgen' = IF o_active THEN o_sgen + 1 ELSE o_sgen
           /\ o_user' = IF o_user = "deactivate" THEN "books" ELSE "books_stop"
           /\ UNCHANGED <<o_link, o_gen, o_reports, o_pending, o_closing, o_books, o_ready, o_legs>>
  <2>1. o_sgen' \in Nat /\ o_sgen' >= o_sgen /\ (o_sgen' = o_sgen /\ o_active => o_active')
    BY <1>3, <1>4
  <2>2. ~o_active' /\ Clearing' /\ LegsResetAhead' /\ ~BookCalm'
    BY <1>4 DEF Clearing, LegsResetAhead, BookCalm
  <2>3. BookLife'
    BY <1>1, <1>2, <1>4 DEF BookInv, BookLife, Clearing
  <2>4. BookSnapshots'
    BY <1>1, <1>4, <2>2, BookSnapshotsOpen
  <2>5. o_gen' \in Nat /\ o_gen' >= o_gen /\ o_reports' \subseteq Books!Reports
    BY <1>3, <1>4
  <2> QED BY <1>1, <1>3, <1>4, <2>1, <2>2, <2>3, <2>4, <2>5, BookFrame
<1>5. CASE /\ o_user \in {"books", "books_stop"} /\ o_books' = Books!None /\ o_ready' = {}
           /\ o_user' = IF o_user = "books" THEN "legs" ELSE "legs_stop"
           /\ UNCHANGED <<o_link, o_gen, o_reports, o_pending, o_closing, o_legs, o_active, o_sgen>>
  <2>1. ~o_active /\ Clearing' /\ LegsResetAhead' /\ ~BookCalm'
    BY <1>5 DEF BookInv, BookLife, Clearing, LegsResetAhead, BookCalm
  <2>2. BookLife'
    BY <1>1, <1>2, <1>5 DEF BookInv, BookLife, Clearing
  <2>3. BookSnapshots'
    BY <1>1, <1>5, <2>1, BookSnapshotsOpen
  <2>4. BookLegs'
    BY <1>1, <1>5, <2>1, BookLegsFrame
  <2>5. /\ o_books' \in [Tokens -> Nat] /\ o_legs' \in [Tokens -> Nat] /\ o_ready' \subseteq Tokens
        /\ o_gen' \in Nat /\ o_gen' >= o_gen /\ o_reports' \subseteq Books!Reports
        /\ o_sgen' \in Nat /\ o_sgen' >= o_sgen
    BY <1>3, <1>5, NoLegs
  <2> QED BY <1>1, <1>3, <1>5, <2>2, <2>3, <2>4, <2>5, BookCacheFrame
<1>6. CASE /\ o_user \in {"legs", "legs_stop"} /\ Books!MarketsFree /\ o_legs' = Books!None
           /\ o_user' = IF o_user = "legs" THEN "idle" ELSE "stop"
           /\ UNCHANGED <<o_link, o_gen, o_reports, o_pending, o_closing, o_books, o_ready,
                          o_active,
                          o_sgen>>
  <2>1. ~o_active /\ ~BookCalm'
    BY <1>6 DEF BookInv, BookLife, Clearing, BookCalm
  <2>2. BookLife'
    BY <1>1, <1>2, <1>6, <2>1 DEF BookInv, BookLife, Clearing
  <2>3. BookSnapshots'
    BY <1>1, <1>6, <2>1, BookSnapshotsOpen
  <2>4. BookLegs'
    BY <1>1, <1>6, BookLegsReset DEF Books!MarketsFree
  <2>5. /\ o_books' \in [Tokens -> Nat] /\ o_legs' \in [Tokens -> Nat] /\ o_ready' \subseteq Tokens
        /\ o_gen' \in Nat /\ o_gen' >= o_gen /\ o_reports' \subseteq Books!Reports
        /\ o_sgen' \in Nat /\ o_sgen' >= o_sgen
    BY <1>3, <1>6, NoLegs
  <2> QED BY <1>1, <1>3, <1>6, <2>2, <2>3, <2>4, <2>5, BookCacheFrame
<1>7. CASE /\ o_user = "stop" /\ o_work = Books!Idle /\ Books!Stop /\ o_user' = "idle"
           /\ UNCHANGED <<o_books, o_ready, o_legs, o_active, o_sgen>>
  <2>1. o_link' = "off" /\ o_gen' = o_gen /\ o_reports' \subseteq o_reports
    BY <1>7 DEF Books!Stop
  <2>2. ~o_active /\ o_legs = Books!None /\ ~BookCalm'
    BY <1>7, <2>1 DEF BookInv, BookLife, BookLegs, Clearing, BookCalm
  <2>3. BookLife'
    BY <1>1, <1>7, <2>1, <2>2 DEF BookInv, BookLife, Clearing
  <2>4. BookSnapshots'
    BY <1>1, <2>1, <2>2, BookSnapshotsOpen
  <2>5. BookLegs'
    BY <1>1, <1>7, <2>2, BookLegsReset, BookIdle DEF Books!None
  <2>6. /\ o_books' \in [Tokens -> Nat] /\ o_legs' \in [Tokens -> Nat] /\ o_ready' \subseteq Tokens
        /\ o_gen' \in Nat /\ o_gen' >= o_gen /\ o_reports' \subseteq Books!Reports
        /\ o_sgen' \in Nat /\ o_sgen' >= o_sgen
    BY <1>3, <1>7, <2>1
  <2> QED BY <1>1, <1>3, <1>7, <2>1, <2>3, <2>4, <2>5, <2>6, BookCacheFrame
<1> QED BY <1>4, <1>5, <1>6, <1>7
        DEF Books!Deactivate, Books!gapVars, Books!bookVars, Books!legVars, Books!ClearBooks,
        Books!ResetLegs

-----------------------------------------------------------------------------
(* OrderbookManager: the subscriptions.                                    *)

LEMMA BookDraw ==
    ASSUME BookTypeOK, NEW own \in BOOLEAN, Books!Draw(own)
    PROVE  /\ o_gen' \in Nat /\ o_gen' > o_gen
           /\ o_reports' \subseteq Books!Reports /\ o_reports \subseteq o_reports'
           /\ \E n \in o_reports' : n.own <=> own
           /\ \A r \in o_reports' : r \in o_reports \/ ((r.own <=> own) /\ ~r.told)
<1> DEFINE b == FALSE
           n == [gen |-> o_gen + 1, own |-> own, told |-> b]
<1>1. o_gen + 1 \in Nat /\ b \in BOOLEAN /\ o_gen + 1 > o_gen /\ o_reports \subseteq Books!Reports
  BY DEF BookTypeOK
<1>2. o_gen' = o_gen + 1 /\ o_reports' = o_reports \cup {n}
  BY DEF Books!Draw
<1> HIDE DEF b
<1>3. n \in Books!Reports /\ n.own = own /\ n.told = b
  BY <1>1 DEF Books!Reports
<1>4. ~n.told
  BY <1>3, Zenon DEF b
<1> HIDE DEF n
<1> QED BY <1>1, <1>2, <1>3, <1>4

LEMMA BookRequest ==
    ASSUME BookTypeOK, Books!Request \/ UNCHANGED Books!gapVars
    PROVE  /\ UNCHANGED <<o_link, o_closing>> /\ (o_pending => o_pending')
           /\ o_gen' \in Nat /\ o_gen' >= o_gen
           /\ o_reports' \subseteq Books!Reports /\ o_reports \subseteq o_reports'
           /\ \A r \in o_reports' : r.own => r \in o_reports
           /\ UNCHANGED <<o_gen, o_reports, o_pending>> \/ o_pending'
           /\ Books!Request /\ o_link # "off" => o_pending'
<1>1. CASE Books!Draw(FALSE) /\ o_pending' = TRUE /\ UNCHANGED <<o_link, o_closing>>
  <2>1. FALSE \in BOOLEAN /\ o_gen \in Nat
    BY DEF BookTypeOK
  <2>2. /\ o_gen' \in Nat /\ o_gen' > o_gen
        /\ o_reports' \subseteq Books!Reports /\ o_reports \subseteq o_reports'
        /\ \A r \in o_reports' : r \in o_reports \/ (r.own <=> FALSE)
    BY <1>1, <2>1, BookDraw
  <2> QED BY <1>1, <2>1, <2>2
<1>2. CASE /\ UNCHANGED <<o_gen, o_reports, o_link, o_closing, o_pending>>
           /\ Books!Request => o_pending \/ o_link = "off"
  BY <1>2 DEF BookTypeOK
<1> QED BY <1>1, <1>2 DEF Books!Request, Books!gapVars, Books!Draw

LEMMA BookLegsFewer ==
    ASSUME BookInv, UNCHANGED <<o_conn, o_work, o_link, o_active, o_user>>,
           LegsResetAhead => LegsResetAhead',
           o_legs' \in [Tokens -> Nat], \A t \in Tokens : o_legs'[t] \in {0, o_legs[t]}
    PROVE  BookLegs'
<1>1. o_legs = Books!None => o_legs' = Books!None
  BY NoLegs DEF Books!None
<1>2. Clearing' = Clearing /\ Books!None' = Books!None
  BY DEF Clearing, Books!None
<1>3. (\E t \in Tokens : o_legs'[t] \notin {0, o_conn'}) => LegsResetAhead'
  BY DEF BookInv, BookLegs
<1> QED BY <1>1, <1>2, <1>3 DEF BookInv, BookLegs

(* A step of the thread that changes subscriptions. *)
LEMMA BookSubsFrame ==
    ASSUME BookInv, UNCHANGED <<o_link, o_closing, o_owner, o_active, o_sgen, o_user, o_conn,
                                o_work,
                                o_inval, o_arb, o_dark, o_copy>>,
           Books!Request \/ UNCHANGED Books!gapVars,
           o_books' \in [Tokens -> Nat], o_legs' \in [Tokens -> Nat], o_ready' \subseteq Tokens,
           o_tracked' \subseteq Tokens, o_server' \subseteq Tokens, o_snaps' \subseteq Tokens,
           o_subs' \in BookUpdates,
           o_server \subseteq o_snaps => o_server' \subseteq o_snaps',
           BookSnapshots', \A t \in Tokens : o_legs'[t] \in {0, o_legs[t]}
    PROVE  BookInv'
<1>1. /\ (o_pending => o_pending')
      /\ o_gen' \in Nat /\ o_gen' >= o_gen
      /\ o_reports' \subseteq Books!Reports /\ o_reports \subseteq o_reports'
      /\ \A r \in o_reports' : r.own => r \in o_reports
  BY BookRequest DEF BookInv
<1>2. BookTypeOK'
  BY <1>1 DEF BookInv, BookTypeOK
<1>3. BookLife'
  BY <1>1 DEF BookInv, BookLife, Clearing
<1>4. BookMessage' /\ BookArb'
  <2>1. o_sgen' \in Nat /\ o_sgen' >= o_sgen /\ (o_link' = "off" => o_work = Books!Idle)
    BY DEF BookInv, BookTypeOK, BookMessage
  <2> QED BY <1>1, <2>1, BookMessageFrame
<1>5. LegsResetAhead => LegsResetAhead'
  BY <1>1 DEF LegsResetAhead, Clearing, OpenResets
<1>6. BookLegs'
  BY <1>5, BookLegsFewer
<1> QED BY <1>2, <1>3, <1>4, <1>6 DEF BookInv

(* What EraseBooks, Untrack and Subscribe leave in the record of the call. *)
LEMMA BookUpdateTyped ==
    ASSUME NEW p \in {"send", "erase", "leg"}, NEW a \in SUBSET Tokens, NEW q \in SUBSET Tokens,
           NEW g \in SUBSET Tokens, o_subs' = [pc |-> p, add |-> a, remove |-> q, gone |-> g]
    PROVE  /\ o_subs' \in BookUpdates /\ o_subs'.pc = p /\ o_subs'.add = a
           /\ o_subs'.remove = q /\ o_subs'.gone = g
  BY DEF BookUpdates

LEMMA BookSubscribe == ASSUME BookInv, Books!Subscribe PROVE BookInv'
<1>1. /\ UNCHANGED <<o_link, o_gen, o_reports, o_pending, o_closing, o_owner, o_active, o_sgen,
                     o_user,
                     o_conn, o_work, o_inval, o_arb, o_dark, o_copy>>
      /\ UNCHANGED Books!gapVars /\ UNCHANGED <<o_books, o_ready, o_server, o_snaps>>
  BY DEF Books!Subscribe, Books!gapVars, Books!bookVars, Books!lifeVars
<1>2. /\ o_books' \in [Tokens -> Nat] /\ o_ready' \subseteq Tokens /\ o_server' \subseteq Tokens
      /\ o_snaps' \subseteq Tokens /\ o_tracked \subseteq Tokens /\ o_legs \in [Tokens -> Nat]
      /\ o_subs \in BookUpdates
  BY <1>1 DEF BookInv, BookTypeOK
<1>3. BookCalm' <=> BookCalm
  BY <1>1 DEF BookCalm
<1>4. \A t : (Kept(t) => Kept(t)') /\ (Carried(t) => Carried(t)')
  BY <1>1 DEF Kept, Carried
<1>5. CASE o_subs = Books!Idle /\ o_legs' = Books!None /\ o_subs' = [pc |-> "track"]
             /\ UNCHANGED o_tracked
  <2>1. o_subs' \in BookUpdates /\ o_subs'.pc = "track" /\ o_subs.pc = "idle"
    BY <1>5, BookIdle DEF BookUpdates
  <2>2. BookSnapshots'
    BY <1>1, <1>3, <1>4, <1>5, <2>1 DEF BookInv, BookSnapshots, Asking
  <2>3. o_legs' \in [Tokens -> Nat] /\ \A t \in Tokens : o_legs'[t] \in {0, o_legs[t]}
    BY <1>5, NoLegs
  <2>4. o_tracked' \subseteq Tokens
    BY <1>2, <1>5
  <2> QED BY <1>1, <1>2, <2>1, <2>2, <2>3, <2>4, BookSubsFrame
<1>6. CASE /\ o_subs.pc = "track" /\ o_tracked' = Tokens /\ UNCHANGED o_legs
           /\ o_subs' = [pc |-> "send", add |-> Tokens \ o_tracked, remove |-> {}, gone |-> {}]
  <2> DEFINE a == Tokens \ o_tracked
             e == {}
  <2>1. a \in SUBSET Tokens /\ e \in SUBSET Tokens /\ e = {} /\ Tokens \subseteq o_tracked \cup a
    OBVIOUS
  <2>2. o_subs' = [pc |-> "send", add |-> a, remove |-> e, gone |-> e]
    BY <1>6
  <2> HIDE DEF a, e
  <2>3. o_subs' \in BookUpdates /\ o_subs'.pc = "send" /\ o_subs'.add = a /\ o_subs'.remove = e
          /\ o_subs'.gone = e
    BY <2>1, <2>2, BookUpdateTyped
  <2>4. BookSnapshots'
    <3>1. BookCalm => \A t \in (Tokens \cap o_server) \ o_snaps : t \in a \/ Kept(t) \/ Carried(t)
      <4> SUFFICES ASSUME BookCalm, NEW t \in (Tokens \cap o_server) \ o_snaps, t \notin a
                   PROVE  Kept(t) \/ Carried(t)
        OBVIOUS
      <4>1. t \in (o_tracked \cap o_server) \ o_snaps
        BY <2>1
      <4> QED BY <1>6, <4>1 DEF BookInv, BookSnapshots, Asking
    <3>2. BookCalm' => \A t \in (o_tracked' \cap o_server') \ o_snaps' :
              Kept(t)' \/ Carried(t)' \/ Asking(t)'
      BY <1>1, <1>3, <1>4, <1>6, <2>3, <3>1 DEF Asking
    <3> QED BY <1>1, <2>1, <2>3, <3>2 DEF BookInv, BookSnapshots
  <2>5. o_legs' \in [Tokens -> Nat] /\ (\A t \in Tokens : o_legs'[t] \in {0, o_legs[t]})
          /\ o_tracked' \subseteq Tokens
    BY <1>2, <1>6
  <2> QED BY <1>1, <1>2, <2>3, <2>4, <2>5, BookSubsFrame
<1> QED BY <1>5, <1>6 DEF Books!Subscribe, Books!legVars

LEMMA BookUntrack ==
    ASSUME BookInv, NEW gone \in SUBSET Tokens, Books!Untrack(gone) PROVE BookInv'
<1>1. /\ UNCHANGED <<o_link, o_gen, o_reports, o_pending, o_closing, o_owner, o_active, o_sgen,
                     o_user,
                     o_conn, o_work, o_inval, o_arb, o_dark, o_copy>>
      /\ UNCHANGED Books!gapVars /\ UNCHANGED <<o_books, o_ready, o_legs, o_server, o_snaps>>
      /\ o_subs = Books!Idle /\ o_tracked' = o_tracked \ gone
  BY DEF Books!Untrack, Books!gapVars, Books!bookVars, Books!legVars, Books!lifeVars
<1>2. /\ o_books' \in [Tokens -> Nat] /\ o_ready' \subseteq Tokens /\ o_server' \subseteq Tokens
      /\ o_snaps' \subseteq Tokens /\ o_tracked' \subseteq Tokens /\ o_legs' \in [Tokens -> Nat]
      /\ o_tracked \subseteq Tokens
  BY <1>1 DEF BookInv, BookTypeOK
<1>3. BookCalm' <=> BookCalm
  BY <1>1 DEF BookCalm
<1>4. \A t : (Kept(t) => Kept(t)') /\ (Carried(t) => Carried(t)')
  BY <1>1 DEF Kept, Carried
<1> DEFINE q == gone \cap o_tracked
           e == {}
<1>5. q \in SUBSET Tokens /\ e \in SUBSET Tokens /\ q \subseteq gone
  BY <1>2
<1>6. o_subs' = [pc |-> "send", add |-> e, remove |-> q, gone |-> gone]
  BY DEF Books!Untrack
<1> HIDE DEF q, e
<1>7. o_subs' \in BookUpdates /\ o_subs'.pc = "send" /\ o_subs'.remove = q /\ o_subs'.gone = gone
  BY <1>5, <1>6, BookUpdateTyped
<1>8. BookSnapshots'
  <2>1. o_subs.pc # "send" /\ gone \cap o_tracked' = {} /\ o_tracked' \subseteq o_tracked
    BY <1>1, BookIdle
  <2>2. BookCalm' => \A t \in (o_tracked' \cap o_server') \ o_snaps' : Kept(t)' \/ Carried(t)'
    BY <1>1, <1>3, <1>4, <2>1 DEF BookInv, BookSnapshots, Asking
  <2> QED BY <1>1, <1>5, <1>7, <2>1, <2>2 DEF BookInv, BookSnapshots
<1>9. \A t \in Tokens : o_legs'[t] \in {0, o_legs[t]}
  BY <1>1
<1> QED BY <1>1, <1>2, <1>7, <1>8, <1>9, BookSubsFrame

LEMMA BookSendUpdate == ASSUME BookInv, Books!SendUpdate PROVE BookInv'
<1>1. /\ UNCHANGED <<o_owner, o_active, o_sgen, o_user, o_conn, o_work, o_inval, o_arb, o_dark,
                     o_copy>>
      /\ UNCHANGED <<o_books, o_ready, o_legs, o_tracked>>
      /\ Books!Request \/ UNCHANGED Books!gapVars
      /\ o_subs.pc = "send" /\ o_subs' = [o_subs EXCEPT !.pc = "erase"]
  BY DEF Books!SendUpdate, Books!bookVars, Books!legVars, Books!lifeVars
<1>2. /\ o_books' \in [Tokens -> Nat] /\ o_ready' \subseteq Tokens /\ o_tracked' \subseteq Tokens
      /\ o_legs' \in [Tokens -> Nat] /\ (\A t \in Tokens : o_legs'[t] \in {0, o_legs[t]})
      /\ o_server \subseteq Tokens /\ o_snaps \subseteq Tokens /\ o_subs \in BookUpdates
  BY <1>1 DEF BookInv, BookTypeOK
<1>3. UNCHANGED <<o_link, o_closing>> /\ (UNCHANGED <<o_gen, o_reports, o_pending>> \/ o_pending')
  BY <1>1, BookRequest DEF BookInv
<1> DEFINE a == o_subs.add
           q == o_subs.remove
           g == o_subs.gone
<1>4. /\ a \in SUBSET Tokens /\ q \in SUBSET Tokens /\ g \in SUBSET Tokens
      /\ o_subs' = [pc |-> "erase", add |-> a, remove |-> q, gone |-> g]
  BY <1>1, <1>2, BookIdle DEF BookUpdates
<1>5. q \subseteq g /\ g \cap o_tracked = {}
  BY <1>1 DEF BookInv, BookSnapshots
<1>6. BookCalm => \A t \in (o_tracked \cap o_server) \ o_snaps : Kept(t) \/ Carried(t) \/ t \in a
  BY DEF BookInv, BookSnapshots, Asking
<1>7. \/ (~Books!Connected \/ a \cup q = {}) /\ UNCHANGED <<o_server, o_snaps>>
      \/ /\ ~o_closing /\ o_link # "lost" /\ Books!Connected
         /\ o_server' = (o_server \cup a) \ q /\ o_snaps' = (o_snaps \cup a) \ q
      \/ (o_closing \/ o_link = "lost") /\ Books!Connected /\ UNCHANGED <<o_server, o_snaps>>
  BY DEF Books!SendUpdate
<1> HIDE DEF a, q, g
<1>8. o_subs' \in BookUpdates /\ o_subs'.pc = "erase" /\ o_subs'.add = a /\ o_subs'.remove = q
        /\ o_subs'.gone = g
  BY <1>4, BookUpdateTyped
<1>9. BookCalm' => BookCalm /\ ~o_closing /\ o_link # "lost" /\ Books!Connected /\ o_gen' = o_gen
  BY <1>1, <1>3 DEF BookCalm, Books!Connected
<1>10. BookCalm' => \A t : (Kept(t) => Kept(t)') /\ (Carried(t) => Carried(t)')
  BY <1>1, <1>9 DEF Kept, Carried
<1>11. BookCalm' => \A t \in (o_tracked' \cap o_server') \ o_snaps' : Kept(t)' \/ Carried(t)'
  <2>1. SUFFICES ASSUME BookCalm', NEW t \in (o_tracked' \cap o_server') \ o_snaps'
                 PROVE  Kept(t) \/ Carried(t)
    BY <1>10
  <2>2. t \in o_tracked /\ t \notin g /\ t \notin q
    BY <1>1, <1>5, <2>1
  <2>3. t \in o_server /\ t \notin o_snaps /\ t \notin a
    BY <1>7, <1>9, <2>1, <2>2
  <2> QED BY <1>6, <1>9, <2>1, <2>2, <2>3
<1>12. o_link' = "opened" => o_server' = {}
  BY <1>3, <1>7 DEF BookInv, BookSnapshots, Books!Connected
<1>13. BookSnapshots'
  BY <1>1, <1>5, <1>8, <1>11, <1>12 DEF BookSnapshots
<1>14. /\ o_server' \subseteq Tokens /\ o_snaps' \subseteq Tokens
       /\ o_server \subseteq o_snaps => o_server' \subseteq o_snaps'
  BY <1>2, <1>4, <1>7
<1> QED BY <1>1, <1>2, <1>3, <1>8, <1>13, <1>14, BookSubsFrame

LEMMA BookEraseBooks == ASSUME BookInv, Books!EraseBooks PROVE BookInv'
<1>1. /\ UNCHANGED <<o_link, o_gen, o_reports, o_pending, o_closing, o_owner, o_active, o_sgen,
                     o_user,
                     o_conn, o_work, o_inval, o_arb, o_dark, o_copy>>
      /\ UNCHANGED Books!gapVars /\ UNCHANGED <<o_tracked, o_server, o_snaps>>
      /\ o_subs.pc \in {"erase", "leg"}
  BY DEF Books!EraseBooks, Books!gapVars, Books!lifeVars
<1>2. /\ o_tracked' \subseteq Tokens /\ o_server' \subseteq Tokens /\ o_snaps' \subseteq Tokens
      /\ o_books \in [Tokens -> Nat] /\ o_ready \subseteq Tokens /\ o_legs \in [Tokens -> Nat]
      /\ o_tracked \subseteq Tokens /\ o_subs \in BookUpdates
  BY <1>1 DEF BookInv, BookTypeOK
<1> DEFINE a == o_subs.add
           q == o_subs.remove
           g == o_subs.gone
           other == [o_subs EXCEPT !.pc = "leg"]
<1>3. /\ a \in SUBSET Tokens /\ q \in SUBSET Tokens /\ g \in SUBSET Tokens
      /\ other = [pc |-> "leg", add |-> a, remove |-> q, gone |-> g]
  BY <1>1, <1>2, BookIdle DEF BookUpdates
<1>4. q \subseteq g /\ g \cap o_tracked = {}
  BY <1>1 DEF BookInv, BookSnapshots
<1>5. BookCalm => \A t \in (o_tracked \cap o_server) \ o_snaps : Kept(t) \/ Carried(t)
  BY <1>1 DEF BookInv, BookSnapshots, Asking
<1>6. BookCalm' <=> BookCalm
  BY <1>1 DEF BookCalm
<1>7. \A t : Carried(t) => Carried(t)'
  BY <1>1 DEF Carried
<1>8. o_subs' = Books!Idle \/ o_subs' = other
  BY DEF Books!EraseBooks
<1> HIDE DEF a, q, g, other
<1>9. o_subs' \in BookUpdates /\ o_subs'.pc # "send"
      /\ (o_subs'.pc \in {"erase", "leg"} => o_subs'.gone = g /\ o_subs'.remove = q)
  BY <1>3, <1>8, BookIdle, BookUpdateTyped
<1>10. ASSUME \A t \in o_tracked : Kept(t) => Kept(t)'
       PROVE  BookSnapshots'
  <2>1. BookCalm' => \A t \in (o_tracked' \cap o_server') \ o_snaps' : Kept(t)' \/ Carried(t)'
    BY <1>1, <1>5, <1>6, <1>7, <1>10
  <2> QED BY <1>1, <1>4, <1>9, <2>1 DEF BookInv, BookSnapshots
<1>11. CASE UNCHANGED <<o_books, o_ready, o_legs>>
  <2>1. BookSnapshots'
    BY <1>1, <1>10, <1>11 DEF Kept
  <2>2. /\ o_books' \in [Tokens -> Nat] /\ o_ready' \subseteq Tokens /\ o_legs' \in [Tokens -> Nat]
        /\ \A t \in Tokens : o_legs'[t] \in {0, o_legs[t]}
    BY <1>2, <1>11
  <2> QED BY <1>1, <1>2, <1>9, <2>1, <2>2, BookSubsFrame
<1>12. CASE /\ o_books' = [t \in Tokens |-> IF t \in g THEN 0 ELSE o_books[t]]
            /\ o_ready' = o_ready \ g /\ UNCHANGED o_legs
  <2>1. \A t \in o_tracked : t \notin g /\ t \in Tokens
    BY <1>2, <1>4
  <2>2. BookSnapshots'
    BY <1>1, <1>10, <1>12, <2>1 DEF Kept
  <2>3. /\ o_books' \in [Tokens -> Nat] /\ o_ready' \subseteq Tokens /\ o_legs' \in [Tokens -> Nat]
        /\ \A t \in Tokens : o_legs'[t] \in {0, o_legs[t]}
    BY <1>2, <1>12
  <2> QED BY <1>1, <1>2, <1>9, <2>2, <2>3, BookSubsFrame
<1>13. CASE /\ o_legs' = [t \in Tokens |-> IF t \in g THEN 0 ELSE o_legs[t]]
            /\ UNCHANGED <<o_books, o_ready>>
  <2>1. BookSnapshots'
    BY <1>1, <1>10, <1>13 DEF Kept
  <2>2. /\ o_books' \in [Tokens -> Nat] /\ o_ready' \subseteq Tokens /\ o_legs' \in [Tokens -> Nat]
        /\ \A t \in Tokens : o_legs'[t] \in {0, o_legs[t]}
    BY <1>2, <1>13
  <2> QED BY <1>1, <1>2, <1>9, <2>1, <2>2, BookSubsFrame
<1> QED BY <1>11, <1>12, <1>13 DEF Books!EraseBooks, Books!bookVars, Books!legVars, g

-----------------------------------------------------------------------------
(* OrderbookManager: the gap callbacks and the connection.                 *)

LEMMA BookReport ==
    ASSUME BookTypeOK, NEW r, Books!Report(r)
    PROVE  /\ UNCHANGED <<o_link, o_gen, o_pending, o_closing>> /\ r \in o_reports
           /\ o_reports' \subseteq Books!Reports /\ o_reports \ {r} \subseteq o_reports'
           /\ \A x \in o_reports' : x.own => x \in o_reports
           /\ ~r.own => o_reports' # {}
<1>1. /\ UNCHANGED <<o_link, o_gen, o_pending, o_closing>> /\ r \in o_reports
      /\ o_reports' = (o_reports \ {r}) \cup (IF r.own THEN {} ELSE {[r EXCEPT !.told = TRUE]})
  BY DEF Books!Report
<1> DEFINE b == TRUE
           x == [r EXCEPT !.told = b]
<1>2. r \in Books!Reports /\ b \in BOOLEAN /\ o_reports \subseteq Books!Reports
  BY <1>1 DEF BookTypeOK
<1>3. o_reports' = (o_reports \ {r}) \cup (IF r.own THEN {} ELSE {x})
  BY <1>1
<1> HIDE DEF b
<1>4. x \in Books!Reports /\ x.own = r.own
  BY <1>2 DEF Books!Reports
<1> HIDE DEF x
<1>5. CASE r.own
  BY <1>1, <1>2, <1>3, <1>5
<1>6. CASE ~r.own
  <2>1. o_reports' = (o_reports \ {r}) \cup {x} /\ ~x.own
    BY <1>3, <1>4, <1>6
  <2> QED BY <1>1, <1>2, <1>4, <2>1
<1> QED BY <1>5, <1>6

LEMMA BookGapReports == ASSUME BookInv, Books!GapReports PROVE BookInv'
<1>1. PICK r \in o_reports : Books!InvalidateStreamState(r)
  BY DEF Books!GapReports
<1>2. UNCHANGED <<o_tracked, o_copy, o_server, o_snaps, o_subs, o_owner, o_active, o_user, o_conn,
                  o_work,
                  o_arb, o_dark>>
  BY <1>1 DEF Books!InvalidateStreamState, Books!subVars
<1>3. /\ o_gen \in Nat /\ o_sgen \in Nat /\ o_reports \subseteq Books!Reports
           /\ o_copy' \subseteq Tokens
      /\ o_books \in [Tokens -> Nat] /\ o_legs \in [Tokens -> Nat] /\ o_ready \subseteq Tokens
      /\ o_sgen + 1 \in Nat /\ o_sgen + 1 > o_sgen
  BY <1>2 DEF BookInv, BookTypeOK
<1>4. CASE /\ o_owner /\ o_active /\ o_sgen' = o_sgen + 1 /\ o_inval \subseteq o_inval'
           /\ UNCHANGED <<o_link, o_gen, o_reports, o_pending, o_closing, o_books, o_ready, o_legs>>
  <2>1. BookLife' /\ (LegsResetAhead => LegsResetAhead') /\ ~BookCalm' /\ Clearing' = Clearing
    BY <1>1, <1>2, <1>4 DEF BookInv, BookLife, Clearing, LegsResetAhead, OpenResets, BookCalm
  <2>2. BookSnapshots'
    BY <1>2, <1>4, <2>1, BookSnapshotsOpen
  <2>3. /\ o_reports' \subseteq Books!Reports /\ o_gen' \in Nat /\ o_gen' >= o_gen
        /\ o_sgen' \in Nat /\ o_sgen' >= o_sgen
    BY <1>3, <1>4
  <2> QED BY <1>2, <1>3, <1>4, <2>1, <2>2, <2>3, BookFrame
<1>5. CASE /\ ~(o_owner /\ o_active) /\ (\A i \in o_inval : i.gen # r.gen) /\ Books!Report(r)
           /\ UNCHANGED <<o_sgen, o_inval, o_books, o_ready, o_legs>>
  <2>1. /\ UNCHANGED <<o_link, o_gen, o_pending, o_closing>>
        /\ o_reports' \subseteq Books!Reports /\ o_reports \ {r} \subseteq o_reports'
        /\ \A x \in o_reports' : x.own => x \in o_reports
    BY <1>5, BookReport DEF BookInv
  <2>2. BookLife' /\ ~BookCalm' /\ Clearing' = Clearing
    BY <1>2, <1>5, <2>1 DEF BookInv, BookLife, Clearing, BookCalm
  <2>3. LegsResetAhead => LegsResetAhead'
    BY <1>2, <1>5, <2>1 DEF Clearing, LegsResetAhead, OpenResets
  <2>4. BookSnapshots'
    BY <1>2, <2>1, <2>2, BookSnapshotsOpen
  <2>5. o_gen' \in Nat /\ o_gen' >= o_gen /\ o_sgen' \in Nat /\ o_sgen' >= o_sgen
    BY <1>3, <1>5, <2>1
  <2> QED BY <1>2, <1>3, <1>5, <2>1, <2>2, <2>3, <2>4, <2>5, BookFrame
<1>6. CASE /\ o_books' = Books!None /\ o_ready' = {}
           /\ o_inval' = (o_inval \ {[gen |-> r.gen, pc |-> "books"]}) \cup {[gen |-> r.gen, pc |-> "legs"]}
           /\ UNCHANGED <<o_link, o_gen, o_reports, o_pending, o_closing, o_sgen, o_legs>>
  <2>1. \A i \in o_inval : \E k \in o_inval' : k.gen = i.gen
    <3> DEFINE x == [gen |-> r.gen, pc |-> "books"]
               y == [gen |-> r.gen, pc |-> "legs"]
    <3>1. x.gen = y.gen /\ o_inval' = (o_inval \ {x}) \cup {y}
      BY <1>6
    <3> HIDE DEF x, y
    <3> QED BY <3>1
  <2>2. BookLife' /\ ~BookCalm' /\ Clearing' = Clearing
    BY <1>1, <1>2, <1>6 DEF BookInv, BookLife, Clearing, BookCalm
  <2>3. LegsResetAhead => LegsResetAhead'
    BY <1>2, <1>6, <2>1 DEF Clearing, LegsResetAhead, OpenResets
  <2>4. BookSnapshots'
    BY <1>2, <1>6, <2>2, BookSnapshotsOpen
  <2>5. BookLegs'
    BY <1>2, <1>6, <2>2, <2>3, BookLegsFrame
  <2>6. /\ o_books' \in [Tokens -> Nat] /\ o_legs' \in [Tokens -> Nat] /\ o_ready' \subseteq Tokens
        /\ o_gen' \in Nat /\ o_gen' >= o_gen /\ o_reports' \subseteq Books!Reports
        /\ o_sgen' \in Nat /\ o_sgen' >= o_sgen
    BY <1>3, <1>6, NoLegs
  <2> QED BY <1>2, <1>3, <1>6, <2>2, <2>4, <2>5, <2>6, BookCacheFrame
<1>7. CASE /\ Books!MarketsFree /\ o_legs' = Books!None /\ Books!Report(r)
           /\ UNCHANGED <<o_sgen, o_books, o_ready>>
  <2>1. /\ UNCHANGED <<o_link, o_gen, o_pending, o_closing>>
        /\ o_reports' \subseteq Books!Reports
        /\ \A x \in o_reports' : x.own => x \in o_reports
        /\ ~r.own => o_reports' # {}
    BY <1>7, BookReport DEF BookInv
  <2>2. BookLife' /\ ~BookCalm'
    BY <1>1, <1>2, <1>7, <2>1 DEF BookInv, BookLife, Clearing, BookCalm
  <2>3. BookSnapshots'
    BY <1>2, <2>1, <2>2, BookSnapshotsOpen
  <2>4. BookLegs'
    BY <1>2, <1>7, BookLegsReset DEF Books!MarketsFree
  <2>5. /\ o_books' \in [Tokens -> Nat] /\ o_legs' \in [Tokens -> Nat] /\ o_ready' \subseteq Tokens
        /\ o_gen' \in Nat /\ o_gen' >= o_gen /\ o_sgen' \in Nat /\ o_sgen' >= o_sgen
    BY <1>3, <1>7, <2>1, NoLegs
  <2> QED BY <1>2, <1>3, <1>7, <2>1, <2>2, <2>3, <2>4, <2>5, BookCacheFrame
<1> QED BY <1>1, <1>4, <1>5, <1>6, <1>7
        DEF Books!InvalidateStreamState, Books!gapVars, Books!bookVars, Books!ClearBooks,
        Books!ResetLegs

LEMMA BookOpen ==
    ASSUME BookInv, Books!Open, o_conn' = o_conn + 1, o_server' = {}, o_snaps' = {},
    o_dark' = ~o_active,
           UNCHANGED <<o_books, o_ready, o_legs, o_tracked, o_subs, o_owner, o_active, o_sgen,
                       o_user,
                       o_work, o_inval, o_arb, o_copy>>
    PROVE  BookInv'
<1>1. o_link = "dial" /\ o_link' = "opened" /\ Books!Draw(TRUE)
        /\ UNCHANGED <<o_pending, o_closing>>
  BY DEF Books!Open
<1>2. BookTypeOK /\ TRUE \in BOOLEAN
  BY DEF BookInv
<1>3. /\ o_gen' \in Nat /\ o_gen' > o_gen /\ o_gen \in Nat
      /\ o_reports' \subseteq Books!Reports
      /\ \E n \in o_reports' : n.own
      /\ \A r \in o_reports' : r \in o_reports \/ ~r.told
  BY <1>1, <1>2, BookDraw DEF BookTypeOK
<1>4. BookTypeOK'
  BY <1>2, <1>3 DEF BookTypeOK
<1>5. ~o_active => o_dark'
  BY Zenon
<1>6. BookLife'
  BY <1>1, <1>3, <1>5 DEF BookInv, BookLife, Clearing
<1>7. BookMessage' /\ BookArb'
  <2>1. o_sgen' \in Nat /\ o_sgen' >= o_sgen /\ o_gen' >= o_gen /\ o_gen' # o_gen
    BY <1>2, <1>3 DEF BookTypeOK
  <2>2. o_server' \subseteq o_snaps' /\ o_link' # "off"
    BY <1>1
  <2> QED BY <1>3, <2>1, <2>2, BookMessageFrame
<1>8. (\E t \in Tokens : o_legs[t] # 0) \/ o_work.pc = "store" => LegsResetAhead'
  <2>1. CASE o_owner /\ o_active
    BY <1>1, <1>3, <2>1 DEF LegsResetAhead, OpenResets
  <2>2. CASE ~o_owner /\ o_active
    BY <2>2 DEF BookInv, BookLife, LegsResetAhead
  <2>3. CASE ~o_active
    BY <2>3, NoLegs DEF BookInv, BookLegs, LegsResetAhead, Clearing
  <2> QED BY <2>1, <2>2, <2>3
<1>9. BookLegs'
  <2>1. ~o_active' /\ ~Clearing' => o_legs' = Books!None' /\ o_work'.pc # "store"
    BY DEF BookInv, BookLegs, Clearing, Books!None
  <2>2. (\E t \in Tokens : o_legs'[t] \notin {0, o_conn'}) => \E t \in Tokens : o_legs[t] # 0
    OBVIOUS
  <2> QED BY <1>1, <1>8, <2>1, <2>2 DEF BookLegs
<1>10. BookSnapshots'
  BY DEF BookInv, BookSnapshots
<1> QED BY <1>4, <1>6, <1>7, <1>9, <1>10 DEF BookInv

LEMMA BookReplay ==
    ASSUME BookInv, o_link = "replay", Books!Replay,
           o_server' = o_server \cup o_copy, o_snaps' = o_snaps \cup o_copy,
           UNCHANGED <<o_books, o_ready, o_legs, o_tracked, o_subs, o_owner, o_active, o_sgen,
                       o_user,
                       o_work, o_inval, o_arb, o_copy, o_conn, o_dark>>
    PROVE  BookInv'
<1>1. o_link' = "connect" /\ UNCHANGED <<o_gen, o_reports, o_pending, o_closing>>
  BY DEF Books!Replay
<1>2. BookTypeOK'
  BY <1>1 DEF BookInv, BookTypeOK
<1>3. BookLife' /\ (BookCalm' => BookCalm) /\ (LegsResetAhead => LegsResetAhead')
        /\ Clearing' = Clearing
  BY <1>1 DEF BookInv, BookLife, BookCalm, Clearing, LegsResetAhead, OpenResets
<1>4. BookMessage' /\ BookArb'
  <2>1. o_gen' \in Nat /\ o_gen' >= o_gen /\ o_sgen' \in Nat /\ o_sgen' >= o_sgen
    BY <1>1 DEF BookInv, BookTypeOK
  <2>2. o_server \subseteq o_snaps => o_server' \subseteq o_snaps'
    OBVIOUS
  <2> QED BY <1>1, <2>1, <2>2, BookMessageFrame
<1>5. BookLegs'
  BY <1>1, <1>3, BookLegsFrame
<1>6. BookSnapshots'
  <2>1. \A t : (Kept(t) => Kept(t)') /\ (Carried(t) => Carried(t)') /\ (Asking(t) => Asking(t)')
    BY <1>1 DEF Kept, Carried, Asking
  <2>2. (o_tracked' \cap o_server') \ o_snaps' \subseteq (o_tracked \cap o_server) \ o_snaps
    OBVIOUS
  <2>3. BookCalm' => \A t \in (o_tracked' \cap o_server') \ o_snaps' :
            Kept(t)' \/ Carried(t)' \/ Asking(t)'
    BY <1>3, <2>1, <2>2 DEF BookInv, BookSnapshots
  <2> QED BY <1>1, <2>3 DEF BookInv, BookSnapshots
<1> QED BY <1>2, <1>3, <1>4, <1>5, <1>6 DEF BookInv

LEMMA BookTransport == ASSUME BookInv, Books!Transport PROVE BookInv'
<1>1. UNCHANGED <<o_books, o_ready, o_legs, o_tracked, o_subs, o_owner, o_active, o_sgen, o_user,
                  o_work,
                  o_inval, o_arb>>
  BY DEF Books!Transport, Books!bookVars, Books!legVars, Books!lifeVars
<1>2. /\ BookTypeOK /\ o_sgen' \in Nat /\ o_sgen' >= o_sgen /\ o_gen \in Nat
           /\ o_copy \subseteq Tokens
      /\ o_tracked \subseteq Tokens /\ o_reports \subseteq Books!Reports /\ TRUE \in BOOLEAN
  BY <1>1 DEF BookInv, BookTypeOK
<1>3. Clearing' = Clearing
  BY <1>1 DEF Clearing
<1>4. ASSUME UNCHANGED <<o_server, o_snaps, o_conn>>, o_copy' \subseteq Tokens, BookLife',
             o_reports' \subseteq Books!Reports, o_gen' \in Nat, o_gen' >= o_gen,
             o_link' = "off" => o_link = "off", o_link' = "opened" => o_link = "opened",
             o_gen' = o_gen /\ o_link = "up" => o_link' = "up", LegsResetAhead => LegsResetAhead',
             \/ ~BookCalm' \/ o_server = {}
             \/ BookCalm /\ o_gen' = o_gen
      PROVE  BookInv'
  <2>1. BookSnapshots'
    <3>1. CASE ~BookCalm' \/ o_server = {}
      BY <1>1, <1>4, <3>1, BookSnapshotsOpen
    <3>2. CASE BookCalm /\ o_gen' = o_gen
      BY <1>1, <1>4, <3>2, BookSnapshotsFrame
    <3> QED BY <1>4, <3>1, <3>2
  <2> QED BY <1>1, <1>2, <1>3, <1>4, <2>1, BookFrame
<1>5. CASE /\ Books!Open /\ o_conn' = o_conn + 1 /\ o_server' = {} /\ o_snaps' = {}
                /\ o_dark' = ~o_active
           /\ UNCHANGED o_copy
  BY <1>1, <1>5, BookOpen
<1>6. CASE /\ Books!Publish \/ Books!Lost \/ Books!Closed \/ Books!Failed \/ Books!OnConnect
           /\ UNCHANGED <<o_copy, o_server, o_snaps, o_conn, o_dark>>
  <2>1. UNCHANGED <<o_gen, o_reports, o_closing>>
    BY <1>6 DEF Books!Publish, Books!Lost, Books!Closed, Books!Failed, Books!OnConnect
  <2>2. \/ o_link = "opened" /\ o_link' = "restore" /\ Books!OwnReported
        \/ o_link = "lost" /\ o_link' = "closed"
        \/ o_link = "closed" /\ o_link' = "dial"
        \/ o_link = "failed" /\ o_link' = "dial"
        \/ o_link = "connect" /\ o_link' = "up" /\ UNCHANGED o_pending
    BY <1>6 DEF Books!Publish, Books!Lost, Books!Closed, Books!Failed, Books!OnConnect
  <2>3. BookLife' /\ (LegsResetAhead => LegsResetAhead')
    BY <1>1, <1>6, <2>1, <2>2
    DEF BookInv, BookLife, Clearing, LegsResetAhead, OpenResets, Books!OwnReported
  <2>4. ~BookCalm' \/ o_server = {} \/ BookCalm
    BY <1>1, <1>6, <2>1, <2>2 DEF BookCalm, BookInv, BookSnapshots
  <2>5. o_copy' \subseteq Tokens /\ o_reports' \subseteq Books!Reports /\ o_gen' \in Nat
          /\ o_gen' >= o_gen
    BY <1>2, <1>6, <2>1
  <2> QED BY <1>4, <1>6, <2>1, <2>2, <2>3, <2>4, <2>5
<1>7. CASE /\ Books!CopySubscriptions /\ o_copy' = o_tracked
           /\ UNCHANGED <<o_server, o_snaps, o_conn, o_dark>>
  <2>1. o_link = "restore" /\ o_link' = "replay" /\ UNCHANGED <<o_gen, o_reports, o_pending,
                                                                o_closing>>
    BY <1>7 DEF Books!CopySubscriptions
  <2>2. BookLife' /\ (LegsResetAhead => LegsResetAhead') /\ (BookCalm' => BookCalm)
    BY <1>1, <1>7, <2>1 DEF BookInv, BookLife, Clearing, LegsResetAhead, OpenResets, BookCalm
  <2>3. o_copy' \subseteq Tokens /\ o_reports' \subseteq Books!Reports /\ o_gen' \in Nat
          /\ o_gen' >= o_gen
    BY <1>2, <1>7, <2>1
  <2> QED BY <1>4, <1>7, <2>1, <2>2, <2>3
<1>8. CASE /\ o_link = "replay" /\ Books!Replay
           /\ o_server' = o_server \cup o_copy /\ o_snaps' = o_snaps \cup o_copy
           /\ UNCHANGED <<o_copy, o_conn, o_dark>>
  BY <1>1, <1>8, BookReplay
<1>9. CASE /\ o_link = "replay" /\ o_closing /\ Books!ReplayFails
           /\ UNCHANGED <<o_copy, o_server, o_snaps, o_conn, o_dark>>
  <2>1. o_link' = "up" /\ o_closing' = o_closing
    BY <1>9 DEF Books!ReplayFails
  <2>2. CASE UNCHANGED <<o_gen, o_reports, o_pending>>
    <3>1. BookLife' /\ (LegsResetAhead => LegsResetAhead') /\ ~BookCalm'
      BY <1>1, <1>9, <2>1, <2>2 DEF BookInv, BookLife, Clearing, LegsResetAhead, OpenResets,
         BookCalm
    <3>2. o_copy' \subseteq Tokens /\ o_reports' \subseteq Books!Reports /\ o_gen' \in Nat
            /\ o_gen' >= o_gen
      BY <1>2, <1>9, <2>2
    <3> QED BY <1>4, <1>9, <2>1, <3>1, <3>2
  <2>3. CASE o_pending' = TRUE /\ Books!Draw(TRUE)
    <3>1. /\ o_gen' \in Nat /\ o_gen' > o_gen /\ o_reports' \subseteq Books!Reports
          /\ \A r \in o_reports' : r \in o_reports \/ ~r.told
      BY <1>2, <2>3, BookDraw
    <3>2. BookLife' /\ (LegsResetAhead => LegsResetAhead') /\ ~BookCalm'
      BY <1>1, <1>9, <2>1, <2>3, <3>1 DEF BookInv, BookLife, Clearing, LegsResetAhead, OpenResets,
         BookCalm
    <3>3. o_copy' \subseteq Tokens /\ o_gen' >= o_gen /\ o_gen' # o_gen
      BY <1>2, <1>9, <3>1
    <3> QED BY <1>4, <1>9, <2>1, <3>1, <3>2, <3>3
  <2> QED BY <1>9, <2>2, <2>3 DEF Books!ReplayFails
<1>10. CASE Books!PeerCloses /\ UNCHANGED <<o_copy, o_server, o_snaps, o_conn, o_dark>>
  <2>1. UNCHANGED <<o_link, o_gen, o_reports, o_pending>> /\ o_closing'
    BY <1>10 DEF Books!PeerCloses
  <2>2. BookLife' /\ (LegsResetAhead => LegsResetAhead') /\ ~BookCalm'
    BY <1>1, <1>10, <2>1 DEF BookInv, BookLife, Clearing, LegsResetAhead, OpenResets, BookCalm
  <2>3. o_copy' \subseteq Tokens /\ o_reports' \subseteq Books!Reports /\ o_gen' \in Nat
          /\ o_gen' >= o_gen
    BY <1>2, <1>10, <2>1
  <2> QED BY <1>4, <1>10, <2>1, <2>2, <2>3
<1>11. CASE (Books!Drop \/ Books!DialFails) /\ UNCHANGED <<o_copy, o_server, o_snaps, o_conn,
                                                           o_dark>>
  <2>1. Books!Draw(TRUE) /\ o_link \in {"up", "dial"} /\ o_link' \in {"lost", "failed"}
    BY <1>11 DEF Books!Drop, Books!DialFails
  <2>2. /\ o_gen' \in Nat /\ o_gen' > o_gen /\ o_reports' \subseteq Books!Reports
        /\ \A r \in o_reports' : r \in o_reports \/ ~r.told
    BY <1>2, <2>1, BookDraw
  <2>3. BookLife' /\ (LegsResetAhead => LegsResetAhead') /\ ~BookCalm'
    BY <1>1, <1>11, <2>1, <2>2 DEF BookInv, BookLife, Clearing, LegsResetAhead, OpenResets, BookCalm
  <2>4. o_copy' \subseteq Tokens /\ o_gen' >= o_gen /\ o_gen' # o_gen
    BY <1>2, <1>11, <2>2
  <2> QED BY <1>4, <1>11, <2>1, <2>2, <2>3, <2>4
<1>12. CASE /\ \E r \in o_reports : Books!Abandon(r) \/ Books!CloseSocket(r)
            /\ UNCHANGED <<o_copy, o_server, o_snaps, o_conn, o_dark>>
  <2>1. PICK r \in o_reports : Books!Abandon(r) \/ Books!CloseSocket(r)
    BY <1>12
  <2>2. UNCHANGED <<o_link, o_gen, o_pending>> /\ o_reports' = o_reports \ {r}
          /\ (o_link = "off" \/ r.told)
    BY <2>1 DEF Books!Abandon, Books!CloseSocket
  <2>3. o_link \in {"restore", "replay", "connect", "up"} => o_closing'
    BY <2>1, Zenon DEF Books!Abandon, Books!CloseSocket
  <2>4. BookLife' /\ ~BookCalm'
    BY <1>1, <1>12, <2>2, <2>3 DEF BookInv, BookLife, Clearing, BookCalm
  <2>5. LegsResetAhead => LegsResetAhead'
    BY <1>1, <2>2 DEF Clearing, LegsResetAhead, OpenResets, BookInv, BookLife
  <2>6. o_copy' \subseteq Tokens /\ o_reports' \subseteq Books!Reports /\ o_gen' \in Nat
          /\ o_gen' >= o_gen
    BY <1>2, <1>12, <2>2
  <2> QED BY <1>4, <1>12, <2>2, <2>4, <2>5, <2>6
<1> QED BY <1>5, <1>6, <1>7, <1>8, <1>9, <1>10, <1>11, <1>12 DEF Books!Transport, Books!NoReplay

-----------------------------------------------------------------------------
(* OrderbookManager: the message worker.                                   *)

BookPcs == {"begin", "token", "apply", "leg", "store", "callback", "arb", "permit"}

LEMMA BookStep ==
    ASSUME o_work \in BookMessages, NEW p \in BookPcs, o_work' = Books!Step(p)
    PROVE  /\ o_work' \in BookMessages /\ o_work'.pc = p
           /\ o_work'.ws = o_work.ws /\ o_work'.conn = o_work.conn /\ o_work'.token = o_work.token
           /\ o_work'.snap = o_work.snap /\ o_work'.sgen = o_work.sgen /\ o_work'.legs = o_work.legs
  BY DEF BookMessages, BookPcs, Books!Step

(* A step of the worker, or the arrival of a message. *)
LEMMA BookWorkFrame ==
    ASSUME BookInv,
           UNCHANGED <<o_owner, o_active, o_sgen, o_user, o_conn, o_inval, o_dark, o_copy,
                       o_tracked,
                       o_server, o_subs>>,
           Books!Request \/ UNCHANGED Books!gapVars,
           o_work' \in BookWorks, o_books' \in [Tokens -> Nat], o_legs' \in [Tokens -> Nat],
           o_ready' \subseteq Tokens, o_snaps' \subseteq Tokens,
           BookMessage', BookLegs', BookArb',
           BookCalm' => \A t \in (o_tracked \cap o_server) \ o_snaps' :
               Kept(t)' \/ Carried(t)' \/ Asking(t)
    PROVE  BookInv'
<1>1. /\ UNCHANGED <<o_link, o_closing>> /\ (o_pending => o_pending')
      /\ o_gen' \in Nat /\ o_reports' \subseteq Books!Reports
      /\ \A r \in o_reports' : r.own => r \in o_reports
  BY BookRequest DEF BookInv
<1>2. BookTypeOK'
  BY <1>1 DEF BookInv, BookTypeOK
<1>3. BookLife'
  BY <1>1 DEF BookInv, BookLife, Clearing
<1>4. BookSnapshots'
  <2>1. \A t : Asking(t) => Asking(t)'
    BY DEF Asking
  <2>2. BookCalm' => \A t \in (o_tracked' \cap o_server') \ o_snaps' :
            Kept(t)' \/ Carried(t)' \/ Asking(t)'
    BY <2>1
  <2> QED BY <1>1, <2>2 DEF BookInv, BookSnapshots
<1> QED BY <1>2, <1>3, <1>4 DEF BookInv

(* The message is dropped, or its last step is over. *)
LEMMA BookWorkEnds ==
    ASSUME BookInv,
           UNCHANGED <<o_owner, o_active, o_sgen, o_user, o_conn, o_inval, o_dark, o_copy,
                       o_tracked,
                       o_server, o_snaps, o_subs>>,
           Books!Request \/ UNCHANGED Books!gapVars,
           o_work' = Books!Idle, o_books' \in [Tokens -> Nat], o_ready' \subseteq Tokens,
           o_arb'.legs \subseteq {o_arb'.conn}, o_legs' \in [Tokens -> Nat],
           BookLegs' \/ UNCHANGED o_legs,
           BookCalm' => \A t \in (o_tracked \cap o_server) \ o_snaps : Kept(t)' \/ Asking(t)
    PROVE  BookInv'
<1>1. o_work' \in BookWorks /\ o_work'.pc = "idle"
  BY BookIdle
<1>2. BookMessage' /\ BookArb'
  BY <1>1 DEF BookMessage, BookArb, Books!Idle
<1>3. /\ UNCHANGED <<o_link>> /\ o_reports \subseteq o_reports' /\ o_snaps' \subseteq Tokens
  BY BookRequest DEF BookInv, BookTypeOK
<1>4. LegsResetAhead => LegsResetAhead'
  BY <1>3 DEF LegsResetAhead, Clearing, OpenResets
<1>5. BookLegs'
  BY <1>1, <1>3, <1>4 DEF BookInv, BookLegs, Clearing, Books!None
<1> QED BY <1>1, <1>2, <1>3, <1>5, BookWorkFrame

(* The message is at its next step, and nothing else has happened than the step itself. *)
LEMMA BookWorkAdvances ==
    ASSUME BookInv, o_work # Books!Idle, o_work.pc # "begin", NEW p \in BookPcs,
           o_work' \in BookMessages, o_work'.pc = p, p # "begin",
           o_work'.ws = o_work.ws, o_work'.conn = o_work.conn, o_work'.sgen = o_work.sgen,
           UNCHANGED <<o_link, o_gen, o_reports, o_pending, o_closing>>,
           UNCHANGED <<o_owner, o_active, o_sgen, o_user, o_conn, o_inval, o_dark, o_copy,
                       o_tracked,
                       o_server, o_snaps, o_subs, o_arb>>,
           o_books' \in [Tokens -> Nat], o_ready' \subseteq Tokens, o_legs' \in [Tokens -> Nat],
           BookLegs' \/ (UNCHANGED o_legs /\ (p = "store" => Books!Fresh)),
           p = "permit" /\ Books!Fresh => o_work'.legs \subseteq {o_work.conn},
           BookCalm => \A t \in (o_tracked \cap o_server) \ o_snaps :
               Kept(t)' \/ Carried(t)' \/ Asking(t)
    PROVE  BookInv'
<1>1. UNCHANGED Books!gapVars /\ o_work' \in BookWorks /\ o_snaps' \subseteq Tokens
        /\ (BookCalm' => BookCalm)
  BY DEF Books!gapVars, BookWorks, BookInv, BookTypeOK, BookCalm
<1>2. BookMessage'
  BY DEF BookInv, BookMessage
<1>3. BookArb'
  <2>1. Books!Fresh' => Books!Fresh
    BY DEF Books!Fresh, Books!Current
  <2> QED BY <2>1 DEF BookInv, BookArb
<1>4. BookLegs'
  <2>1. LegsResetAhead => LegsResetAhead'
    BY DEF LegsResetAhead, Clearing, OpenResets
  <2>2. Books!Fresh => o_work.conn = o_conn /\ o_active
    BY DEF Books!Fresh, Books!Current, BookInv, BookMessage
  <2> QED BY <2>1, <2>2 DEF BookInv, BookLegs, Clearing, Books!None
<1> QED BY <1>1, <1>2, <1>3, <1>4, BookWorkFrame

LEMMA BookDispatch == ASSUME BookInv, Books!Dispatch PROVE BookInv'
<1>1. /\ UNCHANGED <<o_link, o_gen, o_reports, o_pending, o_closing>> /\ UNCHANGED Books!gapVars
      /\ UNCHANGED <<o_owner, o_active, o_sgen, o_user, o_conn, o_inval, o_dark, o_copy, o_tracked,
                     o_server, o_subs, o_arb, o_books, o_ready, o_legs>>
      /\ o_work = Books!Idle /\ o_link = "up"
  BY DEF Books!Dispatch, Books!gapVars, Books!bookVars, Books!legVars, Books!lifeVars
<1>2. PICK t \in o_server :
         /\ o_work' = [pc |-> "begin", ws |-> o_gen, conn |-> o_conn, token |-> t,
                       snap |-> t \in o_snaps,
                       sgen |-> 0, legs |-> {}]
         /\ o_snaps' = o_snaps \ {t}
  BY DEF Books!Dispatch
<1>3. /\ o_gen \in Nat /\ o_conn \in Nat /\ t \in Tokens /\ o_snaps' \subseteq Tokens
      /\ o_books' \in [Tokens -> Nat] /\ o_legs' \in [Tokens -> Nat] /\ o_ready' \subseteq Tokens
  BY <1>1, <1>2 DEF BookInv, BookTypeOK
<1> DEFINE b == t \in o_snaps
           e == {}
<1>4. b \in BOOLEAN /\ e \in SUBSET Nat /\ (b <=> t \in o_snaps)
  OBVIOUS
<1>5. o_work' = [pc |-> "begin", ws |-> o_gen, conn |-> o_conn, token |-> t, snap |-> b, sgen |-> 0,
                 legs |-> e]
  BY <1>2
<1> HIDE DEF b, e
<1>6. /\ o_work' \in BookMessages /\ o_work'.pc = "begin" /\ o_work'.ws = o_gen
           /\ o_work'.conn = o_conn
      /\ o_work'.token = t /\ o_work'.snap = b
  BY <1>3, <1>4, <1>5 DEF BookMessages
<1>7. o_work' \in BookWorks
  BY <1>6 DEF BookWorks
<1>8. BookMessage' /\ BookArb'
  BY <1>1, <1>3, <1>6 DEF BookInv, BookMessage, BookArb
<1>9. BookLegs'
  <2>1. LegsResetAhead => LegsResetAhead'
    BY <1>1 DEF LegsResetAhead, Clearing, OpenResets
  <2> QED BY <1>1, <1>6, <2>1 DEF BookInv, BookLegs, Clearing, Books!None
<1>10. BookCalm' => \A u \in (o_tracked \cap o_server) \ o_snaps' :
           Kept(u)' \/ Carried(u)' \/ Asking(u)
  <2>1. SUFFICES ASSUME BookCalm', NEW u \in (o_tracked \cap o_server) \ o_snaps'
                 PROVE  Kept(u)' \/ Carried(u)' \/ Asking(u)
    OBVIOUS
  <2>2. BookCalm
    BY <1>1, <2>1 DEF BookCalm
  <2>3. CASE u \in o_snaps
    <3>1. u = t /\ b
      BY <1>2, <1>4, <2>1, <2>3
    <3>2. o_work'.snap
      BY <1>6, <3>1, Zenon
    <3> QED BY <1>1, <1>6, <3>1, <3>2 DEF Carried
  <2>4. CASE u \notin o_snaps
    <3>1. o_work.pc = "idle"
      BY <1>1, BookIdle
    <3>2. Kept(u) \/ Asking(u)
      BY <2>1, <2>2, <2>4, <3>1 DEF BookInv, BookSnapshots, Carried
    <3> QED BY <1>1, <3>2 DEF Kept
  <2> QED BY <2>3, <2>4
<1> QED BY <1>1, <1>3, <1>7, <1>8, <1>9, <1>10, BookWorkFrame

LEMMA BookHandleMessage == ASSUME BookInv, Books!HandleMessage PROVE BookInv'
<1>1. /\ UNCHANGED <<o_owner, o_active, o_sgen, o_user, o_conn, o_inval, o_dark, o_copy, o_tracked,
                     o_server, o_snaps, o_subs, o_arb, o_books, o_ready, o_legs>>
      /\ o_work.pc = "begin" /\ (Books!Request \/ UNCHANGED Books!gapVars)
  BY DEF Books!HandleMessage, Books!bookVars, Books!legVars, Books!subVars, Books!lifeVars
<1>2. /\ o_work \in BookMessages /\ o_work # Books!Idle /\ o_link # "off" /\ o_gen \in Nat
           /\ o_sgen \in Nat
      /\ o_books' \in [Tokens -> Nat] /\ o_legs' \in [Tokens -> Nat] /\ o_ready' \subseteq Tokens
      /\ o_snaps' \subseteq Tokens /\ o_arb'.legs \subseteq {o_arb'.conn}
  BY <1>1, BookIdle DEF BookInv, BookTypeOK, BookMessage, BookArb
<1>3. CASE ~Books!Current(o_sgen, o_work.ws) /\ o_work' = Books!Idle /\ UNCHANGED Books!gapVars
  <2>1. BookCalm' => BookCalm
    BY <1>1, <1>3 DEF BookCalm, Books!gapVars
  <2>2. BookCalm => \A t : ~Carried(t)
    BY <1>3 DEF BookCalm, Carried, Books!Current
  <2>3. \A t : Kept(t) => Kept(t)'
    BY <1>1 DEF Kept
  <2>4. BookCalm' => \A t \in (o_tracked \cap o_server) \ o_snaps : Kept(t)' \/ Asking(t)
    BY <2>1, <2>2, <2>3 DEF BookInv, BookSnapshots
  <2> QED BY <1>1, <1>2, <1>3, <2>4, BookWorkEnds
<1>4. CASE o_work' = Books!Idle /\ Books!Request
  <2>1. ~BookCalm'
    BY <1>2, <1>4, BookRequest DEF BookInv, BookCalm
  <2> QED BY <1>1, <1>2, <1>4, <2>1, BookWorkEnds
<1>5. CASE /\ Books!Current(o_sgen, o_work.ws) /\ o_work' = [o_work EXCEPT !.pc = "token",
                                                             !.sgen = o_sgen]
           /\ UNCHANGED Books!gapVars
  <2>1. /\ o_work' \in BookMessages /\ o_work'.pc = "token" /\ o_work'.sgen = o_sgen
        /\ o_work'.ws = o_work.ws /\ o_work'.conn = o_work.conn /\ o_work'.token = o_work.token
        /\ o_work'.snap = o_work.snap
    BY <1>2, <1>5 DEF BookMessages
  <2>2. o_work' \in BookWorks /\ UNCHANGED <<o_link, o_gen, o_reports, o_pending, o_closing>>
          /\ o_active
    BY <1>5, <2>1 DEF BookWorks, Books!gapVars, Books!Current
  <2>3. BookMessage' /\ BookArb'
    BY <1>1, <1>2, <2>1, <2>2 DEF BookInv, BookMessage, BookArb
  <2>4. BookLegs'
    <3>1. LegsResetAhead => LegsResetAhead'
      BY <1>1, <2>2 DEF LegsResetAhead, Clearing, OpenResets
    <3> QED BY <1>1, <2>1, <2>2, <3>1 DEF BookInv, BookLegs, Clearing, Books!None
  <2>5. BookCalm' => \A t \in (o_tracked \cap o_server) \ o_snaps' :
            Kept(t)' \/ Carried(t)' \/ Asking(t)
    <3>1. BookCalm' => BookCalm
      BY <1>1, <2>2 DEF BookCalm
    <3>2. \A t : (Kept(t) => Kept(t)') /\ (Carried(t) => Carried(t)')
      BY <1>1, <2>1, <2>2 DEF Kept, Carried
    <3> QED BY <1>1, <3>1, <3>2 DEF BookInv, BookSnapshots
  <2> QED BY <1>1, <1>2, <1>5, <2>2, <2>3, <2>4, <2>5, BookWorkFrame
<1> QED BY <1>3, <1>4, <1>5 DEF Books!HandleMessage

(* What the later steps of the worker have in common. *)
LEMMA BookWorking ==
    ASSUME BookInv,
           Books!FindToken \/ Books!ApplyEvent \/ Books!StoreLeg \/ Books!CheckArb
    PROVE  /\ UNCHANGED <<o_link, o_gen, o_reports, o_pending, o_closing>>
                /\ UNCHANGED Books!gapVars
           /\ UNCHANGED <<o_owner, o_active, o_sgen, o_user, o_conn, o_inval, o_dark, o_copy,
                          o_tracked,
                          o_server, o_snaps, o_subs>>
           /\ o_work \in BookMessages /\ o_work # Books!Idle /\ o_work.pc # "begin"
                /\ o_link # "off"
           /\ o_work.token \in Tokens /\ o_work.conn \in Nat
           /\ o_books \in [Tokens -> Nat] /\ o_legs \in [Tokens -> Nat] /\ o_ready \subseteq Tokens
           /\ o_arb.legs \subseteq {o_arb.conn} /\ (BookCalm' <=> BookCalm)
           /\ BookCalm => \A t \in (o_tracked \cap o_server) \ o_snaps :
                  Kept(t) \/ Carried(t) \/ Asking(t)
<1>1. /\ UNCHANGED <<o_link, o_gen, o_reports, o_pending, o_closing>> /\ UNCHANGED Books!gapVars
      /\ UNCHANGED <<o_owner, o_active, o_sgen, o_user, o_conn, o_inval, o_dark, o_copy, o_tracked,
                     o_server, o_snaps, o_subs>>
      /\ o_work.pc \in BookPcs \ {"begin"}
  BY DEF Books!FindToken, Books!ApplyEvent, Books!StoreLeg, Books!CheckArb, Books!gapVars,
     Books!subVars,
         Books!lifeVars, BookPcs
<1>2. o_work \in BookMessages /\ o_work # Books!Idle
  BY <1>1, BookIdle DEF BookInv, BookTypeOK, BookPcs
<1>3. o_link # "off" /\ o_work.token \in Tokens /\ o_work.conn \in Nat
  BY <1>2 DEF BookInv, BookMessage, BookMessages
<1>4. /\ o_books \in [Tokens -> Nat] /\ o_legs \in [Tokens -> Nat] /\ o_ready \subseteq Tokens
      /\ o_arb.legs \subseteq {o_arb.conn}
  BY DEF BookInv, BookTypeOK, BookArb
<1>5. BookCalm' <=> BookCalm
  BY <1>1 DEF BookCalm
<1> QED BY <1>1, <1>2, <1>3, <1>4, <1>5 DEF BookInv, BookSnapshots, BookPcs

LEMMA BookFindToken == ASSUME BookInv, Books!FindToken PROVE BookInv'
<1>1. /\ UNCHANGED <<o_link, o_gen, o_reports, o_pending, o_closing>> /\ UNCHANGED Books!gapVars
      /\ UNCHANGED <<o_owner, o_active, o_sgen, o_user, o_conn, o_inval, o_dark, o_copy, o_tracked,
                     o_server, o_snaps, o_subs>>
      /\ o_work \in BookMessages /\ o_work # Books!Idle /\ o_work.pc # "begin"
      /\ o_books \in [Tokens -> Nat] /\ o_legs \in [Tokens -> Nat] /\ o_ready \subseteq Tokens
      /\ o_arb.legs \subseteq {o_arb.conn} /\ (BookCalm' <=> BookCalm)
      /\ BookCalm => \A t \in (o_tracked \cap o_server) \ o_snaps :
             Kept(t) \/ Carried(t) \/ Asking(t)
  BY BookWorking
<1>2. o_work.pc = "token" /\ UNCHANGED <<o_books, o_ready, o_legs, o_arb>>
      /\ o_work' = IF Books!Fresh
           /\ o_work.token \in o_tracked THEN Books!Step("apply") ELSE Books!Idle
  BY DEF Books!FindToken, Books!bookVars, Books!legVars
<1>3. \A t : Kept(t) => Kept(t)'
  BY <1>1, <1>2 DEF Kept
<1>4. CASE o_work' = Books!Step("apply")
  <2>1. "apply" \in BookPcs
    BY DEF BookPcs
  <2>2. /\ o_work' \in BookMessages /\ o_work'.pc = "apply"
        /\ o_work'.ws = o_work.ws /\ o_work'.conn = o_work.conn /\ o_work'.token = o_work.token
        /\ o_work'.snap = o_work.snap /\ o_work'.sgen = o_work.sgen
    BY <1>1, <1>4, <2>1, BookStep
  <2>3. \A t : Carried(t) => Carried(t)'
    BY <1>1, <1>2, <2>2 DEF Carried
  <2>4. BookCalm => \A t \in (o_tracked \cap o_server) \ o_snaps :
            Kept(t)' \/ Carried(t)' \/ Asking(t)
    BY <1>1, <1>3, <2>3
  <2>5. o_books' \in [Tokens -> Nat] /\ o_legs' \in [Tokens -> Nat] /\ o_ready' \subseteq Tokens
    BY <1>1, <1>2
  <2> QED BY <1>1, <1>2, <2>1, <2>2, <2>4, <2>5, BookWorkAdvances
<1>5. CASE o_work' = Books!Idle /\ ~(Books!Fresh /\ o_work.token \in o_tracked)
  <2>1. BookCalm => \A t \in o_tracked : ~Carried(t)
    BY <1>2, <1>5 DEF BookCalm, Carried, Books!Fresh, Books!Current
  <2>2. BookCalm' => \A t \in (o_tracked \cap o_server) \ o_snaps : Kept(t)' \/ Asking(t)
    BY <1>1, <1>3, <2>1
  <2>3. /\ o_books' \in [Tokens -> Nat] /\ o_legs' \in [Tokens -> Nat] /\ o_ready' \subseteq Tokens
        /\ o_arb'.legs \subseteq {o_arb'.conn}
    BY <1>1, <1>2
  <2> QED BY <1>1, <1>2, <1>5, <2>2, <2>3, BookWorkEnds
<1> QED BY <1>2, <1>4, <1>5

LEMMA BookApplyEvent == ASSUME BookInv, Books!ApplyEvent PROVE BookInv'
<1>1. /\ UNCHANGED <<o_link, o_gen, o_reports, o_pending, o_closing>> /\ UNCHANGED Books!gapVars
      /\ UNCHANGED <<o_owner, o_active, o_sgen, o_user, o_conn, o_inval, o_dark, o_copy, o_tracked,
                     o_server, o_snaps, o_subs>>
      /\ o_work \in BookMessages /\ o_work # Books!Idle /\ o_work.pc # "begin"
      /\ o_work.token \in Tokens /\ o_work.conn \in Nat
      /\ o_books \in [Tokens -> Nat] /\ o_legs \in [Tokens -> Nat] /\ o_ready \subseteq Tokens
      /\ o_arb.legs \subseteq {o_arb.conn} /\ (BookCalm' <=> BookCalm)
      /\ BookCalm => \A t \in (o_tracked \cap o_server) \ o_snaps :
             Kept(t) \/ Carried(t) \/ Asking(t)
  BY BookWorking
<1>2. o_work.pc = "apply" /\ UNCHANGED <<o_legs, o_arb>>
  BY DEF Books!ApplyEvent, Books!legVars
<1>3. ASSUME /\ o_books' \in [Tokens -> Nat] /\ o_ready' \subseteq Tokens
             /\ o_work' = Books!Step("leg") \/ o_work' = Books!Idle
             /\ BookCalm => \A t \in (o_tracked \cap o_server) \ o_snaps : Kept(t)' \/ Asking(t)
      PROVE  BookInv'
  <2>1. o_legs' \in [Tokens -> Nat] /\ o_arb'.legs \subseteq {o_arb'.conn} /\ "leg" \in BookPcs
    BY <1>1, <1>2 DEF BookPcs
  <2>2. CASE o_work' = Books!Idle
    BY <1>1, <1>2, <1>3, <2>1, <2>2, BookWorkEnds
  <2>3. CASE o_work' = Books!Step("leg")
    <3>1. /\ o_work' \in BookMessages /\ o_work'.pc = "leg"
          /\ o_work'.ws = o_work.ws /\ o_work'.conn = o_work.conn /\ o_work'.sgen = o_work.sgen
      BY <1>1, <2>1, <2>3, BookStep
    <3>2. BookCalm => \A t \in (o_tracked \cap o_server) \ o_snaps :
              Kept(t)' \/ Carried(t)' \/ Asking(t)
      BY <1>3
    <3> QED BY <1>1, <1>2, <1>3, <2>1, <3>1, <3>2, BookWorkAdvances
  <2> QED BY <1>3, <2>2, <2>3
<1>4. CASE /\ o_work.snap \/ o_work.token \in o_ready
           /\ o_books' = [o_books EXCEPT ![o_work.token] = IF o_work.snap THEN o_work.conn ELSE @]
           /\ o_ready' = o_ready \cup {o_work.token}
           /\ o_work' = IF Books!Fresh THEN Books!Step("leg") ELSE Books!Idle
  <2> DEFINE k == o_work.token
             c == o_work.conn
             b == o_work.snap
  <2>1. k \in Tokens /\ c \in Nat /\ o_books' = [o_books EXCEPT ![k] = IF b THEN c ELSE @]
        /\ o_ready' = o_ready \cup {k}
    BY <1>1, <1>4
  <2>2. c # o_conn => o_server \subseteq o_snaps
    BY <1>1 DEF BookInv, BookMessage
  <2>3. \A t : Carried(t) => t = k /\ b /\ c = o_conn
    BY DEF Carried
  <2> HIDE DEF k, c, b
  <2>4. o_books' \in [Tokens -> Nat] /\ o_ready' \subseteq Tokens
    BY <1>1, <2>1
  <2>5. BookCalm => \A t \in (o_tracked \cap o_server) \ o_snaps : Kept(t)' \/ Asking(t)
    <3>1. SUFFICES ASSUME BookCalm, NEW t \in (o_tracked \cap o_server) \ o_snaps, Kept(t)
                     \/ Carried(t)
                   PROVE  Kept(t)'
      BY <1>1
    <3>2. c = o_conn /\ t \in Tokens /\ o_conn' = o_conn
      BY <1>1, <2>2, <3>1 DEF BookInv, BookTypeOK
    <3>3. CASE t = k /\ b
      BY <1>1, <2>1, <3>2, <3>3 DEF Kept
    <3>4. CASE Kept(t) /\ ~(t = k /\ b)
      BY <1>1, <2>1, <3>2, <3>4 DEF Kept
    <3> QED BY <2>3, <3>1, <3>3, <3>4
  <2> QED BY <1>3, <1>4, <2>4, <2>5
<1>5. CASE o_work' = Books!Idle /\ UNCHANGED <<o_books, o_ready>> /\ ~o_work.snap
  <2>1. \A t : ~Carried(t) /\ (Kept(t) => Kept(t)')
    BY <1>1, <1>5 DEF Carried, Kept
  <2> QED BY <1>1, <1>3, <1>5, <2>1
<1> QED BY <1>4, <1>5 DEF Books!ApplyEvent, Books!bookVars

LEMMA BookStoreLeg == ASSUME BookInv, Books!StoreLeg PROVE BookInv'
<1>1. /\ UNCHANGED <<o_link, o_gen, o_reports, o_pending, o_closing>> /\ UNCHANGED Books!gapVars
      /\ UNCHANGED <<o_owner, o_active, o_sgen, o_user, o_conn, o_inval, o_dark, o_copy, o_tracked,
                     o_server, o_snaps, o_subs>>
      /\ o_work \in BookMessages /\ o_work # Books!Idle /\ o_work.pc # "begin" /\ o_link # "off"
      /\ o_work.token \in Tokens /\ o_work.conn \in Nat
      /\ o_books \in [Tokens -> Nat] /\ o_legs \in [Tokens -> Nat] /\ o_ready \subseteq Tokens
      /\ o_arb.legs \subseteq {o_arb.conn} /\ (BookCalm' <=> BookCalm)
      /\ BookCalm => \A t \in (o_tracked \cap o_server) \ o_snaps :
             Kept(t) \/ Carried(t) \/ Asking(t)
  BY BookWorking
<1>2. UNCHANGED <<o_books, o_ready, o_arb>> /\ o_work.pc \in {"leg", "store"}
  BY DEF Books!StoreLeg, Books!bookVars
<1>3. BookCalm => \A t \in (o_tracked \cap o_server) \ o_snaps : Kept(t)' \/ Asking(t)
  BY <1>1, <1>2 DEF Kept, Carried
<1>4. /\ o_books' \in [Tokens -> Nat] /\ o_ready' \subseteq Tokens
           /\ o_arb'.legs \subseteq {o_arb'.conn}
      /\ "store" \in BookPcs /\ "callback" \in BookPcs
      /\ BookCalm => \A t \in (o_tracked \cap o_server) \ o_snaps :
             Kept(t)' \/ Carried(t)' \/ Asking(t)
  BY <1>1, <1>2, <1>3 DEF BookPcs
<1>5. CASE UNCHANGED o_legs /\ o_work' = Books!Idle
  BY <1>1, <1>3, <1>4, <1>5, BookWorkEnds
<1>6. CASE UNCHANGED o_legs /\ o_work' = Books!Step("store") /\ Books!Fresh
  <2>1. /\ o_work' \in BookMessages /\ o_work'.pc = "store"
        /\ o_work'.ws = o_work.ws /\ o_work'.conn = o_work.conn /\ o_work'.sgen = o_work.sgen
    BY <1>1, <1>4, <1>6, BookStep
  <2> QED BY <1>1, <1>2, <1>4, <1>6, <2>1, BookWorkAdvances
<1>7. CASE /\ o_work.pc = "store" /\ o_work' = Books!Step("callback")
           /\ o_legs' = [o_legs EXCEPT ![o_work.token] = o_work.conn]
  <2>1. /\ o_work' \in BookMessages /\ o_work'.pc = "callback"
        /\ o_work'.ws = o_work.ws /\ o_work'.conn = o_work.conn /\ o_work'.sgen = o_work.sgen
    BY <1>1, <1>4, <1>7, BookStep
  <2> DEFINE k == o_work.token
             c == o_work.conn
  <2>2. k \in Tokens /\ c \in Nat /\ o_legs' = [o_legs EXCEPT ![k] = c]
    BY <1>1, <1>7
  <2>3. c # o_conn => LegsResetAhead
    BY <1>7 DEF BookInv, BookLegs
  <2> HIDE DEF k, c
  <2>4. LegsResetAhead => LegsResetAhead'
    BY <1>1 DEF LegsResetAhead, Clearing, OpenResets
  <2>5. o_active' \/ Clearing'
    BY <1>1, <1>7 DEF BookInv, BookLegs, Clearing
  <2>6. o_legs' \in [Tokens -> Nat]
    BY <1>1, <2>2
  <2>7. (\E t \in Tokens : o_legs'[t] \notin {0, o_conn'}) => LegsResetAhead'
    BY <1>1, <2>2, <2>3, <2>4 DEF BookInv, BookLegs
  <2>8. BookLegs'
    BY <1>1, <2>1, <2>5, <2>7 DEF BookLegs
  <2> QED BY <1>1, <1>2, <1>4, <1>7, <2>1, <2>6, <2>8, BookWorkAdvances
<1> QED BY <1>2, <1>5, <1>6, <1>7 DEF Books!StoreLeg

LEMMA BookCheckArb == ASSUME BookInv, Books!CheckArb PROVE BookInv'
<1>1. /\ UNCHANGED <<o_link, o_gen, o_reports, o_pending, o_closing>> /\ UNCHANGED Books!gapVars
      /\ UNCHANGED <<o_owner, o_active, o_sgen, o_user, o_conn, o_inval, o_dark, o_copy, o_tracked,
                     o_server, o_snaps, o_subs>>
      /\ o_work \in BookMessages /\ o_work # Books!Idle /\ o_work.pc # "begin" /\ o_link # "off"
      /\ o_work.token \in Tokens /\ o_work.conn \in Nat
      /\ o_books \in [Tokens -> Nat] /\ o_legs \in [Tokens -> Nat] /\ o_ready \subseteq Tokens
      /\ o_arb.legs \subseteq {o_arb.conn} /\ (BookCalm' <=> BookCalm)
      /\ BookCalm => \A t \in (o_tracked \cap o_server) \ o_snaps :
             Kept(t) \/ Carried(t) \/ Asking(t)
  BY BookWorking
<1>2. UNCHANGED <<o_books, o_ready, o_legs>> /\ o_work.pc \in {"callback", "arb", "permit"}
  BY DEF Books!CheckArb, Books!bookVars, Books!legVars
<1>3. BookCalm => \A t \in (o_tracked \cap o_server) \ o_snaps : Kept(t)' \/ Asking(t)
  BY <1>1, <1>2 DEF Kept, Carried
<1>4. /\ o_books' \in [Tokens -> Nat] /\ o_ready' \subseteq Tokens /\ o_legs' \in [Tokens -> Nat]
      /\ "arb" \in BookPcs /\ "permit" \in BookPcs
      /\ BookCalm => \A t \in (o_tracked \cap o_server) \ o_snaps :
             Kept(t)' \/ Carried(t)' \/ Asking(t)
  BY <1>1, <1>2, <1>3 DEF BookPcs
<1>5. CASE o_work' = Books!Idle /\ UNCHANGED o_arb
  <2>1. o_arb'.legs \subseteq {o_arb'.conn}
    BY <1>1, <1>5
  <2> QED BY <1>1, <1>2, <1>3, <1>4, <1>5, <2>1, BookWorkEnds
<1>6. CASE o_work' = Books!Step("arb") /\ UNCHANGED o_arb
  <2>1. /\ o_work' \in BookMessages /\ o_work'.pc = "arb"
        /\ o_work'.ws = o_work.ws /\ o_work'.conn = o_work.conn /\ o_work'.sgen = o_work.sgen
    BY <1>1, <1>4, <1>6, BookStep
  <2> QED BY <1>1, <1>2, <1>4, <1>6, <2>1, BookWorkAdvances
<1>7. CASE /\ \A t \in Tokens : o_legs[t] # 0
           /\ o_work' = [o_work EXCEPT !.pc = "permit", !.legs = {o_legs[t] : t \in Tokens}]
           /\ UNCHANGED o_arb
  <2> DEFINE l == {o_legs[t] : t \in Tokens}
  <2>1. l \in SUBSET Nat /\ o_work' = [o_work EXCEPT !.pc = "permit", !.legs = l]
    BY <1>1, <1>7
  <2>2. Books!Fresh => l \subseteq {o_work.conn}
    <3>1. Books!Fresh => o_work.conn = o_conn /\ o_link = "up" /\ o_active /\ o_owner
      BY <1>1 DEF Books!Fresh, Books!Current, BookInv, BookMessage
    <3>2. o_active /\ o_owner /\ o_link = "up" => ~LegsResetAhead
      BY DEF LegsResetAhead, OpenResets, BookInv, BookLife
    <3> QED BY <1>7, <3>1, <3>2 DEF BookInv, BookLegs
  <2> HIDE DEF l
  <2>3. /\ o_work' \in BookMessages /\ o_work'.pc = "permit" /\ o_work'.legs = l
        /\ o_work'.ws = o_work.ws /\ o_work'.conn = o_work.conn /\ o_work'.sgen = o_work.sgen
    BY <1>1, <2>1 DEF BookMessages
  <2> QED BY <1>1, <1>2, <1>4, <1>7, <2>2, <2>3, BookWorkAdvances
<1>8. CASE /\ o_work.pc = "permit" /\ o_work' = Books!Idle
           /\ o_arb' = IF Books!Fresh THEN [legs |-> o_work.legs, conn |-> o_work.conn] ELSE o_arb
  <2>1. o_arb'.legs \subseteq {o_arb'.conn}
    BY <1>1, <1>8 DEF BookInv, BookArb
  <2> QED BY <1>1, <1>2, <1>3, <1>4, <1>8, <2>1, BookWorkEnds
<1> QED BY <1>5, <1>6, <1>7, <1>8 DEF Books!CheckArb

-----------------------------------------------------------------------------
LEMMA BookNext == ASSUME BookInv, Books!Next \/ UNCHANGED o_vars PROVE BookInv'
<1>1. CASE UNCHANGED o_vars
  BY <1>1 DEF o_vars, BookInv, BookTypeOK, BookLife, BookMessage, BookLegs, BookArb, BookSnapshots,
     Clearing,
              OpenResets, LegsResetAhead, BookCalm, Kept, Carried, Asking, Books!Fresh,
              Books!Current, Books!None
<1>2. \A t \in Tokens : {t} \in SUBSET Tokens
  OBVIOUS
<1>3. Tokens \in SUBSET Tokens
  OBVIOUS
<1>4. ASSUME Books!Unsubscribe \/ Books!UnsubscribeAll PROVE BookInv'
  BY <1>2, <1>3, <1>4, BookUntrack DEF Books!Unsubscribe, Books!UnsubscribeAll
<1> QED BY <1>1, <1>4, BookCallConnect, BookCallDisconnect, BookConnecting, BookDeactivate,
           BookSubscribe,
           BookSendUpdate, BookEraseBooks, BookGapReports, BookTransport, BookDispatch,
           BookHandleMessage,
           BookFindToken, BookApplyEvent, BookStoreLeg, BookCheckArb
        DEF Books!Next, Books!UserStep, Books!SubsStep, Books!WorkStep

LEMMA BookInit == ASSUME Books!InitState PROVE BookInv
<1>1. /\ o_link = "off" /\ o_gen = 0 /\ o_reports = {} /\ o_owner /\ ~o_active /\ o_sgen = 0
           /\ o_conn = 0
      /\ o_books = Books!None /\ o_ready = {} /\ o_legs = Books!None
      /\ o_tracked = {} /\ o_copy = {} /\ o_server = {} /\ o_snaps = {}
      /\ o_user = "idle" /\ o_subs = Books!Idle /\ o_work = Books!Idle
      /\ o_arb = [legs |-> {}, conn |-> 0]
  BY DEF Books!InitState, Books!GapInit
<1>2. o_work.pc = "idle" /\ o_subs.pc = "idle" /\ o_arb.legs = {}
  BY <1>1, BookIdle
<1>3. BookTypeOK
  BY <1>1, NoLegs, BookIdle DEF BookTypeOK
<1>4. BookLife /\ BookMessage /\ BookSnapshots
  BY <1>1, <1>2 DEF BookLife, BookMessage, BookSnapshots, BookCalm, Clearing
<1>5. BookLegs /\ BookArb
  BY <1>1, <1>2, NoLegs DEF BookLegs, BookArb
<1> QED BY <1>3, <1>4, <1>5 DEF BookInv

LEMMA BookSafe == ASSUME BookInv PROVE BooksOfOneConnection
<1>1. Books!NoStaleLeg
  <2>1. SUFFICES ASSUME Books!Quiet
                 PROVE  \A t \in Tokens : o_legs[t] \in {0, o_conn} /\ (~o_active => o_legs[t] = 0)
    BY DEF Books!NoStaleLeg
  <2>2. ~LegsResetAhead /\ ~Clearing
    BY <2>1 DEF Books!Quiet, LegsResetAhead, OpenResets, Clearing
  <2> QED BY <2>2, NoLegs DEF BookInv, BookLegs
<1>2. Books!ArbFromOneConnection
  BY DEF BookInv, BookArb, Books!ArbFromOneConnection
<1>3. Books!SnapshotKept
  <2>1. SUFFICES ASSUME Books!Quiet, o_active, o_link = "up", ~o_dark
                 PROVE  \A t \in (o_tracked \cap o_server) \ o_snaps :
                     t \in o_ready /\ o_books[t] = o_conn
    BY DEF Books!SnapshotKept
  <2>2. o_work.pc = "idle" /\ o_subs.pc = "idle"
    BY <2>1, BookIdle DEF Books!Quiet
  <2>3. BookCalm
    BY <2>1 DEF Books!Quiet, BookCalm, BookInv, BookLife
  <2> QED BY <2>2, <2>3 DEF BookInv, BookSnapshots, Kept, Carried, Asking
<1> QED BY <1>1, <1>2, <1>3 DEF BooksOfOneConnection

(* Once nothing is under way no ask in a market is of an earlier connection, an arbitrage
   callback compares legs of the connection its permit names, and every subscribed token
   whose snapshot was sent has its book: the property BooksOfOneConnection, of
   OrderbookRuntime. *)
THEOREM BooksStayOfOneConnection == Spec => []BooksOfOneConnection
<1>1. Init => BookInv
  BY BookInit DEF Init
<1>2. BookInv /\ [Next]_allVars => BookInv'
  BY StepOfOne, BookNext
<1>3. BookInv => BooksOfOneConnection
  BY BookSafe
<1> QED BY <1>1, <1>2, <1>3, PTL DEF Spec
=============================================================================
