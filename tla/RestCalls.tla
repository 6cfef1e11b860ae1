------------------------------- MODULE RestCalls -------------------------------
(***************************************************************************)
(* One thread's REST calls, from the checks that run before anything is    *)
(* sent, through the retries of a rate-limited read, to what the caller    *)
(* gets back; another thread changes the retry policy and the rate-limit   *)
(* listener meanwhile.  The calls themselves are the rows of RestEndpoints.*)
(* Sources: rate_limit_internal.hpp, rate_limit.cpp, clob_rate_limit.cpp,  *)
(* sdk_error.cpp, rest_paging.hpp and the clients.                         *)
(***************************************************************************)
EXTENDS RestEndpoints, Integers, Sequences, FiniteSets, Functions

CONSTANTS Waits,     \* what a 429 may ask for, in ticks; Unsaid is a 429 without it
          LongMax,   \* the largest number of milliseconds long long holds, in ticks
          Policies,  \* the RateLimitRetry values a program sets: [retries, max_delay]
          MaxTime,   \* a response in flight later than this has arrived
          Budgets    \* the bounds on calls, updates, 429s and faults, one record per history

VARIABLES call,      \* the call under way, or the last one
          policy,    \* rate_limit_retry_, NoPolicy for nullopt
          listener,  \* whether a rate_limit_listener_ is set
          auth,      \* none, signer (order_signer_) or full (api_creds_ too)
          cache,     \* the tokens whose metadata remember_market_metadata stored
          now,       \* the time since the call began
          budget

vars == <<call, policy, listener, auth, cache, now, budget>>

Unsaid == -1
NoPolicy == [retries |-> 0, max_delay |-> -1]
NoDeadline == 99

Ids == {1, 2}
NoId == 0
Garbage == <<[id |-> 3, good |-> FALSE]>>    \* a body that is not the JSON the endpoint promises

\* The bodies of two items at most, an item being an id and whether its
\* parser takes it.
Items == [id : Ids, good : BOOLEAN]
Bodies == {<<>>, Garbage} \cup {<<i>> : i \in Items}
            \cup {<<i, j>> : i \in [id : {1}, good : BOOLEAN], j \in Items}

Statuses == {"ok", "limited", "denied", "absent", "refused", "mismatch", "broken", "lost"}

Asked(e) ==
  CASE e.checks \in {"some", "distinct"} \/ e.shape \in {"confirmed", "each"} ->
         {<<>>, <<1>>, <<1, 1>>, <<1, 2>>, <<NoId>>}
    [] OTHER -> {<<1>>, <<NoId>>}

NoCall == [e |-> get_price, asked |-> <<1>>, step |-> "idle", retry |-> 0,
           policy |-> NoPolicy, deadline |-> 0, until |-> 0, signed |-> 0, sent |-> 0,
           sends |-> 0, second |-> FALSE, wait |-> Unsaid, status |-> "ok",
           body |-> <<>>, told |-> 0, result |-> <<>>, code |-> "none"]

\* A client that its user has configured and not called yet.
InitState ==
  /\ call = NoCall
  /\ policy \in Policies \cup {NoPolicy}
  /\ listener = FALSE
  /\ auth \in {"none", "signer", "full"}
  /\ cache = {}
  /\ now = 0

Init == InitState /\ budget \in Budgets

Spend(field) == budget[field] > 0 /\ budget' = [budget EXCEPT ![field] = @ - 1]

-------------------------------------------------------------------------------
\* Configuration, from another thread.

set_rate_limit_retry(p) ==
  /\ Spend("updates") /\ p # policy
  /\ policy' = p
  /\ UNCHANGED <<call, listener, auth, cache, now>>

set_rate_limit_listener ==
  /\ Spend("updates")
  /\ listener' = ~listener
  /\ UNCHANGED <<call, policy, auth, cache, now>>

-------------------------------------------------------------------------------
\* Before the request.

Authorised(e) ==
  \/ e.auth = "none"
  \/ e.auth = "signer" /\ auth # "none"
  \/ e.auth \in {"result", "throws"} /\ auth = "full"

Rejected(e, asked) ==
  CASE e.checks = "never" -> FALSE
    [] e.checks \in {"id", "range"} -> asked = <<NoId>>
    [] e.checks = "some" -> asked = <<>>
    [] e.checks = "distinct" ->
         asked = <<>> \/ NoId \in Range(asked) \/ ~IsInjective(asked)

\* make_sdk_error, make_auth_error, make_parse_error and the argument errors.
Error(code) ==
  [code |-> code, retryable |-> code \in {"http_transport", "rate_limit", "server"}]

MakeSdkError(e, status) ==
  Error(CASE status = "lost" -> "http_transport"
          [] status = "mismatch" /\ e.shape = "placed" -> "deposit_wallet_setup"
          [] status = "denied" -> "auth"
          [] status = "limited" -> "rate_limit"
          [] status = "broken" -> "server"
          [] OTHER -> "api_response")

\* The call returns and its locals are gone.
Return(c) ==
  [c EXCEPT !.step = "idle", !.retry = 0, !.policy = NoPolicy, !.deadline = 0,
            !.until = 0, !.signed = 0, !.sent = 0, !.wait = Unsaid]

\* What the caller gets when the call fails with `error`.
Failure(c, error) ==
  [Return(c) EXCEPT !.code = error.code,
     !.result = IF c.e.fails = "each" THEN [i \in DOMAIN c.asked |-> NoId] ELSE <<>>]

\* A call starts: its checks, and for read() the policy it will keep.
Ask(e, asked, deadline) ==
  LET c == [NoCall EXCEPT !.e = e, !.asked = asked, !.deadline = deadline,
              !.policy = IF e.retried THEN policy ELSE NoPolicy]
  IN /\ call.step = "idle"
     /\ Spend("calls")
     /\ call' = IF Rejected(e, asked) THEN Failure(c, Error("invalid_argument"))
                ELSE IF ~Authorised(e) THEN Failure(c, Error("auth"))
                ELSE [c EXCEPT !.step = "send"]
     /\ UNCHANGED <<policy, listener, auth, cache, now>>

-------------------------------------------------------------------------------
\* The request and its retries.

\* attempt(): the headers are built, and so signed, inside it.
Send ==
  /\ call.step = "send"
  /\ call' = [call EXCEPT !.step = "flight", !.sends = @ + 1, !.sent = now, !.signed = now]
  /\ UNCHANGED <<policy, listener, auth, cache, now, budget>>

\* The server answers; an answer other than 200 is a fault or a limit.
Respond(status, body, wait) ==
  /\ call.step = "flight"
  /\ status # "ok" => body = <<>>
  /\ status # "limited" => wait = Unsaid
  /\ IF status = "ok" THEN UNCHANGED budget
     ELSE Spend(IF status = "limited" THEN "limits" ELSE "faults")
  /\ call' = [call EXCEPT !.step = "answered", !.status = status, !.body = body, !.wait = wait]
  /\ UNCHANGED <<policy, listener, auth, cache, now>>

\* rate_limit_delay.  ceil(seconds * 1000) does not fit the cast when the body
\* asks for more than long long holds; x86-64 yields its least value then and
\* arm64 its greatest.
RateLimitDelay(wait) ==
  IF wait = Unsaid THEN {1} ELSE IF wait <= LongMax THEN {wait} ELSE {-LongMax - 1, LongMax}

\* Mutant: the delay alone is compared with the policy.
RetriesPastDeadline(c, delay) ==
  c.status = "limited" /\ c.retry < c.policy.retries /\ delay <= c.policy.max_delay

\* The conditions of retry_rate_limited, all of which must hold.
Retries(c, delay) ==
  /\ c.status = "limited"
  /\ c.retry < c.policy.retries
  /\ delay <= c.policy.max_delay
  /\ now + delay <= c.deadline

Sleep ==
  /\ call.step = "answered"
  /\ \E delay \in RateLimitDelay(call.wait) :
       /\ Retries(call, delay)
       /\ call' = [call EXCEPT !.step = "sleep", !.until = now + delay]
  /\ UNCHANGED <<policy, listener, auth, cache, now, budget>>

Wake ==
  /\ call.step = "sleep" /\ now >= call.until
  /\ call' = [call EXCEPT !.step = "send", !.retry = @ + 1]
  /\ UNCHANGED <<policy, listener, auth, cache, now, budget>>

\* Time passes while the thread sleeps or waits for the server.
Tick ==
  /\ \/ call.step = "sleep" /\ now < call.until
     \/ call.step = "flight" /\ now < MaxTime
  /\ now' = now + 1
  /\ UNCHANGED <<call, policy, listener, auth, cache, budget>>

-------------------------------------------------------------------------------
\* The answer.

Good(body) == \A i \in DOMAIN body : body[i].good
IdsOf(body) == [i \in DOMAIN body |-> body[i].id]
Named(body) == Range(IdsOf(body))
Bad == <<-1>>    \* the parser throws

\* Reads the list up to the first item that throws, and keeps what it has.
GoodPrefix(body) ==
  LET bad == {i \in DOMAIN body : ~body[i].good}
  IN IdsOf(IF bad = {} THEN body ELSE SubSeq(body, 1, (CHOOSE i \in bad : \A j \in bad : i <= j) - 1))

\* confirms_cancellations and confirms_bulk_cancellation: an item is a
\* cancelled order when it is good and a refusal otherwise.
Confirmed(body, expected) ==
  IF Good(body) /\ Range(expected) \subseteq Named(body) THEN <<1>> ELSE Bad

\* What the caller gets from a body, by the endpoint's shape.
Read(shape, asked, body) ==
  IF shape \in {"ok", "raw"} THEN <<1>> ELSE IF body = Garbage THEN Bad ELSE
  CASE shape \in {"one", "key", "either", "placed", "profile"} ->
         IF Len(body) = 1 /\ Good(body) THEN IdsOf(body) ELSE Bad
    [] shape \in {"own", "book"} ->
         IF Len(body) = 1 /\ Good(body) /\ IdsOf(body) = asked THEN asked ELSE Bad
    [] shape = "list" -> IF Good(body) THEN IdsOf(body) ELSE Bad
    [] shape = "valid" -> IdsOf(SelectSeq(body, LAMBDA i : i.good))
    [] shape = "partial" -> GoodPrefix(body)
    [] shape = "find" ->
         IF Good(body) THEN SelectSeq(asked, LAMBDA id : id \in Named(body)) ELSE Bad
    [] shape = "asked" ->
         IF \E i \in DOMAIN body : body[i].id \in Range(asked) /\ ~body[i].good THEN Bad
         ELSE SelectSeq(asked, LAMBDA id : id \in Named(body))
    [] shape = "books" ->
         IF Good(body) /\ Len(body) = Len(asked) /\ Named(body) = Range(asked)
         THEN IdsOf(body) ELSE Bad
    [] shape = "scored" ->
         IF Good(body) /\ Len(body) = Cardinality(Range(asked)) /\ Named(body) = Range(asked)
         THEN asked ELSE Bad
    [] shape = "each" ->
         IF Len(body) # Len(asked) THEN Bad
         ELSE [i \in DOMAIN asked |-> IF body[i].good THEN asked[i] ELSE NoId]
    [] shape = "confirmed" -> Confirmed(body, asked)
    [] shape = "bulk" -> Confirmed(body, <<>>)

\* A JSON object names a key once.
Fits(e, body) ==
  e.shape \in {"asked", "scored", "confirmed", "bulk"} /\ body # Garbage => IsInjective(IdsOf(body))

\* notify_rate_limit, whose listener cannot change the outcome, whatever it throws.
Told(c) == IF listener /\ c.e.bucket # "none" THEN c.told + 1 ELSE c.told

\* create_or_derive_api_credentials: when derive throws, create is tried.
TriesCreate(c) == c.e.shape = "either" /\ ~c.second

\* Mutant: each book is remembered as it is read.
RememberEarly(c) ==
  IF c.e.shape \in {"book", "books"} /\ c.status = "ok" /\ c.body # Garbage
  THEN cache \cup Named(c.body) ELSE cache

\* remember_market_metadata, once the whole answer has been accepted.
Remember(c) ==
  IF c.e.shape \in {"book", "books"} /\ c.result # <<>> THEN cache \cup Range(c.result) ELSE cache

\* The rest of the call, once read() has returned its last response.
Finish ==
  LET c == [call EXCEPT !.told = Told(call)]
      items == Read(c.e.shape, c.asked, c.body)
      done == IF c.status = "absent" /\ c.e.shape = "profile" THEN Return(c)
              ELSE IF c.status # "ok" THEN Failure(c, MakeSdkError(c.e, c.status))
              ELSE IF items = Bad THEN Failure(c, Error("parse"))
              ELSE [Return(c) EXCEPT !.result = items]
  IN /\ call.step = "answered"
     /\ \E delay \in RateLimitDelay(call.wait) : ~Retries(call, delay)
     /\ call' = IF done.code # "none" /\ TriesCreate(c)
                THEN [c EXCEPT !.step = "send", !.second = TRUE] ELSE done
     /\ auth' = IF c.e.shape \in {"key", "either"} /\ call'.step = "idle" /\ call'.code = "none"
                THEN "full" ELSE auth
     /\ cache' = Remember(call')
     /\ now' = 0
     /\ UNCHANGED <<policy, listener, budget>>

Next ==
  \/ \E p \in Policies \cup {NoPolicy} : set_rate_limit_retry(p)
  \/ set_rate_limit_listener
  \/ \E e \in Endpoints : \E asked \in Asked(e) :
       \E d \in (IF e.shape = "find" THEN {1, NoDeadline} ELSE {NoDeadline}) :
         Ask(e, asked, d)
  \/ Send
  \/ \E status \in Statuses, body \in Bodies, wait \in Waits \cup {Unsaid} :
       Fits(call.e, body) /\ Respond(status, body, wait)
  \/ Sleep \/ Wake \/ Tick \/ Finish

\* The server answers the request in flight.
Answered == \E body \in Bodies : Fits(call.e, body) /\ Respond("ok", body, Unsaid)

\* The thread runs, the server answers or the transport times out (CURLOPT_TIMEOUT_MS),
\* and the clock moves.
Fairness ==
  /\ WF_vars(Send) /\ WF_vars(Wake) /\ WF_vars(Tick)
  /\ WF_vars(Sleep \/ Finish)
  /\ WF_vars(Answered)

Spec == Init /\ [][Next]_vars /\ Fairness

-------------------------------------------------------------------------------
\* A request that goes out as a write is sent once per attempt the code makes at
\* it, whatever the server answers and whatever the retry policy is: a
\* cancellation, an order or a key is never sent again after a 429
\* (docs/migration.md:42: "Writes are not retried.").  Creating a key after a
\* failed derivation is the one second request.  (update_balance_allowance, a GET
\* through read(), is a read here.)
MutationsSentOnce ==
  call.e \in Mutations => call.sends <= IF call.second THEN 2 ELSE 1

\* A read retries as often as the policy in force when it began allows, never
\* sleeps longer than its max_delay, and is never still asleep after its own
\* deadline, although set_rate_limit_retry changes the policy while it sleeps.
RetriesWithinPolicy ==
  /\ call.retry <= call.policy.retries
  /\ call.step = "sleep" =>
       /\ call.until - now <= call.policy.max_delay
       /\ call.until <= call.deadline

\* A retry is not sent before the delay the server asked for has passed, for
\* every delay that long long holds (see the README for the ones it does not).
ServerDelayKept ==
  [][call.step = "send" /\ call.retry > 0 /\ call.wait <= LongMax /\ call'.step = "flight"
       => now >= call.sent + (IF call.wait = Unsaid THEN 1 ELSE call.wait)]_vars

\* Every attempt is signed at the time it is sent: a retry never repeats the
\* timestamp of the request that was rejected.
FreshSignature == call.step = "flight" => call.signed = call.sent

\* Metadata reaches the cache only from an answer that was accepted as a whole
\* and handed to the caller: a batch of books with a wrong or missing one
\* leaves nothing behind.
CacheFromAcceptedBooks ==
  [][cache' # cache =>
       /\ call'.step = "idle" /\ call'.code = "none"
       /\ cache' \ cache \subseteq Range(call'.result) \cap Range(call'.asked)]_vars

\* A cancellation of named orders is reported as done only when the server
\* listed every one of them as cancelled and none as refused.
CancelsConfirmed ==
  call.step = "idle" /\ call.e.shape = "confirmed" /\ call.result # <<>> =>
    /\ call.status = "ok" /\ call.body # Garbage
    /\ Range(call.asked) \subseteq {call.body[i].id : i \in {j \in DOMAIN call.body : call.body[j].good}}
    /\ \A i \in DOMAIN call.body : call.body[i].good
===============================================================================
