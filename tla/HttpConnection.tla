---------------------------- MODULE HttpConnection ----------------------------
(***************************************************************************)
(* One HttpClient shared by request threads and its heartbeat thread       *)
(* (src/src/http_client_request.cpp, src/src/http_client_connection.cpp).  *)
(* They share one curl handle, whose options outlive a request, under the  *)
(* recursive curl_mutex_.  The heartbeat borrows the handle between        *)
(* requests with options of its own: a bounded timeout and a progress      *)
(* callback that aborts it when a request is waiting.                      *)
(***************************************************************************)
EXTENDS Integers

CONSTANTS Callers,     \* the request threads
          Timeouts,    \* values of options_.timeout_ms; 0 is no timeout
          Budgets      \* the bound on calls, one record per history

VARIABLES configured,  \* options_.timeout_ms
          curl,        \* the options of the handle: timeout, progress, verb, custom
          headers,     \* headers_: "base" or the caller's temporary list
          lock,        \* owner of curl_mutex_
          waiters,     \* foreground_waiters_
          caller,      \* thread |-> where its request is, and what it asked for
          running,     \* heartbeat_running_
          hb,          \* where the heartbeat thread is
          stopping,    \* the owner of the client is in stop_heartbeat
          budget

vars == <<configured, curl, headers, lock, waiters, caller, running, hb, stopping, budget>>

heartbeat_timeout_ms == 75
Free == "free"
Rest == [at |-> "idle", verb |-> "GET", headers |-> "base"]

InitState ==
  /\ configured \in Timeouts
  /\ curl = [timeout |-> configured, progress |-> FALSE, verb |-> "GET", custom |-> FALSE]
  /\ headers = "base"
  /\ lock = Free
  /\ waiters = 0
  /\ caller = [t \in Callers |-> Rest]
  /\ running = FALSE
  /\ hb = "none"
  /\ stopping = FALSE

Init == InitState /\ budget \in Budgets

Call == budget.calls > 0 /\ budget' = [budget EXCEPT !.calls = @ - 1]

\* What the server sees of the options.
Sent == IF curl.custom THEN "DELETE" ELSE curl.verb

-------------------------------------------------------------------------------
\* Requests.

\* ForegroundWaiter: its constructor adds one, acquired() takes it off.
Announce(n) == waiters' = waiters + n

\* get, post and del announce themselves before they wait for the mutex
\* (ForegroundWaiter).
Ask(t, verb, list) ==
  /\ Call
  /\ caller[t].at = "idle"
  /\ caller' = [caller EXCEPT ![t] = [at |-> "waiting", verb |-> verb, headers |-> list]]
  /\ Announce(1)
  /\ UNCHANGED <<configured, curl, headers, lock, running, hb, stopping>>

\* The options a request sets before it performs.  A POST or DELETE body makes
\* libcurl's verb POST, and DELETE goes out as the custom verb.
Options(verb) ==
  [curl EXCEPT !.verb = IF verb = "GET" THEN "GET" ELSE "POST",
               !.custom = @ \/ verb = "DELETE"]

\* The lock is taken, the temporary headers are in place, curl_easy_perform
\* runs.  The nested plain request of the form with custom headers takes the
\* recursive mutex again and changes nothing more.
Perform(t) ==
  /\ caller[t].at = "waiting" /\ lock = Free
  /\ lock' = t
  /\ Announce(-1)
  /\ headers' = caller[t].headers
  /\ curl' = Options(caller[t].verb)
  /\ caller' = [caller EXCEPT ![t].at = "performing"]
  /\ UNCHANGED <<configured, running, hb, stopping, budget>>

\* The response is there, or the transfer failed: the verb and the headers are
\* put back and the mutex is released.
Done(t) ==
  /\ caller[t].at = "performing"
  /\ curl' = [curl EXCEPT !.verb = "GET", !.custom = FALSE]
  /\ headers' = "base"
  /\ lock' = Free
  /\ caller' = [caller EXCEPT ![t] = Rest]
  /\ UNCHANGED <<configured, waiters, running, hb, stopping, budget>>

\* warm_connection takes the mutex before its get announces itself.
Warm(t) ==
  /\ Call
  /\ caller[t].at = "idle" /\ lock = Free
  /\ lock' = t
  /\ curl' = Options("GET")
  /\ caller' = [caller EXCEPT ![t] = [Rest EXCEPT !.at = "performing"]]
  /\ UNCHANGED <<configured, headers, waiters, running, hb, stopping>>

\* configure and set_timeout_ms.
Configure(timeout) ==
  /\ Call
  /\ lock = Free
  /\ configured' = timeout
  /\ curl' = [curl EXCEPT !.timeout = timeout]
  /\ UNCHANGED <<headers, lock, waiters, caller, running, hb, stopping>>

-------------------------------------------------------------------------------
\* The heartbeat.

StartHeartbeat ==
  /\ Call
  /\ ~running /\ hb = "none" /\ ~stopping
  /\ running' = TRUE
  /\ hb' = "sleeping"
  /\ UNCHANGED <<configured, curl, headers, lock, waiters, caller, stopping>>

StopHeartbeat ==
  /\ Call
  /\ ~stopping
  /\ running' = FALSE
  /\ stopping' = TRUE
  /\ UNCHANGED <<configured, curl, headers, lock, waiters, caller, hb>>

\* The join of stop_heartbeat.
Joined ==
  /\ stopping /\ hb = "none"
  /\ stopping' = FALSE
  /\ UNCHANGED <<configured, curl, headers, lock, waiters, caller, running, hb, budget>>

\* The interval is over, or the flag has fallen; heartbeat_once looks for
\* waiting requests before it tries the lock.
Wake ==
  /\ hb = "sleeping"
  /\ hb' = IF ~running THEN "none" ELSE IF waiters > 0 THEN "sleeping" ELSE "trying"
  /\ UNCHANGED <<configured, curl, headers, lock, waiters, caller, running, stopping, budget>>

Bounded ==
  IF configured > 0 /\ configured < heartbeat_timeout_ms THEN configured
  ELSE heartbeat_timeout_ms

\* The try_lock, the second look at the waiters, and the options of the beat.
Beat ==
  /\ hb = "trying"
  /\ IF lock # Free \/ waiters > 0
     THEN hb' = "sleeping" /\ UNCHANGED <<curl, lock>>
     ELSE /\ hb' = "performing" /\ lock' = "heartbeat"
          /\ curl' = [curl EXCEPT !.timeout = Bounded, !.progress = TRUE, !.verb = "GET"]
  /\ UNCHANGED <<configured, headers, waiters, caller, running, stopping, budget>>

\* Mutant: the beat leaves its timeout on the handle.
BeatKeepsTimeout ==
  /\ hb = "performing"
  /\ hb' = "sleeping"
  /\ lock' = Free
  /\ curl' = [curl EXCEPT !.progress = FALSE]
  /\ UNCHANGED <<configured, headers, waiters, caller, running, stopping, budget>>

\* The beat ends, answered, timed out or aborted by heartbeat_progress, and
\* HeartbeatOptionReset restores the handle before the unlock.
BeatEnds ==
  /\ hb = "performing"
  /\ hb' = "sleeping"
  /\ lock' = Free
  /\ curl' = [curl EXCEPT !.timeout = configured, !.progress = FALSE]
  /\ UNCHANGED <<configured, headers, waiters, caller, running, stopping, budget>>

Next ==
  \/ \E t \in Callers :
       \/ \E verb \in {"GET", "POST", "DELETE"}, list \in {"base", "custom"} : Ask(t, verb, list)
       \/ Perform(t) \/ Done(t) \/ Warm(t)
  \/ \E timeout \in Timeouts : Configure(timeout)
  \/ StartHeartbeat \/ StopHeartbeat \/ Joined \/ Wake \/ Beat \/ BeatEnds

\* Every thread keeps running; the mutex is not fair, and a beat ends because
\* its timeout is bounded.
Fairness ==
  /\ \A t \in Callers : WF_vars(Perform(t)) /\ WF_vars(Done(t))
  /\ WF_vars(Wake) /\ WF_vars(Beat) /\ WF_vars(BeatEnds) /\ WF_vars(Joined)

Spec == Init /\ [][Next]_vars /\ Fairness

-------------------------------------------------------------------------------
\* Whatever ran on the handle before, a request goes out with the verb and the
\* headers it was asked for, the configured timeout and no progress callback
\* that could abort it; a beat always has a timeout of at most 75 ms.
RequestsAsConfigured ==
  /\ \A t \in Callers : caller[t].at = "performing" =>
       /\ lock = t
       /\ Sent = caller[t].verb /\ headers = caller[t].headers
       /\ curl.timeout = configured /\ ~curl.progress
  /\ hb = "performing" =>
       /\ Sent = "GET" /\ headers = "base"
       /\ curl.timeout \in 1 .. heartbeat_timeout_ms
===============================================================================
