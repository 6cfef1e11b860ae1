------------------------------ MODULE HttpGlobal ------------------------------
(***************************************************************************)
(* The process-wide libcurl state and the HttpClient objects that pin it   *)
(* (src/src/http_global.cpp, src/src/http_client.cpp).  curl_global_init   *)
(* runs with the first reference and curl_global_cleanup with the last;    *)
(* a client takes its reference when it is constructed and gives it back   *)
(* when it is destroyed, moved over, or fails to construct.  Threads build,*)
(* move and destroy clients of their own, and any of them may set or clear *)
(* the manual pin.  Every function of http_global.cpp is one locked step.  *)
(***************************************************************************)
EXTENDS Naturals, FiniteSets

CONSTANTS Slots,     \* thread |-> the client objects that thread owns
          Budgets    \* the bounds on calls and faults, one record per history

VARIABLES client,       \* client |-> whether it exists, its curl_ and global_acquired_
          refs,         \* client_references
          manual,       \* manual_reference
          initialized,  \* curl_global_init has run
          op,           \* thread |-> the rest of the call it is in
          budget

vars == <<client, refs, manual, initialized, op, budget>>

Owners == DOMAIN Slots
Objects == UNION {Slots[t] : t \in Owners}
Gone == [built |-> FALSE, curl |-> FALSE, acquired |-> FALSE]
Empty == [Gone EXCEPT !.built = TRUE]

Idle == [step |-> "idle", of |-> "none"]

InitState ==
  /\ client = [c \in Objects |-> Gone]
  /\ refs = 0
  /\ manual = FALSE
  /\ initialized = FALSE
  /\ op = [t \in Owners |-> Idle]

Init == InitState /\ budget \in Budgets

Call == budget.calls > 0 /\ budget' = [budget EXCEPT !.calls = @ - 1]
Fault == budget.faults > 0 /\ budget' = [budget EXCEPT !.faults = @ - 1]

Then(t, step, c) == op' = [op EXCEPT ![t] = [step |-> step, of |-> c]]

-------------------------------------------------------------------------------
\* The registry.

\* cleanup_if_unused_locked, with the values the caller leaves behind.
CleanupIfUnused(r, m) == initialized' = (initialized /\ (m \/ r # 0))

\* acquire_http_global; the caller has already paid for the call.
Acquire == refs' = refs + 1 /\ initialized' = TRUE /\ UNCHANGED manual

\* release_http_global.
Release ==
  /\ refs' = IF refs = 0 THEN 0 ELSE refs - 1
  /\ IF refs = 0 THEN UNCHANGED initialized ELSE CleanupIfUnused(refs - 1, manual)
  /\ UNCHANGED manual

\* http_global_init and http_global_cleanup.
ManualInit ==
  /\ Call
  /\ manual' = TRUE
  /\ initialized' = TRUE
  /\ UNCHANGED <<client, refs, op>>

ManualCleanup ==
  /\ Call
  /\ manual' = FALSE
  /\ IF manual THEN CleanupIfUnused(refs, FALSE) ELSE UNCHANGED initialized
  /\ UNCHANGED <<client, refs, op>>

-------------------------------------------------------------------------------
\* The clients.

\* The constructor up to acquire_http_global; when curl_global_init fails
\* nothing has changed and the constructor throws.
Construct(t, c) ==
  /\ op[t] = Idle /\ client[c] = Gone
  /\ \/ Call /\ Acquire /\ Then(t, "init", c)
        /\ client' = [client EXCEPT ![c] = [Empty EXCEPT !.acquired = TRUE]]
     \/ ~initialized /\ Fault /\ UNCHANGED <<client, refs, manual, initialized, op>>

\* init() and, when curl_easy_init fails, the catch block, which cleans up
\* before it releases.
InitHandle(t) ==
  /\ op[t].step = "init"
  /\ \/ /\ client' = [client EXCEPT ![op[t].of].curl = TRUE]
        /\ op' = [op EXCEPT ![t] = Idle]
        /\ UNCHANGED budget
     \/ /\ Fault
        /\ client' = [client EXCEPT ![op[t].of] = Gone]
        /\ Then(t, "release", op[t].of)
  /\ UNCHANGED <<refs, manual, initialized>>

\* The destructor: cleanup(), then the reference when the client holds one.
Destroy(t, c) ==
  /\ op[t] = Idle /\ client[c] # Gone
  /\ Call
  /\ client' = [client EXCEPT ![c] = Gone]
  /\ IF client[c].acquired THEN Then(t, "release", c) ELSE UNCHANGED op
  /\ UNCHANGED <<refs, manual, initialized>>

\* The release_http_global that ends a destructor, a failed constructor or a
\* move assignment.
GiveBack(t) ==
  /\ op[t].step = "release"
  /\ Release
  /\ op' = [op EXCEPT ![t] = Idle]
  /\ UNCHANGED <<client, budget>>

\* HttpClient(HttpClient &&).
MoveConstruct(t, from, to) ==
  /\ op[t] = Idle /\ client[from] # Gone /\ client[to] = Gone
  /\ Call
  /\ client' = [client EXCEPT ![to] = client[from], ![from] = Empty]
  /\ UNCHANGED <<refs, manual, initialized, op>>

\* operator=(HttpClient &&): the handle this client had is cleaned up under
\* the lock, its reference is given back after the unlock.
MoveAssign(t, from, to) ==
  /\ op[t] = Idle /\ client[from] # Gone /\ client[to] # Gone /\ from # to
  /\ Call
  /\ client' = [client EXCEPT ![to] = client[from], ![from] = Empty]
  /\ IF client[to].acquired THEN Then(t, "release", to) ELSE UNCHANGED op
  /\ UNCHANGED <<refs, manual, initialized>>

Next ==
  \/ ManualInit \/ ManualCleanup
  \/ \E t \in Owners :
       \/ InitHandle(t) \/ GiveBack(t)
       \/ \E c \in Slots[t] :
            \/ Construct(t, c) \/ Destroy(t, c)
            \/ \E d \in Slots[t] : MoveConstruct(t, c, d) \/ MoveAssign(t, c, d)

Spec == Init /\ [][Next]_vars

-------------------------------------------------------------------------------
\* A handle lives only while libcurl is initialized: no sequence of moves,
\* failed constructions and destructions on two threads cleans libcurl up
\* under a client that still has its curl_.
HandleNeedsGlobal == (\E c \in Objects : client[c].curl) => initialized

\* When no call is under way, every reference belongs to a client that will
\* give it back, and libcurl is cleaned up exactly when nothing pins it.
NoReferenceLeaks ==
  (\A t \in Owners : op[t] = Idle) =>
    /\ refs = Cardinality({c \in Objects : client[c].acquired})
    /\ initialized = (manual \/ refs > 0)
===============================================================================
