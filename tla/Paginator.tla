------------------------------- MODULE Paginator -------------------------------
(***************************************************************************)
(* Paginator<T> (include/polymarket/pagination.hpp) over a server with     *)
(* `total' items, numbered from 1.  The four strategies differ in what     *)
(* names a page: an opaque cursor, a keyset cursor that is absent for the  *)
(* first page, an offset, a page number.  A caller pulls pages, or iterates*)
(* over items through the buffer, and may at any time throw the paginator  *)
(* away and resume a new one from its token.  The server may fail, send an *)
(* empty page, or name a cursor it has named before.                       *)
(*                                                                         *)
(* The cursor <<n, k>> names the page that starts after the first n items; *)
(* k tells cursors of the same place apart.                                *)
(***************************************************************************)
EXTENDS Naturals, Sequences

CONSTANTS Totals,      \* how many items the server may hold
          Limits,      \* page sizes
          MaxOffset,   \* the offset the server rejects pages after
          MaxPages,    \* OpaqueCursorPagination::max_pages
          Budgets      \* bounds on resumes and faults

VARIABLES total,    \* items of the server
          pager,    \* the Paginator
          buffer,   \* buffer_ from buffer_index_ on
          filling,  \* fill_buffer is looking for a page that is not empty
          iterates, \* the caller iterates over items instead of pulling pages
          got,      \* history: the items the caller has had
          requests, \* history: pages this paginator has requested, up to MaxPages + 1
          looped,   \* history: a resume followed a cursor cycle
          budget

vars == <<total, pager, buffer, filling, iterates, got, requests, looped, budget>>

Start == <<0, 0>>
End == <<"end">>

-------------------------------------------------------------------------------
\* The factories.  A token holds what PageRequest holds.
FirstToken(limit) ==
  [cursor |-> Start, absent |-> TRUE, offset |-> 0, page |-> 0, limit |-> limit, exhausted |-> FALSE]

Resumed(kind, token) ==
  [kind |-> kind, limit |-> token.limit,
   cursor |-> IF kind = "keyset" /\ token.absent THEN Start ELSE token.cursor,
   first |-> kind = "keyset" /\ token.absent,
   offset |-> token.offset,
   page |-> IF token.page = 0 THEN 1 ELSE token.page,
   started |-> 0, seen |-> {}, error |-> "none",
   truncated |-> kind = "offset" /\ token.offset > MaxOffset,
   done |-> \/ kind \in {"keyset", "numbered"} /\ token.exhausted
            \/ kind = "offset" /\ token.offset > MaxOffset]

\* resume_token.  An exhausted keyset cursor is empty, like that of a first page,
\* and `exhausted' tells them apart.
Token(p) ==
  [cursor |-> p.cursor, absent |-> p.first \/ p.cursor = End, offset |-> p.offset, page |-> p.page,
   limit |-> p.limit, exhausted |-> p.done /\ p.error = "none"]

-------------------------------------------------------------------------------
\* The server: the items after n, and what follows them.
ItemsAfter(n, limit) ==
  [i \in 1 .. (IF n >= total THEN 0 ELSE IF n + limit > total THEN total - n ELSE limit) |-> n + i]

NextAfter(n, limit) == IF n + limit >= total THEN End ELSE <<n + limit, 0>>

-------------------------------------------------------------------------------
\* One call of next_page, as the set of its outcomes: the paginator after it,
\* the items it returned, whether it sent a request and whether it cost a fault.
Outcome(p, items, sent, fault) == [pager |-> p, items |-> items, sent |-> sent, fault |-> fault]
Fails(p, why) == [p EXCEPT !.error = why]

\* OpaqueCursorPagination::advance; a cursor seen before is reported by the next
\* call, this page is still returned.
Advance(p, next) ==
  IF next = End THEN [p EXCEPT !.cursor = End, !.done = TRUE]
  ELSE IF next \in p.seen THEN Fails(p, "cycle")
  ELSE [p EXCEPT !.cursor = next]

\* begin_page: the paginator is done, has failed, or may request its page.
BeginPage(p) ==
  IF ~p.first /\ p.cursor = End THEN [p EXCEPT !.done = TRUE]
  ELSE IF p.started >= MaxPages THEN Fails(p, "pages")
  ELSE IF ~p.first /\ p.cursor \in p.seen THEN Fails(p, "cycle")
  ELSE [p EXCEPT !.first = FALSE, !.started = @ + 1,
                 !.seen = IF p.first THEN @ ELSE @ \cup {p.cursor}]

NextCursorPage(p) ==
  LET q == BeginPage(p)
      n == p.cursor[1]
  IN IF q.done \/ q.error # "none" THEN {Outcome(q, <<>>, FALSE, FALSE)}
     ELSE {Outcome(Advance(q, NextAfter(n, p.limit)), ItemsAfter(n, p.limit), TRUE, FALSE),
           Outcome(Advance(q, <<n, p.cursor[2] + 1>>), <<>>, TRUE, TRUE),
           Outcome(Fails(q, "fetch"), <<>>, TRUE, TRUE)}
          \cup {Outcome(Advance(q, c), ItemsAfter(n, p.limit), TRUE, TRUE) : c \in q.seen}

\* Mutant: the cap is compared with the offset of the page that was just read.
OffsetPageCapLate(p, items) ==
  LET counted == Len(items)
  IN [p EXCEPT !.offset = @ + counted,
               !.done = counted < p.limit \/ p.offset >= MaxOffset,
               !.truncated = counted = p.limit /\ p.offset > MaxOffset]

\* The end of next_offset_page: a short page is the last one, a full page whose
\* successor would start past the cap is reported as truncated.
OffsetPage(p, items) ==
  LET counted == Len(items)
      capped == counted = p.limit /\ MaxOffset - p.offset < p.limit
  IN [p EXCEPT !.offset = @ + counted,
               !.done = counted < p.limit \/ capped,
               !.truncated = capped]

\* A page that counts more than its limit fails like a failed request.
NextOffsetPage(p) ==
  LET items == ItemsAfter(p.offset, p.limit)
  IN {Outcome(OffsetPage(p, items), items, TRUE, FALSE),
      Outcome(Fails(p, "fetch"), <<>>, TRUE, TRUE)}

NextNumberedPage(p) ==
  LET n == (p.page - 1) * p.limit
      q == [p EXCEPT !.started = @ + 1]
  IN IF p.started >= MaxPages THEN {Outcome(Fails(p, "pages"), <<>>, FALSE, FALSE)}
     ELSE {Outcome([q EXCEPT !.page = @ + 1, !.done = NextAfter(n, p.limit) = End],
                   ItemsAfter(n, p.limit), TRUE, FALSE),
           Outcome(Fails(q, "fetch"), <<>>, TRUE, TRUE)}

NextPage(p) ==
  CASE p.kind = "offset" -> NextOffsetPage(p)
    [] p.kind = "numbered" -> NextNumberedPage(p)
    [] OTHER -> NextCursorPage(p)

Over(p) == p.done \/ p.error # "none"

\* next_page until it says that it is over; a page goes to `use'.
Pull(use(_)) ==
  /\ ~Over(pager)
  /\ \E o \in NextPage(pager) :
       /\ o.fault => budget.faults > 0
       /\ budget' = IF o.fault THEN [budget EXCEPT !.faults = @ - 1] ELSE budget
       /\ pager' = o.pager
       /\ requests' = IF o.sent /\ requests <= MaxPages THEN requests + 1 ELSE requests
       /\ use(o.items)

-------------------------------------------------------------------------------
InitState ==
  /\ total \in Totals
  /\ \E kind \in {"cursor", "keyset", "offset", "numbered"}, limit \in Limits :
       pager = Resumed(kind, FirstToken(limit))
  /\ buffer = <<>> /\ filling = FALSE
  /\ iterates \in BOOLEAN
  /\ got = <<>> /\ requests = 0 /\ looped = FALSE

Init == InitState /\ budget \in Budgets

\* next_page and collect.
Page ==
  /\ ~iterates
  /\ Pull(LAMBDA items : got' = got \o items)
  /\ UNCHANGED <<total, buffer, filling, iterates, looped>>

\* begin() and operator++ look for the next page that holds an item.
FillBuffer ==
  /\ iterates /\ buffer = <<>>
  /\ Pull(LAMBDA items : buffer' = items /\ filling' = (items = <<>>))
  /\ UNCHANGED <<total, iterates, got, looped>>

\* The loop body is through with an item.  A break leaves it in the buffer.
Consume ==
  /\ iterates /\ buffer # <<>>
  /\ got' = Append(got, Head(buffer))
  /\ buffer' = Tail(buffer)
  /\ UNCHANGED <<total, pager, filling, iterates, requests, looped, budget>>

\* A new paginator from the token of the old one, which points past the page
\* last fetched; an iterating caller has emptied its buffer.
Resume ==
  /\ budget.calls > 0 /\ budget' = [budget EXCEPT !.calls = @ - 1]
  /\ buffer = <<>>
  /\ pager' = Resumed(pager.kind, Token(pager))
  /\ requests' = 0
  /\ filling' = FALSE
  /\ looped' = (looped \/ pager.error = "cycle")
  /\ UNCHANGED <<total, buffer, iterates, got>>

Next == Page \/ FillBuffer \/ Consume \/ Resume

Fairness == WF_vars(Page) /\ WF_vars(FillBuffer) /\ WF_vars(Consume)

Spec == Init /\ [][Next]_vars /\ Fairness

-------------------------------------------------------------------------------
\* The caller gets every item once and in order, whatever fails or repeats and
\* however often it resumes; only a token taken after a cursor cycle names a page
\* the caller has had.
ItemsInOrder == looped \/ got \o buffer = [i \in 1 .. Len(got) + Len(buffer) |-> i]

\* A paginator that ends without an error and without truncated() has returned
\* everything; a truncated one has read as far as the cap allows.
CompleteOrTold ==
  pager.done /\ pager.error = "none" /\ ~looped /\ buffer = <<>> =>
    IF pager.truncated THEN Len(got) > MaxOffset - pager.limit /\ Len(got) > 0
    ELSE Len(got) = total

\* No server can make a cursor or numbered paginator send more than max_pages
\* requests.
RequestsBounded == pager.kind # "offset" => requests <= MaxPages
===============================================================================
