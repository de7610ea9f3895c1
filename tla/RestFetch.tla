------------------------------ MODULE RestFetch -------------------------------
(***************************************************************************)
(* One mapped query of a GenericRestAdapter (generic_rest/adapter.py and   *)
(* _http.py) on the wire: the pages of an observation series are requested *)
(* in turn, a server error is tried again, and all the while the source    *)
(* takes in new observations and the session may be closed by another      *)
(* coroutine or belong to another event loop.                              *)
(*                                                                         *)
(* The observations of the source are 1..n, by age.  Values, units and     *)
(* transforms are left out; see RestQueries for what a payload becomes.    *)
(***************************************************************************)
EXTENDS Integers, Sequences, FiniteSetsExt, SequencesExt

CONSTANTS
    PageSize,       \* observations asked for at a time (at most 100)
    MaxPages,       \* pages asked for (1000)
    MaxRetries,     \* how often a request is repeated (3)
    Sources,        \* the sources of an instance, records of the fields below
    MaxRecords      \* bound: observations of the source

VARIABLES
    source,     \* newest: newest first; counts: it tells its total;
                \* cap: observations it puts on a page at most; n
    session,    \* "open", "foreign" (closed or of another loop) or "none"
    fetch       \* the query

vars == <<source, session, fetch>>

Untold == -1
Idle == [pc |-> "idle", kind |-> "series", page |-> 1, attempt |-> 0, records |-> <<>>,
         total |-> Untold, began |-> 0, code |-> ""]

\* What the source puts on a page now.
Page(p) ==
    LET size == Min({PageSize, source.cap})
        at(i) == IF source.newest THEN source.n + 1 - i ELSE i
    IN  [i \in 1..Max({0, Min({size, source.n - (p - 1) * size})}) |-> at((p - 1) * size + i)]

Told == IF source.counts THEN source.n ELSE Untold

Init ==
    /\ source \in Sources
    /\ session \in {"open", "foreign", "none"}
    /\ fetch = Idle

\* A query of a whole period, of its latest observation, or of a mapped value
\* that is no series.
Call ==
    /\ fetch.pc = "idle"
    /\ \E kind \in {"series", "latest", "value"} :
          fetch' = IF session = "none" THEN [Idle EXCEPT !.pc = "failed", !.code = "not_connected"]
                   ELSE [Idle EXCEPT !.pc = "request", !.kind = kind]
    /\ UNCHANGED <<source, session>>

\* A mutant of More: without a total, a full page ends the series.
MoreThanFull(records, total, count, page) ==
    /\ page < MaxPages
    /\ IF total # Untold THEN Len(records) < total ELSE count > PageSize

\* Whether another page is asked for, after `records` and a last page of `count`.
More(records, total, count, page) ==
    /\ page < MaxPages
    /\ IF total # Untold THEN Len(records) < total ELSE count >= PageSize

\* The pages end with an empty page too.
Received ==
    LET first == fetch.page = 1
        page == Page(fetch.page)
        records == fetch.records \o page
        total == IF fetch.total = Untold THEN Told ELSE fetch.total
        more == More(records, total, Len(page), fetch.page) /\ (first \/ page # <<>>)
    IN  IF fetch.kind = "latest"
        THEN [fetch EXCEPT !.pc = "done", !.records = IF source.n = 0 THEN <<>> ELSE <<source.n>>,
                           !.total = Told, !.began = source.n]
        ELSE [fetch EXCEPT !.pc = IF more THEN "request" ELSE "done",
                           !.records = records, !.total = IF page = <<>> /\ ~first THEN @ ELSE total,
                           !.page = IF more THEN @ + 1 ELSE @, !.attempt = 0,
                           !.began = IF first THEN source.n ELSE @]

\* A payload without records is taken as a value at first, and ends the series
\* without a word later on.
Malformed == IF fetch.page = 1 THEN [fetch EXCEPT !.pc = "value"]
             ELSE [fetch EXCEPT !.pc = "done", !.code = "malformed"]

\* A session of another loop is replaced.
Refreshed == IF session = "foreign" THEN "open" ELSE session

\* What an answer other than a 2xx with JSON, or none, becomes; 500 and above are
\* "server".
Errors == {"auth", "not_found", "unexpected", "connection", "timeout", "invalid", "server"}

\* _fetch: a session that is gone fails the query, as every error does but a
\* server error with retries left.
Request ==
    /\ fetch.pc = "request"
    /\ session' = Refreshed
    /\ \/ session = "none" /\ fetch' = [fetch EXCEPT !.pc = "failed", !.code = "not_connected"]
       \/ session # "none" /\ fetch.kind = "value" /\ fetch' = [fetch EXCEPT !.pc = "value"]
       \/ session # "none" /\ fetch.kind # "value" /\ fetch' \in {Received, Malformed}
       \/ session # "none" /\ \E code \in Errors : fetch' = [fetch EXCEPT !.code = code,
             !.pc = IF code = "server" /\ fetch.attempt < MaxRetries THEN "backoff" ELSE "failed"]
    /\ UNCHANGED source

\* A mutant of Retry: the attempt is not counted.
RetryForever ==
    /\ fetch.pc = "backoff"
    /\ fetch' = [fetch EXCEPT !.pc = "request", !.code = ""]
    /\ UNCHANGED <<source, session>>

\* _retry_fetch sleeps and repeats the same request.
Retry ==
    /\ fetch.pc = "backoff"
    /\ fetch' = [fetch EXCEPT !.pc = "request", !.attempt = @ + 1, !.code = ""]
    /\ UNCHANGED <<source, session>>

Observe ==
    /\ source.n < MaxRecords /\ fetch.pc \in {"request", "backoff"}
    /\ source' = [source EXCEPT !.n = @ + 1]
    /\ UNCHANGED <<session, fetch>>

\* shutdown() of the adapter, or the end of the loop the session belongs to.
Disconnect ==
    /\ fetch.pc \in {"request", "backoff"} /\ session = "open"
    /\ session' \in {"none", "foreign"}
    /\ UNCHANGED <<source, fetch>>

Next == Call \/ Request \/ Retry \/ Observe \/ Disconnect

\* The request, the sleep and the call are steps of one coroutine of a running loop.
Fairness == WF_vars(Call) /\ WF_vars(Request) /\ WF_vars(Retry)

Spec == Init /\ [][Next]_vars /\ Fairness

----------------------------------------------------------------------------
(* What the answer says of the period.                                     *)

Coverage ==
    IF fetch.records = <<>> THEN "no_data"
    ELSE IF fetch.total > Len(fetch.records) THEN "partial" ELSE "complete"

\* A source the paging is made for: it counts its observations, or fills its pages
\* and has no more of them than the adapter asks for and no page without any; and either it adds what is
\* new at the end or nothing new came.
Pageable ==
    /\ \/ source.counts
       \/ source.cap >= PageSize /\ source.n <= MaxPages * PageSize /\ fetch.code # "malformed"
    /\ ~source.newest \/ source.n = fetch.began

----------------------------------------------------------------------------

\* An answer that calls itself complete holds every observation the source had
\* when the query began, and none of them twice, whatever was tried again.
PagesAddUp ==
    (fetch.pc = "done" /\ fetch.kind = "series" /\ Coverage = "complete" /\ Pageable) =>
        /\ IsInjective(fetch.records)
        /\ 1..fetch.began \subseteq {fetch.records[i] : i \in 1..Len(fetch.records)}

\* A query ends, with an answer or an error, however often the server fails.
QueryEnds == <>(fetch.pc \in {"done", "value", "failed"})
=============================================================================
