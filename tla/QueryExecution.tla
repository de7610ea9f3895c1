--------------------------- MODULE QueryExecution ---------------------------
(***************************************************************************)
(* How a QueryDispatcher (query_dispatcher.py) runs adapter calls: threads *)
(* hand coroutines to one worker thread and wait for a bounded time, and   *)
(* batches share a small cache of recent values that the threads and the   *)
(* worker both touch without a lock.                                       *)
(*                                                                         *)
(* A batch is a sequence of keys (metric, asset and period).  A value is   *)
(* the key and the adapter generation it was fetched for, and when.  The   *)
(* interpreter switches threads between any two operations on the cache.   *)
(***************************************************************************)
EXTENDS Integers, Sequences, FiniteSetsExt, SequencesExt

CONSTANTS
    Callers,        \* threads that ask
    Batches,        \* the batches they may ask, sequences of keys
    Unsupported,    \* the keys of energy per unit at a meter that only has total energy
    MaxCache,       \* entries the cache holds (256)
    Ttl,            \* age up to which an entry is used (30 s)
    CallTimeout,    \* how long a caller waits for the worker (60 s)
    MaxTime,        \* bound: the clock
    MaxSwaps,       \* bound: calls of set_adapter
    MaxAsks         \* bound: batches asked

VARIABLES
    adapter,    \* the generation of the adapter in use
    cache,      \* _batch_kpi_cache, values in order of use
    call,       \* per caller: its batch, where it is, its results
    jobs,       \* the executor's jobs not begun, and the one that runs
    closing,    \* the stage of shutdown(), and when its wait ends
    now,        \* the clock
    raced       \* callers whose lookup another thread's step came into

vars == <<adapter, cache, call, jobs, closing, now, raced>>

Nothing == [key |-> "none", gen |-> 0, at |-> 0]
Quiet == [id |-> 0, batch |-> <<>>, pc |-> "idle", i |-> 1, asked |-> 0,
          missing |-> <<>>, results |-> <<>>, due |-> 0]
NoJob == [kind |-> "none", by |-> "none", id |-> 0, batch |-> <<>>, todo |-> <<>>, got |-> <<>>, gen |-> 0]
\* What shutdown() hands to the executor.
Job(kind) == [NoJob EXCEPT !.kind = kind]

Entries(k) == {n \in 1..Len(cache) : cache[n].key = k}
Place(k) == CHOOSE n \in Entries(k) : TRUE
Entry(k) == cache[Place(k)]
Without(k) == IF Entries(k) = {} THEN cache ELSE RemoveAt(cache, Place(k))
\* The oldest entries beyond the capacity go.
Evicted(s) == SubSeq(s, Max({1, Len(s) - MaxCache + 1}), Len(s))

\* What _ensure_metric_supported_for_asset raises on.
Refused(b) == \E i \in 1..Len(b) : b[i] \in Unsupported

\* Callers whose lookup is between finding an entry and moving it.
Disturbed(self) == {c \in Callers \ {self} : call[c].pc = "touch"}

Init ==
    /\ adapter = 0 /\ cache = <<>> /\ now = 0 /\ raced = {}
    /\ call = [c \in Callers |-> Quiet]
    /\ jobs = [queue |-> <<>>, run |-> NoJob]
    /\ closing = [stage |-> "up", due |-> 0]

----------------------------------------------------------------------------
(* get_kpis_batch, in the thread of the caller.                            *)

\* A key that is not supported fails the whole batch before the cache is read.
Ask(c) ==
    /\ call[c].pc \in {"idle", "done", "late", "error", "refused"} /\ MapThenSumSet(LAMBDA d : call[d].id, Callers) < MaxAsks
    /\ \E b \in Batches : call' = [call EXCEPT ![c] = [Quiet EXCEPT
          !.id = call[c].id + 1, !.batch = b, !.pc = IF Refused(b) THEN "refused" ELSE "look",
          !.asked = now, !.results = [i \in 1..Len(b) |-> Nothing]]]
    /\ raced' = raced \ {c}
    /\ UNCHANGED <<adapter, cache, jobs, closing, now>>

\* An entry that is too old is dropped, and its key fetched like an absent one.
Look(c) ==
    LET r == call[c] k == r.batch[r.i]
        fresh == Entries(k) # {} /\ r.asked - Entry(k).at <= Ttl IN
    /\ r.pc = "look" /\ r.i <= Len(r.batch)
    /\ IF fresh
       THEN /\ call' = [call EXCEPT ![c].pc = "touch", ![c].results[r.i] = Entry(k)]
            /\ UNCHANGED <<cache, raced>>
       ELSE /\ call' = [call EXCEPT ![c].i = @ + 1, ![c].missing = Append(@, r.i)]
            /\ cache' = Without(k)
            /\ raced' = IF Entries(k) # {} THEN raced \cup Disturbed(c) ELSE raced
    /\ UNCHANGED <<adapter, jobs, closing, now>>

\* A mutant of Touch: the caller fails whenever the entry is not the youngest.
TouchYoungest(c) ==
    LET r == call[c] k == r.batch[r.i] IN
    /\ r.pc = "touch"
    /\ IF Entries(k) # {Len(cache)}
       THEN call' = [call EXCEPT ![c].pc = "error"] /\ UNCHANGED cache
       ELSE call' = [call EXCEPT ![c].pc = "look", ![c].i = @ + 1] /\ UNCHANGED cache
    /\ UNCHANGED <<adapter, jobs, closing, now, raced>>

\* move_to_end raises a KeyError, and the whole batch fails, if the key is gone.
Touch(c) ==
    LET r == call[c] k == r.batch[r.i] IN
    /\ r.pc = "touch"
    /\ \/ /\ Entries(k) = {}
          /\ call' = [call EXCEPT ![c].pc = "error"] /\ UNCHANGED cache
       \/ /\ Entries(k) # {}
          /\ call' = [call EXCEPT ![c].pc = "look", ![c].i = @ + 1]
          /\ cache' = Append(Without(k), Entry(k))
    /\ UNCHANGED <<adapter, jobs, closing, now, raced>>

\* _run_async: the batch is handed to the executor, which takes nothing more
\* once it is shut down.
Submit(c) ==
    LET r == call[c] open == closing.stage \notin {"join", "down"} IN
    /\ r.pc = "look" /\ r.i > Len(r.batch)
    /\ call' = [call EXCEPT
          ![c].pc = IF r.missing = <<>> THEN "done" ELSE IF open THEN "wait" ELSE "error",
          ![c].due = now + CallTimeout]
    /\ jobs' = IF r.missing = <<>> \/ ~open THEN jobs
               ELSE [jobs EXCEPT !.queue = Append(@, [Job("batch") EXCEPT
                        !.by = c, !.id = r.id, !.batch = r.batch, !.todo = r.missing,
                        !.got = r.results])]
    /\ UNCHANGED <<adapter, cache, closing, now, raced>>

\* future.result(timeout) gives up; the job stays queued, or goes on running.
GiveUp(c) ==
    /\ call[c].pc = "wait" /\ now >= call[c].due
    /\ call' = [call EXCEPT ![c].pc = "late"]
    /\ UNCHANGED <<adapter, cache, jobs, closing, now, raced>>

----------------------------------------------------------------------------
(* The worker thread and its event loop.                                   *)

Begin ==
    /\ jobs.run = NoJob /\ jobs.queue # <<>>
    /\ jobs' = [queue |-> Tail(jobs.queue), run |-> [Head(jobs.queue) EXCEPT !.gen = adapter]]
    /\ UNCHANGED <<adapter, cache, call, closing, now, raced>>

\* A mutant of Fetch: the value is put at the first place of the batch.
FetchFirst ==
    LET j == jobs.run v == [key |-> j.batch[1], gen |-> j.gen, at |-> now] IN
    /\ j.todo # <<>>
    /\ cache' = Evicted(Append(Without(v.key), v))
    /\ jobs' = [jobs EXCEPT !.run.got[Head(j.todo)] = v, !.run.todo = Tail(@), !.run.gen = adapter]
    /\ UNCHANGED <<adapter, call, closing, now, raced>>

\* The awaited value comes, or the call raises; the next key of the batch is
\* asked of the adapter then in use.
Fetch ==
    LET j == jobs.run i == Head(j.todo) v == [key |-> j.batch[i], gen |-> j.gen, at |-> now]
        kept == Append(Without(v.key), v) IN
    /\ j.todo # <<>>
    /\ \/ /\ cache' = Evicted(kept)
          /\ raced' = IF Len(kept) > MaxCache THEN raced \cup Disturbed("worker") ELSE raced
          /\ jobs' = [jobs EXCEPT !.run.got[i] = v, !.run.todo = Tail(@), !.run.gen = adapter]
       \/ /\ jobs' = [jobs EXCEPT !.run.todo = Tail(@), !.run.gen = adapter]
          /\ UNCHANGED <<cache, raced>>
    /\ UNCHANGED <<adapter, call, closing, now>>

\* The job ends; its caller, if it still waits for this one, has its results.
Finish ==
    LET j == jobs.run IN
    /\ j # NoJob /\ j.todo = <<>>
    /\ jobs' = [jobs EXCEPT !.run = NoJob]
    /\ call' = [c \in Callers |->
          IF j.by = c /\ j.id = call[c].id /\ call[c].pc = "wait"
          THEN [call[c] EXCEPT !.pc = "done", !.results = j.got] ELSE call[c]]
    /\ UNCHANGED <<adapter, cache, closing, now, raced>>

----------------------------------------------------------------------------
(* set_adapter, shutdown and the clock.                                    *)

SetAdapter ==
    /\ adapter < MaxSwaps /\ closing.stage = "up"
    /\ adapter' = adapter + 1
    /\ cache' = <<>>
    /\ raced' = raced \cup Disturbed("none")
    /\ UNCHANGED <<call, jobs, closing, now>>

\* shutdown() queues the adapter's shutdown and waits for it as a caller does,
\* then the closing of the loop; each wait ends with the job or by its timeout.
Shutdown ==
    LET pending(kind) == jobs.run.kind = kind \/ \E n \in 1..Len(jobs.queue) : jobs.queue[n].kind = kind
        over(kind) == ~pending(kind) \/ now >= closing.due
        enter(stage, kind) ==
            /\ closing' = [stage |-> stage, due |-> now + CallTimeout]
            /\ jobs' = [jobs EXCEPT !.queue = Append(@, Job(kind))]
    IN  /\ \/ closing.stage = "up" /\ enter("adapter", "shutdown")
           \/ closing.stage = "adapter" /\ over("shutdown") /\ enter("loop", "close")
        /\ UNCHANGED <<adapter, cache, call, now, raced>>

\* A mutant of Join: the pending futures are dropped, not cancelled.
JoinDropping ==
    /\ closing.stage = "loop" /\ now >= 0
    /\ closing' = [closing EXCEPT !.stage = "join"]
    /\ jobs' = [jobs EXCEPT !.queue = <<>>]
    /\ UNCHANGED <<adapter, cache, call, now, raced>>

\* executor.shutdown cancels what has not begun, which raises in the callers
\* that wait for it ...
Join ==
    LET cancelled == {jobs.queue[n] : n \in 1..Len(jobs.queue)}
        closed == jobs.run.kind # "close" /\ \A j \in cancelled : j.kind # "close" IN
    /\ closing.stage = "loop" /\ (closed \/ now >= closing.due)
    /\ closing' = [closing EXCEPT !.stage = "join"]
    /\ jobs' = [jobs EXCEPT !.queue = <<>>]
    /\ call' = [c \in Callers |->
          IF call[c].pc = "wait" /\ \E j \in cancelled : j.by = c /\ j.id = call[c].id
          THEN [call[c] EXCEPT !.pc = "error"] ELSE call[c]]
    /\ UNCHANGED <<adapter, cache, now, raced>>

\* ... and waits, without a limit, for the job that runs.
Down ==
    /\ closing.stage = "join" /\ jobs.run = NoJob
    /\ closing' = [closing EXCEPT !.stage = "down"]
    /\ UNCHANGED <<adapter, cache, call, jobs, now, raced>>

Tick ==
    /\ now < MaxTime
    /\ now' = now + 1
    /\ UNCHANGED <<adapter, cache, call, jobs, closing, raced>>

Next ==
    \/ \E c \in Callers : Ask(c) \/ Look(c) \/ Touch(c) \/ Submit(c) \/ GiveUp(c)
    \/ Begin \/ Fetch \/ Finish
    \/ SetAdapter \/ Shutdown \/ Join \/ Down \/ Tick

----------------------------------------------------------------------------
(* Properties.                                                             *)

\* A batch that ends well holds, at the place of each key, a value of that key
\* no older than the cache allows when it was asked, or none: neither a timed
\* out batch that still runs nor another caller's puts a value there.
AnswersMatch ==
    \A c \in Callers : call[c].pc = "done" =>
        \A i \in 1..Len(call[c].batch) : LET v == call[c].results[i] IN
            v = Nothing \/ (v.key = call[c].batch[i] /\ call[c].asked - v.at <= Ttl)

\* A batch fails as a whole only if one of its keys is not supported (232), another
\* thread changed the cache within its lookup (query_dispatcher.py:243), or at a
\* shutdown; and once the dispatcher is down nobody waits for it any more.
CallsEnd ==
    /\ \A c \in Callers : call[c].pc \in {"error", "refused"} =>
          Refused(call[c].batch) \/ c \in raced \/ closing.stage \in {"join", "down"}
    /\ closing.stage = "down" =>
          jobs = [queue |-> <<>>, run |-> NoJob] /\ \A c \in Callers : call[c].pc # "wait"

Spec == Init /\ [][Next]_vars
=============================================================================
