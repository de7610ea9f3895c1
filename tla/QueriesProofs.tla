------------------------------ MODULE QueriesProofs ------------------------------
(***************************************************************************)
(* Theorems about the questions to a platform, for all values of the       *)
(* constants of MCQueries.  Each component has an inductive invariant,     *)
(* preserved by its own steps; QueriesSteps and QueriesStarts carry it     *)
(* over to a behaviour of the composition, in which the component of the   *)
(* focus takes its steps and the others take none.                         *)
(***************************************************************************)
EXTENDS MCQueries, DataInduction, SequenceTheorems, TLAPS

\* A step of the composition is one of the module of the focus.
LEMMA QueriesSteps ==
  ASSUME [Next]_vars
  PROVE  /\ focus' = focus
         /\ focus = "threads" => [Threads!Next]_(Threads!vars)
         /\ focus = "wire" => [Wire!Next]_(Wire!vars)
         /\ focus = "dispatcher" => [Routing!Next]_(Routing!vars)
         /\ focus = "adapter" => [Rest!Next]_(Rest!vars)
         /\ focus = "naming" => [Naming!Next]_(Naming!vars)
         /\ focus = "intents" => [Intents!Next]_(Intents!vars)
         /\ focus = "status" => [Status!Next]_(Status!vars)
         /\ focus = "names" => [Names!Next]_(Names!vars)
<1>1. CASE Next
  BY <1>1 DEF Next
<1>2. CASE UNCHANGED vars
  BY <1>2 DEF vars, question, threads, wire, status, names,
     Threads!vars, Wire!vars, Routing!vars, Rest!vars, Naming!vars, Intents!vars, Status!vars, Status!kept, Names!vars
<1> QED BY <1>1, <1>2

\* And so is how it begins.
LEMMA QueriesStarts ==
  ASSUME Init
  PROVE  /\ focus = "threads" => Threads!Init
         /\ focus = "wire" => Wire!Init
         /\ focus = "dispatcher" => Routing!Init
         /\ focus = "adapter" => Rest!Init
         /\ focus = "naming" => Naming!Init
         /\ focus = "intents" => Intents!Init
         /\ focus = "status" => Status!Init
         /\ focus = "names" => Names!Init
BY DEF Init

----------------------------------------------------------------------------
(* QueryExecution: a batch holds, at the place of each key, a value of     *)
(* that key that is not too old, or none.                                  *)

\* "none" stands for the jobs that no caller waits for.
ThreadsAssumption == Ttl \in Nat /\ "none" \notin Callers

CallFields == {"id", "batch", "pc", "i", "asked", "missing", "results", "due"}
JobFields == {"kind", "by", "id", "batch", "todo", "got", "gen"}
IsQueue(q) == \E S : q \in Seq(S)
Elements(q) == {q[n] : n \in DOMAIN q}

\* A value that the batch asked for at that time may hold at the place of that key.
Good(v, k, asked) == v = Threads!Nothing \/ (v.key = k /\ asked - v.at <= Ttl)

ThreadsTyped ==
    /\ now \in Nat
    /\ DOMAIN call = Callers
    /\ \A c \in Callers :
          /\ DOMAIN call[c] = CallFields
          /\ call[c].id \in Nat /\ call[c].asked \in 0..now
          /\ DOMAIN call[c].results = 1..Len(call[c].batch)
    /\ DOMAIN jobs = {"queue", "run"}
    /\ IsQueue(jobs.queue)

\* What a caller holds while it looks, waits or is done.
Held ==
    \A c \in Callers : call[c].pc \in {"look", "touch", "wait", "done"} =>
        \A i \in 1..Len(call[c].batch) : Good(call[c].results[i], call[c].batch[i], call[c].asked)

\* A job was handed over by an earlier batch of its caller, or by the present one
\* and then holds what this one may hold.
SoundJob(j) ==
    /\ DOMAIN j = JobFields /\ DOMAIN j.got = 1..Len(j.batch)
    /\ \A c \in Callers : j.by = c =>
          /\ j.id \in Nat /\ j.id <= call[c].id
          /\ j.id = call[c].id =>
                /\ j.batch = call[c].batch
                /\ \A i \in 1..Len(j.batch) : Good(j.got[i], j.batch[i], call[c].asked)

SoundJobs == SoundJob(jobs.run) /\ \A j \in Elements(jobs.queue) : SoundJob(j)

ThreadsInv == ThreadsTyped /\ Held /\ SoundJobs

----------------------------------------------------------------------------
(* Queues.                                                                 *)

LEMMA AppendElements ==
  ASSUME NEW q, IsQueue(q), NEW e
  PROVE  IsQueue(Append(q, e)) /\ Elements(Append(q, e)) = Elements(q) \cup {e}
<1>1. PICK S : q \in Seq(S)
  BY DEF IsQueue
<1>2. q \in Seq(S \cup {e}) /\ DOMAIN q = 1..Len(q) /\ Len(q) \in Nat
  BY <1>1
<1>3. /\ Append(q, e) \in Seq(S \cup {e}) /\ DOMAIN Append(q, e) = 1..(Len(q) + 1)
      /\ \A n \in 1..Len(q) : Append(q, e)[n] = q[n]
      /\ Append(q, e)[Len(q) + 1] = e
  BY <1>2
<1>4. Elements(Append(q, e)) = Elements(q) \cup {e}
  BY <1>2, <1>3 DEF Elements
<1> QED BY <1>3, <1>4 DEF IsQueue

LEMMA TailElements ==
  ASSUME NEW q, IsQueue(q), q # <<>>
  PROVE  /\ IsQueue(Tail(q)) /\ Elements(Tail(q)) \subseteq Elements(q)
         /\ Head(q) \in Elements(q)
<1>1. PICK S : q \in Seq(S)
  BY DEF IsQueue
<1>2. DOMAIN q = 1..Len(q) /\ Len(q) \in Nat \ {0}
  BY <1>1
<1>3. /\ Tail(q) \in Seq(S) /\ DOMAIN Tail(q) = 1..(Len(q) - 1)
      /\ \A n \in 1..(Len(q) - 1) : Tail(q)[n] = q[n + 1]
      /\ Head(q) = q[1]
  BY <1>1, <1>2
<1>4. Elements(Tail(q)) \subseteq Elements(q)
  BY <1>2, <1>3 DEF Elements
<1> QED BY <1>2, <1>3, <1>4 DEF Elements, IsQueue

LEMMA EmptyElements == IsQueue(<<>>) /\ Elements(<<>>) = {}
<1>1. <<>> \in Seq({})
  OBVIOUS
<1> QED BY <1>1 DEF Elements, IsQueue

----------------------------------------------------------------------------

LEMMA ThreadsInitHolds == Threads!Init => ThreadsInv
<1> SUFFICES ASSUME Threads!Init PROVE ThreadsInv
  OBVIOUS
<1>1. ThreadsTyped
  BY EmptyElements DEF Threads!Init, ThreadsTyped, Threads!Quiet, CallFields
<1>2. Held
  BY DEF Threads!Init, Held, Threads!Quiet
<1>3. SoundJob(Threads!NoJob)
  BY DEF Threads!Init, SoundJob, Threads!NoJob, JobFields, Threads!Quiet
<1> QED BY <1>1, <1>2, <1>3, EmptyElements DEF Threads!Init, ThreadsInv, SoundJobs

\* A job stays sound if no caller's present batch changes and none goes back.
LEMMA JobStays ==
  ASSUME ThreadsInv, NEW j, SoundJob(j),
         \A c \in Callers : /\ call'[c].id \in Nat /\ call[c].id <= call'[c].id
                            /\ call'[c].id = call[c].id =>
                                  call'[c].batch = call[c].batch /\ call'[c].asked = call[c].asked
  PROVE  SoundJob(j)'
BY DEF SoundJob, ThreadsInv, ThreadsTyped

\* A caller asks, looks or gives up.
LEMMA AskHolds ==
  ASSUME ThreadsAssumption, ThreadsInv, NEW c \in Callers, Threads!Ask(c)
  PROVE  ThreadsInv'
<1>1. PICK b \in Batches : call' = [call EXCEPT ![c] = [Threads!Quiet EXCEPT
          !.id = call[c].id + 1, !.batch = b, !.pc = IF Threads!Refused(b) THEN "refused" ELSE "look",
          !.asked = now, !.results = [i \in 1..Len(b) |-> Threads!Nothing]]]
  BY DEF Threads!Ask
<1>2. UNCHANGED <<jobs, now>>
  BY DEF Threads!Ask
<1>3. /\ DOMAIN call'[c] = CallFields /\ call'[c].id = call[c].id + 1 /\ call'[c].asked = now
      /\ call'[c].batch = b /\ call'[c].results = [i \in 1..Len(b) |-> Threads!Nothing]
  BY <1>1 DEF Threads!Quiet, CallFields, ThreadsInv, ThreadsTyped
<1>4. \A d \in Callers : d # c => call'[d] = call[d]
  BY <1>1 DEF ThreadsInv, ThreadsTyped
<1>5. ThreadsTyped'
  BY <1>1, <1>2, <1>3, <1>4 DEF ThreadsInv, ThreadsTyped
<1>6. Held'
  BY <1>3, <1>4 DEF ThreadsInv, Held, Good
<1>7. \A j : SoundJob(j) => SoundJob(j)'
  BY <1>3, <1>4, JobStays DEF ThreadsInv, ThreadsTyped
<1> QED BY <1>2, <1>5, <1>6, <1>7 DEF ThreadsInv, SoundJobs

\* A step of one caller that leaves its batch, and the jobs, as they are.
LEMMA CallerHolds ==
  ASSUME ThreadsAssumption, ThreadsInv, NEW c \in Callers, Threads!Look(c) \/ Threads!Touch(c) \/ Threads!GiveUp(c)
  PROVE  ThreadsInv'
<1>1. UNCHANGED <<jobs, now>> /\ DOMAIN call' = Callers /\ \A d \in Callers : d # c => call'[d] = call[d]
  BY DEF Threads!Look, Threads!Touch, Threads!GiveUp, ThreadsInv, ThreadsTyped
<1>2. /\ DOMAIN call'[c] = CallFields /\ call'[c].id = call[c].id /\ call'[c].asked = call[c].asked
      /\ call'[c].batch = call[c].batch
      /\ DOMAIN call'[c].results = DOMAIN call[c].results
  BY DEF Threads!Look, Threads!Touch, Threads!GiveUp, ThreadsInv, ThreadsTyped, CallFields
<1>3. ThreadsTyped'
  BY <1>1, <1>2 DEF ThreadsInv, ThreadsTyped
<1>4. Held'
  <2> DEFINE r == call[c] k == r.batch[r.i]
  <2>1. CASE Threads!Look(c) /\ Threads!Entries(k) # {} /\ r.asked - Threads!Entry(k).at <= Ttl
    <3>1. call' = [call EXCEPT ![c].pc = "touch", ![c].results[r.i] = Threads!Entry(k)] /\ r.pc = "look"
      BY <2>1 DEF Threads!Look
    <3>2. Threads!Entry(k).key = k
      BY <2>1 DEF Threads!Entry, Threads!Place, Threads!Entries
    <3>3. \A i \in DOMAIN r.results : call'[c].results[i] = IF i = r.i THEN Threads!Entry(k) ELSE r.results[i]
      BY <3>1 DEF ThreadsInv, ThreadsTyped, CallFields
    <3>4. \A i \in 1..Len(r.batch) : Good(call'[c].results[i], r.batch[i], r.asked)
      BY <2>1, <3>1, <3>2, <3>3 DEF ThreadsInv, ThreadsTyped, Held, Good
    <3> QED BY <3>4, <1>1, <1>2 DEF ThreadsInv, Held
  <2>2. CASE ~(Threads!Look(c) /\ Threads!Entries(k) # {} /\ r.asked - Threads!Entry(k).at <= Ttl)
    <3>1. call'[c].results = r.results
      BY <2>2 DEF Threads!Look, Threads!Touch, Threads!GiveUp, ThreadsInv, ThreadsTyped, CallFields
    <3>2. call'[c].pc \in {"look", "touch", "wait", "done"} => r.pc \in {"look", "touch", "wait", "done"}
      BY <2>2 DEF Threads!Look, Threads!Touch, Threads!GiveUp, ThreadsInv, ThreadsTyped, CallFields
    <3> QED BY <3>1, <3>2, <1>1, <1>2 DEF ThreadsInv, Held
  <2> QED BY <2>1, <2>2
<1>5. \A j : SoundJob(j) => SoundJob(j)'
  BY <1>1, <1>2, JobStays DEF ThreadsInv, ThreadsTyped
<1> QED BY <1>1, <1>3, <1>4, <1>5 DEF ThreadsInv, SoundJobs

\* A caller hands its batch over, or has found it all.
LEMMA SubmitHolds ==
  ASSUME ThreadsAssumption, ThreadsInv, NEW c \in Callers, Threads!Submit(c)
  PROVE  ThreadsInv'
<1> DEFINE r == call[c]
           handed == [Threads!Job("batch") EXCEPT !.by = c, !.id = r.id, !.batch = r.batch,
                                          !.todo = r.missing, !.got = r.results]
<1>1. /\ DOMAIN call' = Callers /\ \A d \in Callers : d # c => call'[d] = call[d]
      /\ UNCHANGED now /\ r.pc = "look"
  BY DEF Threads!Submit, ThreadsInv, ThreadsTyped
<1>2. /\ DOMAIN call'[c] = CallFields /\ call'[c].id = r.id /\ call'[c].asked = r.asked
      /\ call'[c].batch = r.batch /\ call'[c].results = r.results
  BY DEF Threads!Submit, ThreadsInv, ThreadsTyped, CallFields
<1>3. jobs' = jobs \/ jobs' = [jobs EXCEPT !.queue = Append(@, handed)]
  BY DEF Threads!Submit
<1>4. DOMAIN jobs' = {"queue", "run"} /\ jobs'.run = jobs.run
  BY <1>3 DEF ThreadsInv, ThreadsTyped
<1>5. /\ IsQueue(jobs'.queue)
      /\ Elements(jobs'.queue) \subseteq Elements(jobs.queue) \cup {handed}
  <2> HIDE DEF handed
  <2>1. IsQueue(jobs.queue) /\ DOMAIN jobs = {"queue", "run"}
    BY DEF ThreadsInv, ThreadsTyped
  <2>2. jobs'.queue = jobs.queue \/ jobs'.queue = Append(jobs.queue, handed)
    BY <1>3, <2>1
  <2> QED BY <2>1, <2>2, AppendElements
<1>6. SoundJob(handed)
  BY <1>1 DEF SoundJob, Threads!Job, Threads!NoJob, JobFields, ThreadsInv, ThreadsTyped, Held
<1>7. ThreadsTyped'
  BY <1>1, <1>2, <1>4, <1>5 DEF ThreadsInv, ThreadsTyped
<1>8. Held'
  BY <1>1, <1>2 DEF ThreadsInv, Held
<1>9. \A j : SoundJob(j) => SoundJob(j)'
  <2>1. \A d \in Callers : /\ call'[d].id = call[d].id /\ call[d].id \in Nat
                           /\ call'[d].batch = call[d].batch /\ call'[d].asked = call[d].asked
    BY <1>1, <1>2 DEF ThreadsInv, ThreadsTyped
  <2> QED BY <2>1, JobStays
<1>10. SoundJobs'
  BY <1>4, <1>5, <1>6, <1>9 DEF ThreadsInv, SoundJobs
<1> QED BY <1>7, <1>8, <1>10 DEF ThreadsInv

\* A step that leaves the callers as they are keeps the invariant if the jobs
\* stay sound and the clock does not go back.
LEMMA ThreadsOthersHold ==
  ASSUME ThreadsInv, UNCHANGED call, now' \in Nat, now <= now',
         DOMAIN jobs' = {"queue", "run"}, IsQueue(jobs'.queue),
         SoundJob(jobs'.run), \A j \in Elements(jobs'.queue) : SoundJob(j)
  PROVE  ThreadsInv'
<1>1. ThreadsTyped' /\ Held'
  BY DEF ThreadsInv, ThreadsTyped, Held
<1>2. \A j : SoundJob(j) => SoundJob(j)'
  BY JobStays DEF ThreadsInv, ThreadsTyped
<1>3. SoundJobs'
  BY <1>2 DEF SoundJobs
<1> QED BY <1>1, <1>3 DEF ThreadsInv

LEMMA BeginHolds ==
  ASSUME ThreadsAssumption, ThreadsInv, Threads!Begin
  PROVE  ThreadsInv'
<1> DEFINE j == Head(jobs.queue)  b == [j EXCEPT !.gen = adapter]
<1>1. jobs' = [queue |-> Tail(jobs.queue), run |-> b] /\ UNCHANGED <<call, now>>
  BY DEF Threads!Begin
<1>2. IsQueue(jobs'.queue) /\ Elements(jobs'.queue) \subseteq Elements(jobs.queue) /\ SoundJob(j)
  BY <1>1, TailElements DEF Threads!Begin, ThreadsInv, ThreadsTyped, SoundJobs
<1>3. SoundJob(b)
  <2>1. /\ DOMAIN b = JobFields /\ b.by = j.by /\ b.id = j.id /\ b.batch = j.batch
        /\ b.got = j.got
    BY <1>2 DEF SoundJob, JobFields
  <2> HIDE DEF b, j
  <2> QED BY <2>1, <1>2 DEF SoundJob
<1> QED BY <1>1, <1>2, <1>3, ThreadsOthersHold DEF ThreadsInv, ThreadsTyped, SoundJobs

\* A value fetched now is of its key, and younger than any batch asked before.
LEMMA FetchHolds ==
  ASSUME ThreadsAssumption, ThreadsInv, Threads!Fetch
  PROVE  ThreadsInv'
<1> DEFINE j == jobs.run  i == Head(j.todo)  v == [key |-> j.batch[i], gen |-> j.gen, at |-> now]
<1>1. UNCHANGED <<call, now>>
  BY DEF Threads!Fetch
<1>2. SoundJob(j)
  BY DEF ThreadsInv, SoundJobs
<1>3. /\ DOMAIN jobs' = {"queue", "run"} /\ jobs'.queue = jobs.queue
      /\ DOMAIN jobs'.run = JobFields /\ jobs'.run.by = j.by /\ jobs'.run.id = j.id
      /\ jobs'.run.batch = j.batch
      /\ jobs'.run.got = [j.got EXCEPT ![i] = v] \/ jobs'.run.got = j.got
  <2>1. DOMAIN jobs = {"queue", "run"} /\ DOMAIN j = JobFields
    BY <1>2 DEF SoundJob, ThreadsInv, ThreadsTyped
  <2>2. \/ jobs' = [jobs EXCEPT !.run.got[i] = v, !.run.todo = Tail(@), !.run.gen = adapter]
        \/ jobs' = [jobs EXCEPT !.run.todo = Tail(@), !.run.gen = adapter]
    BY DEF Threads!Fetch
  <2> HIDE DEF v, i
  <2>3. CASE jobs' = [jobs EXCEPT !.run.got[i] = v, !.run.todo = Tail(@), !.run.gen = adapter]
    <3>1. jobs' = [jobs EXCEPT !["run"] = [j EXCEPT !["got"] = [j.got EXCEPT ![i] = v],
                                !["todo"] = Tail(j.todo), !["gen"] = adapter]]
      BY <2>1, <2>3 DEF JobFields
    <3> QED BY <3>1, <2>1 DEF JobFields
  <2>4. CASE jobs' = [jobs EXCEPT !.run.todo = Tail(@), !.run.gen = adapter]
    BY <2>1, <2>4 DEF JobFields
  <2> QED BY <2>2, <2>3, <2>4
<1>4. \A c \in Callers : Good(v, j.batch[i], call[c].asked)
  BY DEF Good, ThreadsAssumption, ThreadsInv, ThreadsTyped
<1>5. SoundJob(jobs'.run)
  <2>1. /\ DOMAIN jobs'.run.got = DOMAIN j.got
        /\ \A n \in DOMAIN j.got : jobs'.run.got[n] = j.got[n] \/ (n = i /\ jobs'.run.got[n] = v)
    BY <1>3
  <2> HIDE DEF v, i, j
  <2> QED BY <2>1, <1>2, <1>3, <1>4 DEF SoundJob
<1> QED BY <1>1, <1>3, <1>5, ThreadsOthersHold DEF ThreadsInv, ThreadsTyped, SoundJobs

\* The results of a job go to the caller that waits for this very batch.
LEMMA FinishHolds ==
  ASSUME ThreadsAssumption, ThreadsInv, Threads!Finish
  PROVE  ThreadsInv'
<1> DEFINE j == jobs.run
           mine(c) == j.by = c /\ j.id = call[c].id /\ call[c].pc = "wait"
<1>1. /\ jobs' = [jobs EXCEPT !.run = Threads!NoJob] /\ UNCHANGED now
      /\ call' = [c \in Callers |-> IF mine(c) THEN [call[c] EXCEPT !.pc = "done", !.results = j.got]
                                     ELSE call[c]]
  BY DEF Threads!Finish
<1>2. SoundJob(j)
  BY DEF ThreadsInv, SoundJobs
<1>3. \A c \in Callers :
         /\ DOMAIN call'[c] = CallFields /\ call'[c].id = call[c].id
         /\ call'[c].asked = call[c].asked /\ call'[c].batch = call[c].batch
         /\ mine(c) => call'[c].results = j.got
         /\ ~mine(c) => call'[c] = call[c]
  BY <1>1 DEF ThreadsInv, ThreadsTyped, CallFields
<1>4. \A c \in Callers : mine(c) =>
         /\ j.batch = call[c].batch /\ DOMAIN j.got = 1..Len(j.batch)
         /\ \A i \in 1..Len(j.batch) : Good(j.got[i], j.batch[i], call[c].asked)
  BY <1>2 DEF SoundJob
<1>5. /\ DOMAIN call' = Callers /\ DOMAIN jobs' = {"queue", "run"}
      /\ jobs'.queue = jobs.queue /\ jobs'.run = Threads!NoJob
  BY <1>1 DEF ThreadsInv, ThreadsTyped
<1> HIDE DEF mine, j
<1>6. ThreadsTyped'
  BY <1>1, <1>3, <1>4, <1>5 DEF ThreadsInv, ThreadsTyped
<1>7. Held'
  BY <1>3, <1>4 DEF ThreadsInv, Held
<1>8. \A k : SoundJob(k) => SoundJob(k)'
  BY <1>3, JobStays DEF ThreadsInv, ThreadsTyped
<1>9. SoundJob(Threads!NoJob)
  BY DEF SoundJob, Threads!NoJob, JobFields, ThreadsAssumption
<1>10. SoundJobs'
  BY <1>5, <1>8, <1>9 DEF ThreadsInv, SoundJobs
<1> QED BY <1>6, <1>7, <1>10 DEF ThreadsInv

LEMMA ShutdownHolds ==
  ASSUME ThreadsAssumption, ThreadsInv, Threads!Shutdown
  PROVE  ThreadsInv'
<1>1. PICK kind : jobs' = [jobs EXCEPT !.queue = Append(@, Threads!Job(kind))]
  BY DEF Threads!Shutdown
<1>2. UNCHANGED <<call, now>>
  BY DEF Threads!Shutdown
<1>3. DOMAIN jobs' = {"queue", "run"} /\ jobs'.run = jobs.run
  BY <1>1 DEF ThreadsInv, ThreadsTyped
<1>4. /\ IsQueue(jobs'.queue)
      /\ Elements(jobs'.queue) = Elements(jobs.queue) \cup {Threads!Job(kind)}
  BY <1>1, AppendElements DEF ThreadsInv, ThreadsTyped
<1>5. SoundJob(Threads!Job(kind))
  BY DEF SoundJob, Threads!Job, Threads!NoJob, JobFields, ThreadsAssumption
<1> QED BY <1>2, <1>3, <1>4, <1>5, ThreadsOthersHold DEF ThreadsInv, ThreadsTyped, SoundJobs

LEMMA JoinHolds ==
  ASSUME ThreadsAssumption, ThreadsInv, Threads!Join
  PROVE  ThreadsInv'
<1>1. /\ jobs' = [jobs EXCEPT !.queue = <<>>] /\ UNCHANGED now
      /\ DOMAIN call' = Callers
      /\ \A c \in Callers : call'[c] = call[c] \/ call'[c] = [call[c] EXCEPT !.pc = "error"]
  BY DEF Threads!Join
<1>2. \A c \in Callers :
         /\ DOMAIN call'[c] = CallFields /\ call'[c].id = call[c].id
         /\ call'[c].asked = call[c].asked /\ call'[c].batch = call[c].batch
         /\ call'[c].results = call[c].results
         /\ call'[c].pc = call[c].pc \/ call'[c].pc = "error"
  BY <1>1 DEF ThreadsInv, ThreadsTyped, CallFields
<1>3. DOMAIN jobs' = {"queue", "run"} /\ jobs'.queue = <<>> /\ jobs'.run = jobs.run
  BY <1>1 DEF ThreadsInv, ThreadsTyped
<1>4. ThreadsTyped'
  BY <1>1, <1>2, <1>3, EmptyElements DEF ThreadsInv, ThreadsTyped
<1>5. Held'
  BY <1>2 DEF ThreadsInv, Held
<1>6. \A j : SoundJob(j) => SoundJob(j)'
  <2>1. \A c \in Callers : call[c].id \in Nat
    BY DEF ThreadsInv, ThreadsTyped
  <2> QED BY <1>2, <2>1, JobStays
<1> QED BY <1>3, <1>4, <1>5, <1>6, EmptyElements DEF ThreadsInv, SoundJobs

----------------------------------------------------------------------------

LEMMA ThreadsStepHolds ==
  ASSUME ThreadsAssumption, ThreadsInv, [Threads!Next]_(Threads!vars)
  PROVE  ThreadsInv'
<1>1. CASE \E c \in Callers : Threads!Ask(c) \/ Threads!Look(c) \/ Threads!Touch(c) \/ Threads!Submit(c) \/ Threads!GiveUp(c)
  BY <1>1, AskHolds, CallerHolds, SubmitHolds
<1>2. CASE Threads!SetAdapter \/ Threads!Down \/ Threads!Tick \/ UNCHANGED Threads!vars
  <2>1. UNCHANGED <<call, jobs>> /\ now' \in Nat /\ now <= now'
    BY <1>2 DEF Threads!SetAdapter, Threads!Down, Threads!Tick, Threads!vars, ThreadsInv, ThreadsTyped
  <2> QED BY <2>1, ThreadsOthersHold DEF ThreadsInv, ThreadsTyped, SoundJobs
<1> QED BY <1>1, <1>2, BeginHolds, FetchHolds, FinishHolds, ShutdownHolds, JoinHolds DEF Threads!Next

\* get_kpis_batch answers the keys it was asked, in their order, with values no
\* older than the cache allows when it was asked, whatever other batches, late
\* jobs and adapter switches come between.
THEOREM AnswersHold == ASSUME ThreadsAssumption PROVE Spec => []AnswersMatch
<1> DEFINE Inv == focus = "threads" => ThreadsInv
<1>1. Init => Inv
  BY QueriesStarts, ThreadsInitHolds
<1>2. Inv /\ [Next]_vars => Inv'
  BY QueriesSteps, ThreadsStepHolds
<1>3. Inv => AnswersMatch
  BY DEF ThreadsInv, Held, Good, Threads!AnswersMatch, AnswersMatch
<1> QED BY <1>1, <1>2, <1>3, PTL DEF Spec

----------------------------------------------------------------------------
(* StatusCaches: the status told is that of the active profile.            *)

StatusAssumption == Unconfigured \notin Profiles /\ None \notin Status!Config /\ Age \in Nat /\ Status!Config # {}

ProfileNames == Profiles \cup {Unconfigured}
LiveKeys == ProfileNames \X Keys
Facts == {None} \cup [profile : ProfileNames, config : Status!Config]

Requested ==
    [pc : {"probe", "test", "done"}, label : ProfileNames, of : Facts, key : {None} \cup LiveKeys,
     at : Nat, seen : Status!Config, truth : Facts, crossed : BOOLEAN]
Edits == [pc : {"reload"}, kind : {"save", "reset", "activate"}, old : ProfileNames]

StatusTyped ==
    /\ active \in ProfileNames /\ config \in [Profiles -> Status!Config \cup {None}]
    /\ active # Unconfigured => config[active] # None
    /\ source \in Status!Config /\ now \in Nat /\ dirty \subseteq Profiles
    /\ live \in [LiveKeys -> {None} \cup [until : Nat, of : Facts, crossed : BOOLEAN]]
    /\ check \in [Checkers -> {Status!Idle} \cup Requested]
    /\ edit \in [Editors -> {Status!Idle} \cup Edits]

\* Nothing changed under a request so far: the active profile is the one it came for.
Undisturbed(r) == ~Status!Editing /\ r.label = active /\ r.truth = Status!Current

\* What a request, unless something changed under it, has asked or tells.
Sound(r) ==
    /\ r.pc = "test" => r.key \in LiveKeys
    /\ r.pc \in {"probe", "test"} /\ ~r.crossed => Undisturbed(r)
    /\ r.pc = "test" /\ ~r.crossed =>
          active # Unconfigured /\ r.of = Status!Current /\ r.key = <<active, config[active].key>>
    /\ r.pc = "done" /\ ~r.crossed => r.of = r.truth

Saving == \E e \in Editors : edit[e].pc = "reload" /\ edit[e].kind = "save"

\* What is remembered of a profile is its configuration, unless that was edited by
\* name or is being saved: the memory is dropped then.
Remembered ==
    \A p \in Profiles, k \in Keys : LET entry == live[<<p, k>>] IN
        entry # None /\ ~entry.crossed /\ p \notin dirty /\ config[p] # None =>
            Saving \/ entry.of = [profile |-> p, config |-> config[p]]

StatusInv == StatusTyped /\ Remembered /\ \A c \in Checkers : Sound(check[c])

LEMMA StatusInitHolds == ASSUME StatusAssumption PROVE Status!Init => StatusInv
<1> SUFFICES ASSUME Status!Init PROVE StatusInv
  OBVIOUS
<1>1. StatusTyped
  <2>1. source \in Status!Config
    BY DEF Status!Init, StatusAssumption
  <2> QED
    BY <2>1 DEF Status!Init, StatusTyped, ProfileNames, LiveKeys, StatusAssumption
<1>2. Remembered
  BY DEF Status!Init, Remembered, ProfileNames
<1>3. \A c \in Checkers : Sound(check[c])
  BY DEF Status!Init, Sound, Status!Idle
<1> QED BY <1>1, <1>2, <1>3 DEF StatusInv

LEMMA CurrentIsFact == ASSUME StatusTyped PROVE Status!Current \in Facts
BY DEF StatusTyped, Status!Current, Facts, ProfileNames

\* What the platform's part of a request leads to.
LEMMA ConnectionSound ==
  ASSUME StatusAssumption, StatusInv, NEW r \in Requested, r.pc = "probe", ~r.crossed => Undisturbed(r)
  PROVE  Status!Connection(r) \in Requested /\ Sound(Status!Connection(r))
<1> DEFINE key == <<r.label, config[active].key>>
<1> USE DEF Requested
<1>1. CASE active = Unconfigured
  <2>1. Status!Connection(r) = [r EXCEPT !.pc = "done", !.of = None, !.at = now]
    BY <1>1 DEF Status!Connection
  <2> QED
    BY <1>1, <2>1 DEF Sound, Undisturbed, Status!Current, Facts, StatusInv, StatusTyped
<1>2. CASE active # Unconfigured
  <2>1. config[active] \in Status!Config /\ key \in LiveKeys
    BY <1>2 DEF StatusInv, StatusTyped, ProfileNames, LiveKeys, Status!Config
  <2>2. CASE Status!Kept(live, key)
    <3>1. Status!Connection(r) =
            [r EXCEPT !.pc = "done", !.of = live[key].of, !.at = now, !.crossed = @ \/ live[key].crossed]
      BY <1>2, <2>2 DEF Status!Connection
    <3>2. live[key] \in [until : Nat, of : Facts, crossed : BOOLEAN] /\ live[key] # None
      BY <2>1, <2>2 DEF Status!Kept, StatusInv, StatusTyped
    <3>3. ASSUME ~r.crossed, ~live[key].crossed PROVE live[key].of = r.truth
      <4>1. Undisturbed(r)
        BY <3>3
      <4>2. active \in Profiles /\ active \notin dirty /\ ~Saving /\ config[active].key \in Keys
        BY <4>1, <1>2, <2>1 DEF Undisturbed, Status!Editing, Saving, StatusInv, StatusTyped, ProfileNames, Status!Config
      <4>3. live[<<active, config[active].key>>].of = [profile |-> active, config |-> config[active]]
        BY <4>1, <4>2, <3>2, <3>3, <1>2 DEF Undisturbed, StatusInv, StatusTyped, Remembered
      <4> QED
        BY <4>1, <4>3, <1>2 DEF Undisturbed, Status!Current
    <3> QED
      BY <3>1, <3>2, <3>3 DEF Sound, StatusInv, StatusTyped
  <2>3. CASE ~Status!Kept(live, key)
    <3>1. Status!Connection(r) = [r EXCEPT !.pc = "test", !.of = Status!Current, !.key = key, !.at = now]
      BY <1>2, <2>3 DEF Status!Connection
    <3> QED
      BY <3>1, <2>1, <1>2, CurrentIsFact DEF Sound, Undisturbed, StatusInv, StatusTyped
  <2> QED BY <2>2, <2>3
<1> QED BY <1>1, <1>2

\* A request takes a step: the configuration stays as it is.
LEMMA CheckerHolds ==
  ASSUME StatusAssumption, StatusInv, NEW c \in Checkers, Status!Ask(c) \/ Status!Probed(c) \/ Status!Tested(c)
  PROVE  StatusInv'
<1>0. UNCHANGED <<active, config, source, edit, now, dirty>>
  BY DEF Status!Ask, Status!Probed, Status!Tested
<1>1. \A r : Sound(r)' <=> Sound(r)
  BY <1>0 DEF Sound, Undisturbed, Status!Editing, Status!Current
<1>2. ASSUME NEW r \in {Status!Idle} \cup Requested, Sound(r), check' = [check EXCEPT ![c] = r]
      PROVE  check' \in [Checkers -> {Status!Idle} \cup Requested] /\ \A d \in Checkers : Sound(check[d])'
  BY <1>1, <1>2 DEF StatusInv, StatusTyped
<1>3. ASSUME live' \in [LiveKeys -> {None} \cup [until : Nat, of : Facts, crossed : BOOLEAN]], Remembered',
             check' \in [Checkers -> {Status!Idle} \cup Requested], \A d \in Checkers : Sound(check[d])'
      PROVE  StatusInv'
  BY <1>0, <1>3 DEF StatusInv, StatusTyped
<1>4. CASE Status!Ask(c)
  <2> DEFINE r == [pc |-> "probe", label |-> active, of |-> None, key |-> None, at |-> now, seen |-> source,
                   truth |-> Status!Current, crossed |-> Status!Editing]
  <2>1. r \in Requested /\ (~r.crossed => Undisturbed(r))
    <3>1. Status!Editing \in BOOLEAN
      BY DEF Status!Editing
    <3> QED BY <3>1, CurrentIsFact DEF StatusInv, StatusTyped, Requested, Facts, Undisturbed
  <2>2. Sound(r)
    BY <2>1 DEF Sound
  <2>3. Status!Connection(r) \in Requested /\ Sound(Status!Connection(r))
    BY <2>1, ConnectionSound
  <2>4. live' = live /\ Remembered'
    BY <1>4, <1>0 DEF Status!Ask, StatusInv, Remembered, Saving
  <2>5. check' = [check EXCEPT ![c] = r] \/ check' = [check EXCEPT ![c] = Status!Connection(r)]
    BY <1>4 DEF Status!Ask
  <2> QED
    BY <1>2, <1>3, <2>1, <2>2, <2>3, <2>4, <2>5 DEF StatusInv, StatusTyped
<1>5. CASE Status!Probed(c)
  <2>1. check[c] \in Requested /\ check[c].pc = "probe" /\ Sound(check[c])
    BY <1>5 DEF Status!Probed, StatusInv, StatusTyped, Status!Idle
  <2>2. Status!Connection(check[c]) \in Requested /\ Sound(Status!Connection(check[c]))
    BY <2>1, ConnectionSound DEF Sound
  <2>3. live' = live /\ Remembered' /\ check' = [check EXCEPT ![c] = Status!Connection(check[c])]
    BY <1>5, <1>0 DEF Status!Probed, StatusInv, Remembered, Saving
  <2> QED
    BY <1>2, <1>3, <2>2, <2>3 DEF StatusInv, StatusTyped
<1>6. CASE Status!Tested(c)
  <2> DEFINE r == check[c]
             entry == [until |-> r.at + Age, of |-> r.of, crossed |-> r.crossed]
  <2>1. r \in Requested /\ r.pc = "test" /\ Sound(r) /\ r.key \in LiveKeys
    BY <1>6 DEF Status!Tested, StatusInv, StatusTyped, Status!Idle, Sound
  <2>2. entry \in [until : Nat, of : Facts, crossed : BOOLEAN]
    BY <2>1 DEF Requested, StatusAssumption
  <2>3. live' = [live EXCEPT ![r.key] = entry]
    BY <1>6 DEF Status!Tested
  <2>4. live' \in [LiveKeys -> {None} \cup [until : Nat, of : Facts, crossed : BOOLEAN]]
    BY <2>2, <2>3 DEF StatusInv, StatusTyped
  <2>5. ~r.crossed =>
          /\ r.key = <<active, config[active].key>> /\ r.of = [profile |-> active, config |-> config[active]]
          /\ active \in Profiles /\ r.truth = r.of
    BY <2>1 DEF Sound, Undisturbed, Status!Current, StatusInv, StatusTyped, ProfileNames, Requested
  <2>6. Remembered'
    <3> SUFFICES ASSUME NEW p \in Profiles, NEW k \in Keys,
                        live'[<<p, k>>] # None, ~live'[<<p, k>>].crossed, p \notin dirty, config[p] # None
                 PROVE  Saving \/ live'[<<p, k>>].of = [profile |-> p, config |-> config[p]]
      BY <1>0 DEF Remembered, Saving
    <3>1. <<p, k>> \in LiveKeys
      BY DEF LiveKeys, ProfileNames
    <3>2. CASE <<p, k>> = r.key
      BY <3>1, <3>2, <2>3, <2>5 DEF StatusInv, StatusTyped
    <3>3. CASE <<p, k>> # r.key
      BY <3>1, <3>3, <2>3 DEF StatusInv, StatusTyped, Remembered
    <3> QED BY <3>2, <3>3
  <2>7. [r EXCEPT !.pc = "done"] \in Requested /\ Sound([r EXCEPT !.pc = "done"])
    BY <2>1, <2>5 DEF Requested, Sound
  <2>8. check' = [check EXCEPT ![c] = [r EXCEPT !.pc = "done"]]
    BY <1>6 DEF Status!Tested
  <2> QED
    BY <1>2, <1>3, <2>4, <2>6, <2>7, <2>8
<1> QED BY <1>4, <1>5, <1>6

\* A change that every request under way takes note of.
LEMMA StatusCrossedSound ==
  ASSUME StatusInv, check' = Status!Crossed
  PROVE  check' \in [Checkers -> {Status!Idle} \cup Requested] /\ \A c \in Checkers : Sound(check[c])'
<1> SUFFICES ASSUME NEW c \in Checkers
             PROVE  check'[c] \in {Status!Idle} \cup Requested /\ Sound(check[c])'
  BY DEF Status!Crossed
<1>1. check[c] \in {Status!Idle} \cup Requested /\ Sound(check[c])
  BY DEF StatusInv, StatusTyped
<1>2. CASE check[c].pc \in {"probe", "test"}
  <2>1. check'[c] = [check[c] EXCEPT !.crossed = TRUE] /\ check[c] \in Requested
    BY <1>1, <1>2 DEF Status!Crossed, Status!Idle
  <2>2. /\ check'[c] \in Requested /\ check'[c].crossed = TRUE
        /\ check'[c].pc = check[c].pc /\ check'[c].key = check[c].key
    BY <2>1 DEF Requested
  <2> QED
    BY <2>2, <1>1, <1>2 DEF Sound
<1>3. CASE check[c].pc \notin {"probe", "test"}
  <2>1. check'[c] = check[c]
    BY <1>3 DEF Status!Crossed
  <2> QED
    BY <2>1, <1>1, <1>3 DEF Sound
<1> QED BY <1>2, <1>3

\* An editor takes a step.
LEMMA EditorHolds ==
  ASSUME StatusAssumption, StatusInv, NEW e \in Editors,
         \/ Status!Reset(e) \/ Status!Drop(e) \/ Status!RollBack(e) \/ Status!FailReset(e)
         \/ \E p \in ProfileNames : Status!Activate(e, p)
         \/ \E p \in Profiles, c \in Status!Config : Status!Save(e, p, c)
  PROVE  StatusInv'
<1>1. check' \in [Checkers -> {Status!Idle} \cup Requested] /\ \A c \in Checkers : Sound(check[c])'
  <2>1. check' = Status!Crossed
    BY DEF Status!Reset, Status!Drop, Status!RollBack, Status!FailReset, Status!Activate, Status!Save, Status!Begin
  <2> QED BY <2>1, StatusCrossedSound
<1> USE DEF StatusInv, StatusTyped, ProfileNames
<1>2. CASE Status!Reset(e)
  <2>1. StatusTyped'
    BY <1>1, <1>2 DEF Status!Reset, Status!Begin, Edits
  <2>2. Remembered'
    BY <1>2 DEF Status!Reset, Status!Begin, Remembered, Saving, Status!Idle
  <2> QED BY <1>1, <2>1, <2>2
<1>3. CASE Status!Drop(e)
  <2>1. StatusTyped'
    BY <1>1, <1>3 DEF Status!Drop
  <2>2. Remembered'
    BY <1>3 DEF Status!Drop, Remembered, LiveKeys
  <2> QED BY <1>1, <2>1, <2>2
<1>4. CASE Status!RollBack(e)
  <2>1. StatusTyped'
    BY <1>1, <1>4 DEF Status!RollBack, Edits, Status!Idle
  <2>2. Remembered'
    BY <1>4 DEF Status!RollBack, Remembered, Saving
  <2> QED BY <1>1, <2>1, <2>2
<1>5. ASSUME NEW p \in ProfileNames, Status!Activate(e, p) PROVE StatusInv'
  <2>1. StatusTyped'
    BY <1>1, <1>5 DEF Status!Activate, Status!Begin, Edits
  <2>2. Remembered'
    BY <1>5 DEF Status!Activate, Status!Begin, Remembered, Saving, Status!Idle
  <2> QED BY <1>1, <2>1, <2>2
<1>6. ASSUME NEW p \in Profiles, NEW c \in Status!Config, Status!Save(e, p, c) PROVE StatusInv'
  <2>1. StatusTyped'
    BY <1>1, <1>6 DEF Status!Save, Status!Begin, Edits, StatusAssumption
  <2>2. Saving'
    BY <1>6 DEF Status!Save, Status!Begin, Saving
  <2> QED BY <1>1, <2>1, <2>2 DEF Remembered
<1>7. CASE Status!FailReset(e)
  <2>1. StatusTyped'
    BY <1>1, <1>7 DEF Status!FailReset, Edits, Status!Idle
  <2>2. Remembered'
    BY <1>7 DEF Status!FailReset, Remembered, Saving
  <2> QED BY <1>1, <2>1, <2>2
<1> QED BY <1>2, <1>3, <1>4, <1>5, <1>6, <1>7

\* A profile is changed, created or deleted by its name.
LEMMA NamedHolds ==
  ASSUME StatusAssumption, StatusInv, NEW p \in Profiles, Status!Delete(p) \/ \E c \in Status!Config : Status!Update(p, c) \/ Status!Create(p, c)
  PROVE  StatusInv'
<1>1. /\ UNCHANGED <<source, live, edit, now>> /\ (active' = active \/ active' = Unconfigured)
      /\ config' \in [Profiles -> Status!Config \cup {None}] /\ dirty' \subseteq Profiles
      /\ \A q \in Profiles : q # p => config'[q] = config[q]
      /\ active' # Unconfigured => config'[active] # None
      /\ dirty \subseteq dirty' /\ (config'[p] = None \/ p \in dirty')
  BY DEF Status!Delete, Status!Update, Status!Create, StatusInv, StatusTyped, ProfileNames, StatusAssumption
<1>2. Remembered'
  BY <1>1 DEF Remembered, Saving, StatusInv
<1>3. CASE check' = Status!Crossed
  <2>1. check' \in [Checkers -> {Status!Idle} \cup Requested] /\ \A c \in Checkers : Sound(check[c])'
    BY <1>3, StatusCrossedSound
  <2> QED BY <1>1, <1>2, <2>1 DEF StatusInv, StatusTyped, ProfileNames
<1>4. CASE p # active /\ check' = check
  <2>1. active' = active /\ dirty' \subseteq dirty \cup {p}
    BY <1>4 DEF Status!Delete, Status!Update, Status!Create
  <2>2. Status!Current' = Status!Current /\ (Status!Editing' <=> Status!Editing)
    BY <1>1, <1>4, <2>1 DEF Status!Current, Status!Editing, StatusInv, StatusTyped, ProfileNames
  <2>3. \A c \in Checkers : Sound(check[c])'
    <3>1. active # Unconfigured => config'[active] = config[active]
      BY <1>1, <1>4 DEF StatusInv, StatusTyped, ProfileNames
    <3> QED BY <3>1, <1>4, <2>1, <2>2 DEF StatusInv, Sound, Undisturbed
  <2> QED BY <1>1, <1>2, <1>4, <2>1, <2>3 DEF StatusInv, StatusTyped
<1>5. check' = Status!Crossed \/ (p # active /\ check' = check)
  BY DEF Status!Delete, Status!Update, Status!Create, StatusInv, StatusTyped, StatusAssumption
<1> QED BY <1>3, <1>4, <1>5

\* PREVENTION is configured, or time passes.
LEMMA StatusRestHolds ==
  ASSUME StatusAssumption, StatusInv, (\E c \in Status!Config : Status!UpdatePrevention(c)) \/ Status!Tick \/ UNCHANGED Status!vars
  PROVE  StatusInv'
<1>1. UNCHANGED <<active, config, live, check, edit, dirty>> /\ source' \in Status!Config /\ now' \in Nat
  BY DEF Status!UpdatePrevention, Status!Tick, Status!vars, Status!kept, StatusInv, StatusTyped
<1>2. \A c \in Checkers : Sound(check[c])'
  BY <1>1 DEF StatusInv, Sound, Undisturbed, Status!Editing, Status!Current
<1> QED
  BY <1>1, <1>2 DEF StatusInv, StatusTyped, Remembered, Saving


LEMMA StatusStepHolds == ASSUME StatusAssumption, StatusInv, [Status!Next]_(Status!vars) PROVE StatusInv'
<1>1. Status!Step => StatusInv'
  BY CheckerHolds, EditorHolds, NamedHolds, StatusRestHolds DEF Status!Step, ProfileNames
<1> QED
  BY <1>1, StatusRestHolds DEF Status!Next

(***************************************************************************)
(* The status that any number of requests are told while any number of     *)
(* editors are at work is that of the active profile as it is configured,  *)
(* if nothing changed under the request and no edit by name is left that   *)
(* dropped nothing (web-ui/routers/status.py, _resolve_live_connection_status).    *)
(***************************************************************************)
THEOREM StatusHolds == ASSUME StatusAssumption PROVE Spec => []StatusIsCurrent
<1> DEFINE Inv == focus = "status" => StatusInv
<1>1. Init => Inv
  BY QueriesStarts, StatusInitHolds
<1>2. Inv /\ [Next]_vars => Inv'
  BY QueriesSteps, StatusStepHolds
<1>3. Inv => StatusIsCurrent
  BY DEF StatusInv, Sound, Status!StatusIsCurrent, StatusIsCurrent
<1> QED BY <1>1, <1>2, <1>3, PTL DEF Spec

\* What was observed at a time was so at that time.
Witnessed(at, of) == at \in Nat /\ at <= now /\ <<at, of>> \in past

Told(r) == \E at \in Nat : Witnessed(at, r.of) /\ (at = r.at \/ (at < r.at /\ r.at < at + Age))
Seen(r) == (r.pc = "test" => Witnessed(r.at, r.of)) /\ (r.pc = "done" => Told(r))
Dated(entry) == entry # None => \E at \in Nat : Witnessed(at, entry.of) /\ entry.until = at + Age

PastInv ==
    /\ <<now, Status!Current>> \in past
    /\ \A k \in LiveKeys : Dated(live[k])
    /\ \A c \in Checkers : Seen(check[c])

\* Observations stay what they were as time goes on.
LEMMA PastGrows ==
  ASSUME StatusTyped, StatusTyped', PastInv, past \subseteq past', now <= now',
         <<now, Status!Current>>' \in past',
         \A k \in LiveKeys : Dated(live'[k]) \/ live'[k] = live[k],
         \A c \in Checkers : Seen(check'[c]) \/ check'[c] = check[c]
  PROVE  PastInv'
<1>1. \A at, of : Witnessed(at, of) => Witnessed(at, of)'
  BY DEF Witnessed, StatusTyped
<1>2. \A r : Seen(r) => (Seen(r))'
  BY <1>1 DEF Seen, Told
<1>3. \A entry : Dated(entry) => (Dated(entry))'
  BY <1>1 DEF Dated
<1>4. \A k \in LiveKeys : Dated(live'[k])
  BY DEF PastInv
<1>5. \A c \in Checkers : Seen(check'[c])
  BY DEF PastInv
<1>6. \A k \in LiveKeys : Dated(live[k])'
  BY <1>3, <1>4
<1>7. \A c \in Checkers : Seen(check[c])'
  BY <1>2, <1>5
<1> QED BY <1>6, <1>7 DEF PastInv

LEMMA ConnectionSeen ==
  ASSUME StatusAssumption, StatusInv, PastInv, NEW r \in Requested, r.pc = "probe"
  PROVE  Seen(Status!Connection(r))
<1> DEFINE key == <<r.label, config[active].key>>
<1> USE DEF Requested
<1>1. Witnessed(now, Status!Current) /\ now \in Nat
  BY DEF PastInv, Witnessed, StatusInv, StatusTyped
<1>2. CASE active = Unconfigured
  <2>1. Status!Connection(r) = [r EXCEPT !.pc = "done", !.of = None, !.at = now]
    BY <1>2 DEF Status!Connection
  <2> QED
    BY <1>1, <1>2, <2>1 DEF Seen, Told, Status!Current
<1>3. CASE active # Unconfigured /\ Status!Kept(live, key)
  <2>1. Status!Connection(r) =
          [r EXCEPT !.pc = "done", !.of = live[key].of, !.at = now, !.crossed = @ \/ live[key].crossed]
    BY <1>3 DEF Status!Connection
  <2>2. key \in LiveKeys
    BY <1>3 DEF StatusInv, StatusTyped, ProfileNames, LiveKeys, Status!Config
  <2>3. PICK at \in Nat : Witnessed(at, live[key].of) /\ live[key].until = at + Age
    BY <1>3, <2>2 DEF PastInv, Dated, Status!Kept
  <2>4. at = now \/ (at < now /\ now < at + Age)
    BY <1>1, <1>3, <2>3 DEF Witnessed, Status!Kept, StatusAssumption
  <2> QED
    BY <2>1, <2>3, <2>4 DEF Seen, Told
<1>4. CASE active # Unconfigured /\ ~Status!Kept(live, key)
  <2>1. Status!Connection(r) = [r EXCEPT !.pc = "test", !.of = Status!Current, !.key = key, !.at = now]
    BY <1>4 DEF Status!Connection
  <2> QED
    BY <1>1, <2>1 DEF Seen
<1> QED BY <1>2, <1>3, <1>4

LEMMA PastStepHolds ==
  ASSUME StatusAssumption, StatusInv, StatusInv', PastInv, Status!Next
  PROVE  PastInv'
<1>1. past \subseteq past' /\ <<now, Status!Current>>' \in past' /\ StatusTyped /\ StatusTyped' /\ Status!Step
  BY DEF Status!Next, StatusInv
<1>2. now <= now'
  <2>1. now' \in {now, now + 1}
    BY <1>1 DEF Status!Step, Status!Ask, Status!Probed, Status!Tested, Status!Reset, Status!Drop, Status!RollBack,
       Status!FailReset, Status!Activate, Status!Save, Status!Begin, Status!Delete, Status!Update, Status!Create,
       Status!UpdatePrevention, Status!Tick
  <2> QED BY <1>1, <2>1 DEF StatusTyped
<1>3. ASSUME \A k \in LiveKeys : Dated(live'[k]) \/ live'[k] = live[k],
             \A c \in Checkers : Seen(check'[c]) \/ check'[c] = check[c]
      PROVE  PastInv'
  BY <1>1, <1>2, <1>3, PastGrows
<1>4. check' = Status!Crossed => \A c \in Checkers : Seen(check'[c]) \/ check'[c] = check[c]
  <2> SUFFICES ASSUME check' = Status!Crossed, NEW c \in Checkers, check'[c] # check[c]
               PROVE  Seen(check'[c])
    OBVIOUS
  <2>1. check[c] \in Requested /\ check'[c] = [check[c] EXCEPT !.crossed = TRUE]
    BY <1>1 DEF Status!Crossed, StatusTyped, Status!Idle
  <2>2. check'[c].pc = check[c].pc /\ check'[c].of = check[c].of /\ check'[c].at = check[c].at
    BY <2>1 DEF Requested
  <2> QED BY <2>2 DEF PastInv, Seen, Told
<1>5. ASSUME NEW c \in Checkers, Status!Ask(c) PROVE PastInv'
  <2> DEFINE r == [pc |-> "probe", label |-> active, of |-> None, key |-> None, at |-> now, seen |-> source,
                   truth |-> Status!Current, crossed |-> Status!Editing]
  <2>1. r \in Requested
    <3>1. Status!Editing \in BOOLEAN
      BY DEF Status!Editing
    <3> QED BY <1>1, <3>1, CurrentIsFact DEF StatusTyped, Requested, Facts
  <2>2. Seen(r) /\ Seen(Status!Connection(r))
    BY <2>1, ConnectionSeen DEF Seen
  <2>3. live' = live /\ (check' = [check EXCEPT ![c] = r] \/ check' = [check EXCEPT ![c] = Status!Connection(r)])
    BY <1>5 DEF Status!Ask
  <2> QED BY <1>1, <1>3, <2>2, <2>3 DEF StatusTyped
<1>6. ASSUME NEW c \in Checkers, Status!Probed(c) PROVE PastInv'
  <2>1. check[c] \in Requested /\ check[c].pc = "probe"
    BY <1>1, <1>6 DEF Status!Probed, StatusTyped, Status!Idle
  <2>2. live' = live /\ check' = [check EXCEPT ![c] = Status!Connection(check[c])]
    BY <1>6 DEF Status!Probed
  <2> QED BY <1>1, <1>3, <2>1, <2>2, ConnectionSeen DEF StatusTyped
<1>7. ASSUME NEW c \in Checkers, Status!Tested(c) PROVE PastInv'
  <2> DEFINE q == check[c]
             entry == [until |-> q.at + Age, of |-> q.of, crossed |-> q.crossed]
             d == [q EXCEPT !.pc = "done"]
  <2>1. q \in Requested /\ q.pc = "test" /\ Witnessed(q.at, q.of)
    BY <1>1, <1>7 DEF Status!Tested, StatusTyped, Status!Idle, PastInv, Seen
  <2>2. q.at \in Nat /\ d.pc = "done" /\ d.of = q.of /\ d.at = q.at
    BY <2>1 DEF Requested
  <2>3. Dated(entry)
    BY <2>1, <2>2 DEF Dated
  <2>4. Seen(d)
    BY <2>1, <2>2 DEF Seen, Told
  <2>5. live' = [live EXCEPT ![q.key] = entry] /\ check' = [check EXCEPT ![c] = d]
    BY <1>7 DEF Status!Tested
  <2> QED BY <1>1, <1>3, <2>3, <2>4, <2>5 DEF StatusTyped
<1>8. ASSUME NEW e \in Editors, Status!Drop(e) PROVE PastInv'
  <2>1. check' = Status!Crossed /\ \A k \in LiveKeys : live'[k] = None
    BY <1>1, <1>8 DEF Status!Drop, StatusTyped
  <2> QED BY <1>3, <1>4, <2>1 DEF Dated
<1>9. ASSUME live' = live, check' = Status!Crossed \/ check' = check PROVE PastInv'
  BY <1>3, <1>4, <1>9
<1> QED
  BY <1>1, <1>5, <1>6, <1>7, <1>8, <1>9
  DEF Status!Step, Status!Reset, Status!RollBack, Status!FailReset, Status!Activate, Status!Save, Status!Begin,
      Status!Delete, Status!Update, Status!Create, Status!UpdatePrevention, Status!Tick

(***************************************************************************)
(* Whatever is edited under however many requests: a status tells of the   *)
(* platform that was active when the request looked, or less than the life *)
(* of an observation before (web-ui/routers/status.py:146-175).            *)
(***************************************************************************)
THEOREM StatusStaysRecent == ASSUME StatusAssumption PROVE Spec => []StatusIsRecent
<1> DEFINE Inv == focus = "status" => StatusInv /\ PastInv
<1>1. Init => Inv
  <2>1. Status!Init => PastInv
    BY DEF Status!Init, PastInv, Dated, Seen, Status!Idle, LiveKeys, ProfileNames
  <2> QED BY <2>1, QueriesStarts, StatusInitHolds
<1>2. Inv /\ [Next]_vars => Inv'
  <2>1. StatusInv /\ PastInv /\ [Status!Next]_(Status!vars) => StatusInv'
    BY StatusStepHolds
  <2>2. PastInv /\ UNCHANGED Status!vars => PastInv'
    BY DEF Status!vars, Status!kept, PastInv, Dated, Seen, Told, Witnessed, Status!Current
  <2> QED BY <2>1, <2>2, PastStepHolds, QueriesSteps
<1>3. Inv => StatusIsRecent
  <2> SUFFICES ASSUME Inv, focus = "status", NEW c \in Checkers, check[c].pc = "done"
               PROVE  \E seen \in past : /\ seen[2] = check[c].of
                                         /\ seen[1] = check[c].at \/ (seen[1] < check[c].at /\ check[c].at < seen[1] + Age)
    BY DEF StatusIsRecent, Status!StatusIsRecent
  <2>1. PICK at \in Nat : <<at, check[c].of>> \in past /\ (at = check[c].at \/ (at < check[c].at /\ check[c].at < at + Age))
    BY DEF PastInv, Seen, Told, Witnessed
  <2> QED BY <2>1
<1> QED BY <1>1, <1>2, <1>3, PTL DEF Spec

----------------------------------------------------------------------------
(* AssetVocabulary: the assets the skill keeps are those there are.        *)

NamesAssumption == None \notin Profiles

Resetting == \E t \in Workers : thread[t].pc = "forget"
Announced(kind, p) == \E e \in announced : e.kind = kind /\ e.profile = p

\* The entity files of profile p are about to be written anew.
Due(p) ==
    \/ Announced("assets", p)
    \/ \E t \in Workers : thread[t].pc \in {"forget", "unmark", "generate"} /\ thread[t].kind = "assets" /\ thread[t].profile = p
Writing(t) == thread[t].pc = "write"

\* What was read of the assets is current, or about to be dropped.
Fresh(found) ==
    /\ found.platform \in {adapter, None} \/ Resetting
    /\ found.rows.edition \in {rows[found.rows.profile], None} \/ Announced("assets", found.rows.profile) \/ Resetting

AdapterFollows == adapter = Names!Platform(active) \/ \E e \in announced : e.kind = "activated"

EntitiesFollow ==
    /\ \/ entities.edition = rows[entities.profile]
       \/ Due(entities.profile)
       \/ \E t \in Workers : Writing(t) /\ thread[t].found.profile = entities.profile
    /\ \A t \in Workers : Writing(t) =>
          \/ thread[t].found.edition = rows[thread[t].found.profile]
          \/ Due(thread[t].found.profile)
          \/ \E u \in Workers \ {t} : Writing(u)

ReadersFollow ==
    \A t \in Workers :
        /\ thread[t].pc = "rows" => thread[t].platform \in {adapter, None} \/ Resetting
        /\ thread[t].pc = "store" => Fresh(thread[t].found) /\ thread[t].found.rows.profile = thread[t].profile
        /\ thread[t].pc = "mark" => registry = None \/ registry.rows.profile = thread[t].profile

RegistryFollows ==
    registry # None =>
        /\ Fresh(registry)
        /\ label \in {None, registry.rows.profile} \/ \E t \in Workers : thread[t].pc = "mark"

Note(x) == x = [profile |-> x.profile, edition |-> x.edition] /\ x.profile \in Profiles
Listed(x) == x = [platform |-> x.platform, rows |-> x.rows] /\ Note(x.rows)
NamesTyped ==
    /\ active \in Profiles
    /\ DOMAIN platform = Profiles /\ DOMAIN rows = Profiles
    /\ \A e \in announced : e.profile \in Profiles
    /\ Note(entities)
    /\ registry # None => Listed(registry)
    /\ DOMAIN thread = Workers
    /\ \A t \in Workers :
          /\ thread[t].pc \in {"idle", "label", "list", "adapter", "rows", "store", "mark", "forget", "unmark",
                "generate", "write"}
          /\ thread[t].pc \in {"forget", "unmark", "generate"} => DOMAIN thread[t] = {"pc", "kind", "profile"}
          /\ thread[t].pc \notin {"idle", "write"} => thread[t].profile \in Profiles
          /\ thread[t].pc = "store" => Listed(thread[t].found)
          /\ Writing(t) => Note(thread[t].found)

NamesFollow == AdapterFollows /\ EntitiesFollow /\ ReadersFollow /\ RegistryFollows
NamesInv == NamesTyped /\ (~raced => NamesFollow)

LEMMA NamesInitHolds == Names!Init => NamesInv
BY DEF Names!Init, NamesInv, NamesFollow, NamesTyped, Note, AdapterFollows, EntitiesFollow, ReadersFollow,
      RegistryFollows,
   Names!Platform, Names!Assets, Names!Idle, Writing

LEMMA NamesTypedHolds == ASSUME NamesTyped, [Names!Next]_(Names!vars) PROVE NamesTyped'
<1>1. CASE Names!SavePlatform \/ \E p \in Profiles : Names!Activate(p) \/ Names!SaveAssets(p)
  BY <1>1 DEF Names!SavePlatform, Names!Activate, Names!SaveAssets, Names!Change, Names!Announce, Names!Lose,
        NamesTyped, Note, Listed, Writing, Names!Platform, Names!Assets, Names!web, Names!kept, Names!Goto, Names!At,
        Names!Idle
<1>2. ASSUME NEW t \in Workers, Names!Ask(t, TRUE) \/ Names!Ask(t, FALSE) \/ Names!ReadLabel(t) \/ Names!ReadList(t)
      PROVE  NamesTyped'
  BY <1>2 DEF Names!Ask, Names!ReadLabel, Names!ReadList, NamesTyped, Writing, Names!Platform, Names!Assets,
        Names!web, Names!kept, Names!Goto, Names!At, Names!Idle
<1>3. ASSUME NEW t \in Workers, Names!FromAdapter(t) PROVE NamesTyped'
  BY <1>3 DEF Names!FromAdapter, NamesTyped, Writing, Names!web, Names!kept, Names!Goto, Names!At
<1>10. ASSUME NEW t \in Workers, Names!FromSettings(t) PROVE NamesTyped'
  <2>0. PICK part \in {Names!Assets(thread[t].profile), Names!Unread(thread[t].profile)} :
          Names!Goto(t, [pc |-> "store", profile |-> thread[t].profile,
                         found |-> [platform |-> thread[t].platform, rows |-> part]])
    BY <1>10 DEF Names!FromSettings
  <2> DEFINE found == [platform |-> thread[t].platform, rows |-> part]
  <2>1. Listed(found) /\ thread[t].pc = "rows"
    <3>1. thread[t].pc = "rows" /\ thread[t].profile \in Profiles
      BY <1>10 DEF Names!FromSettings, Names!At, NamesTyped
    <3>2. Note(part)
      BY <3>1 DEF Note, Names!Assets, Names!Unread
    <3> HIDE DEF Note
    <3> QED BY <3>1, <3>2 DEF Listed
  <2>2. thread' = [thread EXCEPT ![t] = [pc |-> "store", profile |-> thread[t].profile, found |-> found]]
        /\ UNCHANGED <<Names!web, announced, Names!kept>>
    BY <1>10, <2>0 DEF Names!FromSettings, Names!Goto
  <2> HIDE DEF found
  <2> QED BY <2>1, <2>2 DEF NamesTyped, Writing, Names!web, Names!kept
<1>4. ASSUME NEW t \in Workers, Names!Store(t) \/ Names!Mark(t) PROVE NamesTyped'
  BY <1>4 DEF Names!Store, Names!Mark, NamesTyped, Writing, Names!Platform, Names!Assets, Names!web, Names!kept,
        Names!Goto, Names!At, Names!Idle
<1>5. ASSUME NEW t \in Workers, Names!Reload(t) \/ Names!AssetsUpdated(t) PROVE NamesTyped'
  BY <1>5 DEF Names!Reload, Names!AssetsUpdated, NamesTyped, Writing, Names!Platform, Names!Assets, Names!web,
        Names!kept, Names!Goto, Names!At, Names!Idle
<1>6. ASSUME NEW t \in Workers, Names!Forget(t) \/ Names!Unmark(t) PROVE NamesTyped'
  BY <1>6 DEF Names!Forget, Names!Unmark, NamesTyped, Writing, Names!Platform, Names!Assets, Names!web, Names!kept,
        Names!Goto, Names!At, Names!Idle
<1>7. ASSUME NEW t \in Workers, Names!Generate(t) PROVE NamesTyped'
  <2>1. Note(Names!Assets(thread[t].profile)) /\ thread[t].pc = "generate"
    BY <1>7 DEF Names!Generate, Names!At, NamesTyped, Note, Names!Assets
  <2>2. thread' = [thread EXCEPT ![t] = [pc |-> "write", found |-> Names!Assets(thread[t].profile)]]
        /\ UNCHANGED <<Names!web, announced, Names!kept>>
    BY <1>7 DEF Names!Generate, Names!Goto, Names!web, Names!kept
  <2> QED BY <2>1, <2>2 DEF NamesTyped, Writing, Names!web, Names!kept
<1>9. ASSUME NEW t \in Workers, Names!Write(t) \/ Names!FailWrite(t) PROVE NamesTyped'
  BY <1>9 DEF Names!Write, Names!FailWrite, NamesTyped, Writing, Names!web, Names!kept, Names!Goto, Names!At, Names!Idle
<1>8. CASE UNCHANGED Names!vars
  BY <1>8 DEF Names!vars, NamesTyped, Writing, Names!Platform, Names!Assets, Names!web, Names!kept, Names!Goto,
        Names!At, Names!Idle
<1> QED BY <1>1, <1>2, <1>3, <1>4, <1>5, <1>6, <1>7, <1>8, <1>9, <1>10 DEF Names!Next

LEMMA EditFollows ==
  ASSUME NamesTyped, NamesFollow, ~raced', Names!SavePlatform \/ \E p \in Profiles : Names!Activate(p) \/ Names!SaveAssets(p)
  PROVE  NamesFollow'
<1>1. PICK kind \in {"activated", "assets"}, p \in Profiles :
         /\ announced' = announced \cup {[kind |-> kind, profile |-> p, id |-> edits]}
         /\ UNCHANGED <<adapter, registry, label, entities, thread, raced>>
         /\ kind = "assets" => UNCHANGED <<active, platform>> /\ rows' = [rows EXCEPT ![p] = @ + 1]
         /\ kind = "activated" => UNCHANGED rows
  BY DEF Names!SavePlatform, Names!Activate, Names!SaveAssets, Names!Change, Names!Announce, Names!Lose, Names!kept,
        NamesTyped
<1> DEFINE event == [kind |-> kind, profile |-> p, id |-> edits]
<1>2. announced \subseteq announced' /\ Announced(kind, p)'
  <2>1. event \in announced' /\ event.kind = kind /\ event.profile = p
    BY <1>1
  <2> QED BY <1>1, <2>1 DEF Announced
<1>3. \A q \in Profiles : rows'[q] = rows[q] \/ (q = p /\ kind = "assets")
  BY <1>1 DEF NamesTyped
<1> HIDE <1>1 DEF event
<1>0. UNCHANGED <<adapter, registry, label, entities, thread>> /\ (kind = "assets" => UNCHANGED <<active, platform>>)
  BY <1>1
<1>4. AdapterFollows'
  BY <1>0, <1>2 DEF NamesFollow, AdapterFollows, Names!Platform, Announced
<1>5. \A q : Due(q) => Due(q)'
  BY <1>0, <1>2 DEF Due, Announced
<1>6. \A q \in Profiles : rows'[q] = rows[q] \/ (Due(q)' /\ Announced("assets", q)')
  BY <1>2, <1>3 DEF Due
<1>7. EntitiesFollow'
  <2>1. EntitiesFollow /\ entities.profile \in Profiles /\ \A t \in Workers : Writing(t) => thread[t].found.profile \in Profiles
    BY DEF NamesFollow, NamesTyped, Note
  <2> QED BY <2>1, <1>0, <1>5, <1>6 DEF EntitiesFollow, Writing
<1>8. \A found : found.rows.profile \in Profiles /\ Fresh(found) => Fresh(found)'
  BY <1>0, <1>2, <1>6 DEF Fresh, Announced, Resetting
<1>9. ReadersFollow'
  BY <1>0, <1>8 DEF NamesFollow, NamesTyped, Note, Listed, ReadersFollow, Resetting
<1>10. RegistryFollows'
  BY <1>0, <1>8 DEF NamesFollow, NamesTyped, Note, Listed, RegistryFollows
<1> QED BY <1>4, <1>7, <1>9, <1>10 DEF NamesFollow

LEMMA AskFollows ==
  ASSUME NamesTyped, NamesFollow, ~raced', NEW t \in Workers, Names!Ask(t, TRUE) \/ Names!Ask(t, FALSE)
        \/ Names!ReadLabel(t) \/ Names!ReadList(t)
  PROVE  NamesFollow'
<1> USE DEF Names!Ask, Names!ReadLabel, Names!ReadList,
           Names!web, Names!kept, Names!Goto, Names!At, Names!Idle, Names!Reading,
           NamesTyped, NamesFollow, AdapterFollows, EntitiesFollow, ReadersFollow, RegistryFollows,
           Fresh, Due, Announced, Resetting, Writing, Names!Platform, Names!Assets
<1>1. AdapterFollows'
  OBVIOUS
<1>2. EntitiesFollow'
  OBVIOUS
<1>3. ReadersFollow'
  OBVIOUS
<1>4. RegistryFollows'
  OBVIOUS
<1> QED BY <1>1, <1>2, <1>3, <1>4

LEMMA ReadFollows ==
  ASSUME NamesTyped, NamesFollow, ~raced', NEW t \in Workers, Names!FromAdapter(t) \/ Names!FromSettings(t)
  PROVE  NamesFollow'
<1> USE DEF Names!FromAdapter, Names!FromSettings,
           Names!web, Names!kept, Names!Goto, Names!At, Names!Idle, Names!Reading,
           NamesTyped, NamesFollow, AdapterFollows, EntitiesFollow, ReadersFollow, RegistryFollows,
           Fresh, Due, Announced, Resetting, Writing, Names!Platform, Names!Assets, Names!Unread
<1>1. AdapterFollows'
  OBVIOUS
<1>2. EntitiesFollow'
  OBVIOUS
<1>3. ReadersFollow'
  OBVIOUS
<1>4. RegistryFollows'
  OBVIOUS
<1> QED BY <1>1, <1>2, <1>3, <1>4

LEMMA StoreFollows ==
  ASSUME NamesTyped, NamesFollow, ~raced', NEW t \in Workers, Names!Store(t)
  PROVE  NamesFollow'
<1>1. AdapterFollows'
  BY DEF Names!Store, Names!web, Names!kept, Names!Goto, Names!At, Names!Idle, Names!Reading,
     NamesTyped, NamesFollow, AdapterFollows, EntitiesFollow, ReadersFollow, RegistryFollows,
     Fresh, Due, Announced, Resetting, Writing, Names!Platform, Names!Assets
<1>2. EntitiesFollow'
  BY DEF Names!Store, Names!web, Names!kept, Names!Goto, Names!At, Names!Idle, Names!Reading,
     NamesTyped, NamesFollow, AdapterFollows, EntitiesFollow, ReadersFollow, RegistryFollows,
     Fresh, Due, Announced, Resetting, Writing, Names!Platform, Names!Assets
<1>3. ReadersFollow'
  <2>1. /\ thread[t].pc = "store" /\ registry' = thread[t].found /\ ~raced /\ UNCHANGED <<rows, announced, adapter>>
        /\ thread' = [thread EXCEPT ![t] = [pc |-> "mark", profile |-> thread[t].profile]]
        /\ \A u \in Workers : thread[u].pc = "mark" => thread[u].profile = thread[t].profile
    BY DEF Names!Store, Names!web, Names!Goto, Names!At, Names!Reading
  <2>2. Resetting <=> Resetting'
    BY <2>1 DEF Resetting, NamesTyped
  <2>3. \A found : Fresh(found) => Fresh(found)'
    BY <2>1, <2>2 DEF Fresh, Announced
  <2>4. registry'.rows.profile = thread[t].profile
    BY <2>1 DEF NamesFollow, ReadersFollow
  <2> QED BY <2>1, <2>2, <2>3, <2>4 DEF NamesFollow, ReadersFollow, NamesTyped
<1>4. RegistryFollows'
  BY DEF Names!Store, Names!web, Names!kept, Names!Goto, Names!At, Names!Idle, Names!Reading,
     NamesTyped, NamesFollow, AdapterFollows, EntitiesFollow, ReadersFollow, RegistryFollows,
     Fresh, Due, Announced, Resetting, Writing, Names!Platform, Names!Assets
<1> QED BY <1>1, <1>2, <1>3, <1>4 DEF NamesFollow

LEMMA MarkFollows ==
  ASSUME NamesTyped, NamesFollow, ~raced', NEW t \in Workers, Names!Mark(t)
  PROVE  NamesFollow'
<1> USE DEF Names!Mark,
           Names!web, Names!kept, Names!Goto, Names!At, Names!Idle, Names!Reading,
           NamesTyped, NamesFollow, AdapterFollows, EntitiesFollow, ReadersFollow, RegistryFollows,
           Fresh, Due, Announced, Resetting, Writing, Names!Platform, Names!Assets
<1>1. AdapterFollows'
  OBVIOUS
<1>2. EntitiesFollow'
  OBVIOUS
<1>3. ReadersFollow'
  OBVIOUS
<1>4. RegistryFollows'
  OBVIOUS
<1> QED BY <1>1, <1>2, <1>3, <1>4

LEMMA ReloadFollows ==
  ASSUME NamesTyped, NamesFollow, ~raced', NEW t \in Workers, Names!Reload(t)
  PROVE  NamesFollow'
<1> USE DEF Names!Reload,
           Names!web, Names!kept, Names!Goto, Names!At, Names!Idle, Names!Reading,
           NamesTyped, NamesFollow, AdapterFollows, EntitiesFollow, ReadersFollow, RegistryFollows,
           Fresh, Due, Announced, Resetting, Writing, Names!Platform, Names!Assets
<1>1. AdapterFollows'
  OBVIOUS
<1>2. EntitiesFollow'
  OBVIOUS
<1>3. ReadersFollow'
  OBVIOUS
<1>4. RegistryFollows'
  OBVIOUS
<1> QED BY <1>1, <1>2, <1>3, <1>4

LEMMA UpdateFollows ==
  ASSUME NamesTyped, NamesFollow, ~raced', NEW t \in Workers, Names!AssetsUpdated(t)
  PROVE  NamesFollow'
<1> USE DEF Names!AssetsUpdated,
           Names!web, Names!kept, Names!Goto, Names!At, Names!Idle, Names!Reading,
           NamesTyped, NamesFollow, AdapterFollows, EntitiesFollow, ReadersFollow, RegistryFollows,
           Fresh, Due, Announced, Resetting, Writing, Names!Platform, Names!Assets
<1>1. AdapterFollows'
  OBVIOUS
<1>2. EntitiesFollow'
  OBVIOUS
<1>3. ReadersFollow'
  OBVIOUS
<1>4. RegistryFollows'
  OBVIOUS
<1> QED BY <1>1, <1>2, <1>3, <1>4

LEMMA ForgetFollows ==
  ASSUME NamesTyped, NamesFollow, ~raced', NEW t \in Workers, Names!Forget(t)
  PROVE  NamesFollow'
<1>1. AdapterFollows'
  BY DEF Names!Forget, Names!web, Names!kept, Names!Goto, Names!At, Names!Idle, Names!Reading,
     NamesTyped, NamesFollow, AdapterFollows, EntitiesFollow, ReadersFollow, RegistryFollows,
     Fresh, Due, Announced, Resetting, Writing, Names!Platform, Names!Assets
<1>2. EntitiesFollow'
  BY DEF Names!Forget, Names!web, Names!kept, Names!Goto, Names!At, Names!Idle, Names!Reading,
     NamesTyped, NamesFollow, AdapterFollows, EntitiesFollow, ReadersFollow, RegistryFollows,
     Fresh, Due, Announced, Resetting, Writing, Names!Platform, Names!Assets
<1>3. ReadersFollow'
  <2>1. /\ \A u \in Workers : thread[u].pc \notin {"rows", "store", "mark"}
        /\ thread[t].pc = "forget" /\ thread' = [thread EXCEPT ![t] = [thread[t] EXCEPT !.pc = "unmark"]]
    BY DEF Names!Forget, Names!Goto, Names!At, Names!Reading
  <2>2. \A u \in Workers : thread'[u].pc \notin {"rows", "store", "mark"}
    BY <2>1 DEF NamesTyped
  <2> QED BY <2>2 DEF ReadersFollow
<1>4. RegistryFollows'
  BY DEF Names!Forget, Names!web, Names!kept, Names!Goto, Names!At, Names!Idle, Names!Reading,
     NamesTyped, NamesFollow, AdapterFollows, EntitiesFollow, ReadersFollow, RegistryFollows,
     Fresh, Due, Announced, Resetting, Writing, Names!Platform, Names!Assets
<1> QED BY <1>1, <1>2, <1>3, <1>4 DEF NamesFollow

LEMMA UnmarkFollows ==
  ASSUME NamesTyped, NamesFollow, ~raced', NEW t \in Workers, Names!Unmark(t)
  PROVE  NamesFollow'
<1> USE DEF Names!Unmark,
           Names!web, Names!kept, Names!Goto, Names!At, Names!Idle, Names!Reading,
           NamesTyped, NamesFollow, AdapterFollows, EntitiesFollow, ReadersFollow, RegistryFollows,
           Fresh, Due, Announced, Resetting, Writing, Names!Platform, Names!Assets
<1>1. AdapterFollows'
  OBVIOUS
<1>2. EntitiesFollow'
  OBVIOUS
<1>3. ReadersFollow'
  OBVIOUS
<1>4. RegistryFollows'
  OBVIOUS
<1> QED BY <1>1, <1>2, <1>3, <1>4

LEMMA GenerateFollows ==
  ASSUME NamesTyped, NamesFollow, ~raced', NEW t \in Workers, Names!Generate(t)
  PROVE  NamesFollow'
<1> USE DEF Names!Generate,
           Names!web, Names!kept, Names!Goto, Names!At, Names!Idle, Names!Reading,
           NamesTyped, NamesFollow, AdapterFollows, EntitiesFollow, ReadersFollow, RegistryFollows,
           Fresh, Due, Announced, Resetting, Writing, Names!Platform, Names!Assets
<1>1. AdapterFollows'
  OBVIOUS
<1>2. EntitiesFollow'
  OBVIOUS
<1>3. ReadersFollow'
  OBVIOUS
<1>4. RegistryFollows'
  OBVIOUS
<1> QED BY <1>1, <1>2, <1>3, <1>4

LEMMA WriteFollows ==
  ASSUME NamesTyped, NamesFollow, ~raced', NEW t \in Workers, Names!Write(t)
  PROVE  NamesFollow'
<1>1. AdapterFollows'
  BY DEF Names!Write, Names!web, Names!kept, Names!Goto, Names!At, Names!Idle, Names!Reading,
     NamesTyped, NamesFollow, AdapterFollows, EntitiesFollow, ReadersFollow, RegistryFollows,
     Fresh, Due, Announced, Resetting, Writing, Names!Platform, Names!Assets
<1>2. EntitiesFollow'
  <2>1. /\ Writing(t) /\ entities' = thread[t].found /\ UNCHANGED <<rows, announced>>
        /\ thread' = [thread EXCEPT ![t] = Names!Idle]
        /\ \A u \in Workers \ {t} : ~Writing(u)
    BY DEF Names!Write, Names!web, Names!Goto, Names!At, Writing
  <2>2. \A p : Due(p) => Due(p)'
    BY <2>1 DEF Due, Announced, Writing, NamesTyped
  <2>3. \A u \in Workers : ~Writing(u)'
    BY <2>1 DEF Writing, Names!Idle, NamesTyped
  <2>4. thread[t].found.edition = rows[thread[t].found.profile] \/ Due(thread[t].found.profile)
    BY <2>1 DEF NamesFollow, EntitiesFollow
  <2> QED BY <2>1, <2>2, <2>3, <2>4 DEF EntitiesFollow
<1>3. ReadersFollow'
  BY DEF Names!Write, Names!web, Names!kept, Names!Goto, Names!At, Names!Idle, Names!Reading,
     NamesTyped, NamesFollow, AdapterFollows, EntitiesFollow, ReadersFollow, RegistryFollows,
     Fresh, Due, Announced, Resetting, Writing, Names!Platform, Names!Assets
<1>4. RegistryFollows'
  BY DEF Names!Write, Names!web, Names!kept, Names!Goto, Names!At, Names!Idle, Names!Reading,
     NamesTyped, NamesFollow, AdapterFollows, EntitiesFollow, ReadersFollow, RegistryFollows,
     Fresh, Due, Announced, Resetting, Writing, Names!Platform, Names!Assets
<1> QED BY <1>1, <1>2, <1>3, <1>4 DEF NamesFollow

LEMMA NamesStepHolds == ASSUME NamesInv, [Names!Next]_(Names!vars) PROVE NamesInv'
<1>1. NamesTyped /\ NamesTyped'
  BY NamesTypedHolds DEF NamesInv
<1>2. ASSUME ~raced' PROVE NamesFollow'
  <2>1. raced => raced'
    BY DEF Names!Next, Names!vars, Names!kept, Names!SavePlatform, Names!Activate, Names!SaveAssets, Names!Change,
          Names!Announce,
       Names!Lose, Names!Ask, Names!ReadLabel, Names!ReadList, Names!FromAdapter, Names!FromSettings, Names!Store, Names!Mark,
       Names!Reload, Names!AssetsUpdated, Names!Forget, Names!Unmark, Names!Generate, Names!Write, Names!FailWrite
  <2>2. NamesFollow
    BY <1>2, <2>1 DEF NamesInv
  <2>3. CASE UNCHANGED Names!vars
    BY <2>2, <2>3 DEF Names!vars, NamesFollow, AdapterFollows, EntitiesFollow, ReadersFollow, RegistryFollows, Fresh,
          Due,
       Announced, Resetting, Writing, Names!Platform, Names!Assets
  <2>4. ~\E t \in Workers : Names!FailWrite(t)
    BY <1>2 DEF Names!FailWrite
  <2> QED BY <1>1, <1>2, <2>2, <2>3, <2>4, EditFollows, AskFollows, ReadFollows, StoreFollows, MarkFollows, ReloadFollows,
        UpdateFollows,
             ForgetFollows, UnmarkFollows, GenerateFollows, WriteFollows DEF Names!Next
<1> QED BY <1>1, <1>2 DEF NamesInv

\* Whatever threads read, store, reset and write at the same time, once all that
\* was announced is done with the registry and the entity files are those of the
\* assets there are (_asset_resolution.py:33), unless the race that spoils them is
\* on record.
THEOREM NamesHold == ASSUME NamesAssumption PROVE Spec => []NamesAreCurrent
<1> DEFINE Inv == focus = "names" => NamesInv
<1>1. Init => Inv
  BY QueriesStarts, NamesInitHolds
<1>2. Inv /\ [Next]_vars => Inv'
  BY QueriesSteps, NamesStepHolds
<1>3. Inv => NamesAreCurrent
  <2> SUFFICES ASSUME NamesInv, ~raced, announced = {}, \A t \in Workers : thread[t] = Names!Idle
               PROVE  /\ entities = Names!Assets(entities.profile)
                      /\ (adapter.profile = active /\ label = active /\ registry # None) =>
                            registry \in [platform : {Names!Platform(active), None},
                                          rows : {Names!Assets(active), Names!Unread(active)}]
    BY DEF NamesAreCurrent, Names!NamesAreCurrent
  <2>1. \A t \in Workers : thread[t].pc = "idle"
    BY DEF Names!Idle
  <2>2. Note(entities) /\ (registry # None => Listed(registry)) /\ active \in Profiles /\ AdapterFollows
        /\ EntitiesFollow /\ RegistryFollows
    BY DEF NamesInv, NamesTyped, NamesFollow
  <2>3. entities = Names!Assets(entities.profile)
    BY <2>1, <2>2 DEF EntitiesFollow, Due, Announced, Writing, Note, Names!Assets
  <2>4. adapter = Names!Platform(active)
    BY <2>2 DEF AdapterFollows
  <2>5. ASSUME label = active, registry # None PROVE registry \in [platform : {adapter, None}, rows : {Names!Assets(active), Names!Unread(active)}]
    <3>1. registry.platform \in {adapter, None} /\ registry.rows.edition \in {rows[registry.rows.profile], None} /\ registry.rows.profile = active
      BY <2>1, <2>2, <2>5 DEF RegistryFollows, Fresh, Announced, Resetting, NamesAssumption
    <3>2. registry.rows \in {Names!Assets(active), Names!Unread(active)}
      BY <3>1, <2>2, <2>5 DEF Listed, Note, Names!Assets, Names!Unread
    <3> QED BY <3>1, <3>2, <2>2, <2>5 DEF Listed
  <2> QED BY <2>3, <2>4, <2>5
<1> QED BY <1>1, <1>2, <1>3, PTL DEF Spec

----------------------------------------------------------------------------
(* QueryExecution: how batches end.                                        *)

CallsAssumption == ThreadsAssumption /\ "worker" \notin Callers /\ MaxCache \in Nat

KeysOf(q) == {v.key : v \in Elements(q)}
KeyAt(c) == call[c].batch[call[c].i]

JobsBoth == jobs = [queue |-> jobs.queue, run |-> jobs.run]
CallsTyped == IsQueue(cache) /\ DOMAIN closing = {"stage", "due"} /\ JobsBoth

\* The entry a caller has found is there while it moves it, or the race is noted.
FoundStays == \A c \in Callers : call[c].pc = "touch" => c \in raced \/ KeyAt(c) \in KeysOf(cache)

FailedFor ==
    \A c \in Callers :
        /\ call[c].pc = "error" => c \in raced \/ closing.stage \in {"join", "down"}
        /\ call[c].pc = "refused" => Threads!Refused(call[c].batch)

\* A caller that waits does so for a job that is queued or runs, and none is
\* queued once the executor is shut down.
Asked(c, j) == j.by = c /\ j.id = call[c].id
WaitServed ==
    \A c \in Callers : call[c].pc = "wait" => Asked(c, jobs.run) \/ \E j \in Elements(jobs.queue) : Asked(c, j)
QueueShut ==
    /\ closing.stage \in {"join", "down"} => jobs.queue = <<>>
    /\ closing.stage = "down" => jobs.run = Threads!NoJob

CallsInv == ThreadsInv /\ CallsTyped /\ FoundStays /\ FailedFor /\ WaitServed /\ QueueShut

LEMMA WithoutKeeps ==
  ASSUME IsQueue(cache), NEW k
  PROVE  /\ IsQueue(Threads!Without(k)) /\ KeysOf(cache) \ {k} \subseteq KeysOf(Threads!Without(k))
         /\ Threads!Entries(k) = {} <=> k \notin KeysOf(cache)
         /\ Threads!Entries(k) # {} => Threads!Entry(k).key = k
<1>1. PICK S : cache \in Seq(S)
  BY DEF IsQueue
<1>2. DOMAIN cache = 1..Len(cache) /\ Len(cache) \in Nat
  BY <1>1
<1>3. /\ Threads!Entries(k) = {} <=> k \notin KeysOf(cache)
      /\ Threads!Entries(k) # {} => Threads!Entry(k).key = k
  BY <1>2 DEF Threads!Entries, Threads!Entry, Threads!Place, KeysOf, Elements
<1>4. CASE Threads!Entries(k) = {}
  BY <1>3, <1>4 DEF Threads!Without
<1>5. CASE Threads!Entries(k) # {}
  <2> DEFINE p == Threads!Place(k)  w == Threads!Without(k)
  <2>1. p \in 1..Len(cache) /\ cache[p].key = k
    BY <1>5 DEF Threads!Place, Threads!Entries
  <2>2. w = SubSeq(cache, 1, p - 1) \o SubSeq(cache, p + 1, Len(cache))
    BY <1>5 DEF Threads!Without, Threads!RemoveAt
  <2> HIDE DEF p, w
  <2>3. /\ SubSeq(cache, 1, p - 1) \in Seq(S) /\ Len(SubSeq(cache, 1, p - 1)) = p - 1
        /\ \A n \in 1..(p - 1) : SubSeq(cache, 1, p - 1)[n] = cache[n]
    <3>1. 1 \in Int /\ p - 1 \in Int /\ \A n \in 1..(p - 1) : cache[n] \in S
      BY <1>1, <1>2, <2>1
    <3> QED BY <3>1, <2>1, <1>2, SubSeqProperties
  <2>4. /\ SubSeq(cache, p + 1, Len(cache)) \in Seq(S) /\ Len(SubSeq(cache, p + 1, Len(cache))) = Len(cache) - p
        /\ \A n \in 1..(Len(cache) - p) : SubSeq(cache, p + 1, Len(cache))[n] = cache[n + p]
    <3>1. p + 1 \in Int /\ Len(cache) \in Int /\ \A n \in (p + 1)..Len(cache) : cache[n] \in S
      BY <1>1, <1>2, <2>1
    <3> DEFINE t == SubSeq(cache, p + 1, Len(cache))
    <3>2. /\ t \in Seq(S) /\ Len(t) = (IF p + 1 <= Len(cache) THEN Len(cache) - (p + 1) + 1 ELSE 0)
          /\ \A n \in 1..(Len(cache) - (p + 1) + 1) : t[n] = cache[p + 1 + n - 1]
      BY <3>1, SubSeqProperties
    <3> HIDE DEF t
    <3>3. Len(t) = Len(cache) - p /\ Len(cache) - (p + 1) + 1 = Len(cache) - p
      BY <3>2, <2>1, <1>2
    <3>4. \A n \in 1..(Len(cache) - p) : p + 1 + n - 1 = n + p
      BY <2>1, <1>2
    <3>5. t \in Seq(S) /\ Len(t) = Len(cache) - p /\ \A n \in 1..(Len(cache) - p) : t[n] = cache[n + p]
      BY <3>2, <3>3, <3>4
    <3> QED BY <3>5 DEF t
  <2>5. /\ w \in Seq(S) /\ Len(w) = Len(cache) - 1 /\ DOMAIN w = 1..(Len(cache) - 1)
        /\ \A n \in 1..(Len(cache) - 1) : w[n] = IF n < p THEN cache[n] ELSE cache[n + 1]
    <3> DEFINE s1 == SubSeq(cache, 1, p - 1)  s2 == SubSeq(cache, p + 1, Len(cache))
    <3>1. s1 \in Seq(S) /\ Len(s1) = p - 1 /\ s2 \in Seq(S) /\ Len(s2) = Len(cache) - p /\ w = s1 \o s2
          /\ (\A n \in 1..(p - 1) : s1[n] = cache[n]) /\ (\A n \in 1..(Len(cache) - p) : s2[n] = cache[n + p])
      BY <2>2, <2>3, <2>4
    <3> HIDE DEF s1, s2
    <3>2. /\ w \in Seq(S) /\ Len(w) = Len(s1) + Len(s2)
          /\ \A n \in 1..(Len(s1) + Len(s2)) : w[n] = IF n <= Len(s1) THEN s1[n] ELSE s2[n - Len(s1)]
      BY <3>1, ConcatProperties
    <3>3. Len(s1) + Len(s2) = Len(cache) - 1 /\ Len(cache) - 1 \in Nat
      BY <3>1, <2>1, <1>2
    <3>4. \A n \in 1..(Len(cache) - 1) : w[n] = IF n < p THEN cache[n] ELSE cache[n + 1]
      <4> SUFFICES ASSUME NEW n \in 1..(Len(cache) - 1) PROVE w[n] = IF n < p THEN cache[n] ELSE cache[n + 1]
        OBVIOUS
      <4>1. CASE n < p
        BY <4>1, <3>1, <3>2, <3>3, <2>1, <1>2
      <4>2. CASE ~(n < p)
        <5>1. n - (p - 1) \in 1..(Len(cache) - p) /\ n - (p - 1) + p = n + 1 /\ ~(n <= p - 1)
          BY <4>2, <2>1, <1>2
        <5>2. w[n] = s2[n - (p - 1)]
          BY <5>1, <3>1, <3>2, <3>3
        <5>3. s2[n - (p - 1)] = cache[n + 1]
          BY <5>1, <3>1
        <5> QED BY <4>2, <5>2, <5>3
      <4> QED BY <4>1, <4>2
    <3> QED BY <3>2, <3>3, <3>4
  <2>6. ASSUME NEW v \in Elements(cache), v.key # k PROVE v \in Elements(w)
    <3>1. PICK n \in 1..Len(cache) : cache[n] = v
      BY <2>6, <1>2 DEF Elements
    <3>2. n # p
      BY <3>1, <2>1, <2>6
    <3>3. CASE n < p
      BY <3>1, <3>3, <2>1, <2>5, <1>2 DEF Elements
    <3>4. CASE n > p
      <4>1. n - 1 \in 1..(Len(cache) - 1) /\ w[n - 1] = v
        BY <3>1, <3>4, <2>1, <2>5, <1>2
      <4> QED BY <4>1, <2>5 DEF Elements
    <3> QED BY <3>1, <3>2, <3>3, <3>4, <1>2, <2>1
  <2>7. KeysOf(cache) \ {k} \subseteq KeysOf(w)
    BY <2>6 DEF KeysOf
  <2> QED BY <2>5, <2>7, <1>3 DEF IsQueue, w
<1> QED BY <1>4, <1>5

\* What is not too long is not cut.
LEMMA EvictedKeeps ==
  ASSUME MaxCache \in Nat, NEW s, IsQueue(s)
  PROVE  IsQueue(Threads!Evicted(s)) /\ (Len(s) <= MaxCache => Threads!Evicted(s) = s)
<1>1. PICK S : s \in Seq(S)
  BY DEF IsQueue
<1> DEFINE m == Threads!Max({1, Len(s) - MaxCache + 1})
<1>2. /\ m \in Nat \ {0} /\ (Len(s) <= MaxCache => m = 1)
      /\ Len(s) \in Nat
  BY <1>1 DEF Threads!Max
<1>3. Threads!Evicted(s) = SubSeq(s, m, Len(s))
  BY DEF Threads!Evicted
<1> HIDE DEF m
<1>4. SubSeq(s, m, Len(s)) \in Seq(S)
  BY <1>1, <1>2
<1>5. m = 1 => SubSeq(s, m, Len(s)) = s
  BY <1>1, <1>2
<1> QED BY <1>2, <1>3, <1>4, <1>5 DEF IsQueue

LEMMA HeadAndTail ==
  ASSUME NEW q, IsQueue(q), q # <<>>
  PROVE  Elements(q) = {Head(q)} \cup Elements(Tail(q))
<1>1. PICK S : q \in Seq(S)
  BY DEF IsQueue
<1>2. DOMAIN q = 1..Len(q) /\ Len(q) \in Nat \ {0}
  BY <1>1
<1>3. /\ DOMAIN Tail(q) = 1..(Len(q) - 1) /\ \A n \in 1..(Len(q) - 1) : Tail(q)[n] = q[n + 1]
      /\ Head(q) = q[1]
  BY <1>1, <1>2
<1>4. \A n \in 1..Len(q) : n = 1 \/ n - 1 \in 1..(Len(q) - 1)
  BY <1>2
<1>5. Elements(q) \subseteq {Head(q)} \cup Elements(Tail(q))
  <2>1. ASSUME NEW n \in 1..Len(q), n # 1 PROVE q[n] \in Elements(Tail(q))
    <3>1. n - 1 \in DOMAIN Tail(q) /\ Tail(q)[n - 1] = q[n]
      BY <1>2, <1>3, <1>4, <2>1
    <3> QED BY <3>1 DEF Elements
  <2> QED BY <2>1, <1>2, <1>3 DEF Elements
<1> QED BY <1>5, TailElements

LEMMA CallsInitHolds == CallsAssumption /\ Threads!Init => CallsInv
<1> SUFFICES ASSUME CallsAssumption, Threads!Init PROVE CallsInv
  OBVIOUS
<1>1. ThreadsInv
  BY ThreadsInitHolds
<1> QED BY <1>1, EmptyElements
     DEF Threads!Init, CallsInv, CallsTyped, FoundStays, FailedFor, WaitServed, QueueShut, Threads!Quiet, JobsBoth

\* The others' entries stay, and so do their calls, when a caller asks or looks.
LEMMA CallerEnds ==
  ASSUME CallsAssumption, CallsInv, NEW c \in Callers,
         Threads!Ask(c) \/ Threads!Look(c) \/ Threads!Touch(c) \/ Threads!GiveUp(c)
  PROVE  CallsTyped' /\ FoundStays' /\ FailedFor' /\ WaitServed' /\ QueueShut'
<1> DEFINE r == call[c]  k == r.batch[r.i]
<1>1. /\ UNCHANGED <<jobs, closing>> /\ \A d \in Callers : d # c => call'[d] = call[d]
  BY DEF Threads!Ask, Threads!Look, Threads!Touch, Threads!GiveUp, CallsInv, ThreadsInv, ThreadsTyped
<1>2. QueueShut' /\ DOMAIN closing' = {"stage", "due"}
  BY <1>1 DEF CallsInv, CallsTyped, JobsBoth, QueueShut
<1>3. call'[c].pc # "wait"
  <2>1. CASE Threads!Ask(c)
    BY <2>1 DEF Threads!Ask, CallsInv, ThreadsInv, ThreadsTyped, CallFields, Threads!Quiet
  <2>2. CASE Threads!Look(c)
    BY <2>2 DEF Threads!Look, CallsInv, ThreadsInv, ThreadsTyped, CallFields, Threads!Quiet
  <2>3. CASE Threads!Touch(c)
    BY <2>3 DEF Threads!Touch, CallsInv, ThreadsInv, ThreadsTyped, CallFields, Threads!Quiet
  <2>4. CASE Threads!GiveUp(c)
    BY <2>4 DEF Threads!GiveUp, CallsInv, ThreadsInv, ThreadsTyped, CallFields, Threads!Quiet
  <2> QED BY <2>1, <2>2, <2>3, <2>4
<1>4. WaitServed'
  BY <1>1, <1>3 DEF CallsInv, WaitServed, Asked
<1>5. call'[c].pc = "error" => Threads!Touch(c) /\ Threads!Entries(k) = {}
  <2>1. CASE Threads!Ask(c)
    BY <2>1 DEF Threads!Ask, CallsInv, ThreadsInv, ThreadsTyped, CallFields, Threads!Quiet
  <2>2. CASE Threads!Look(c)
    BY <2>2 DEF Threads!Look, CallsInv, ThreadsInv, ThreadsTyped, CallFields, Threads!Quiet
  <2>3. CASE Threads!Touch(c)
    BY <2>3 DEF Threads!Touch, CallsInv, ThreadsInv, ThreadsTyped, CallFields, Threads!Quiet
  <2>4. CASE Threads!GiveUp(c)
    BY <2>4 DEF Threads!GiveUp, CallsInv, ThreadsInv, ThreadsTyped, CallFields, Threads!Quiet
  <2> QED BY <2>1, <2>2, <2>3, <2>4
<1>12. call'[c].pc = "refused" => Threads!Refused(call'[c].batch)
  <2>1. CASE Threads!Ask(c)
    <3>1. PICK b \in Batches : call' = [call EXCEPT ![c] = [Threads!Quiet EXCEPT
          !.id = call[c].id + 1, !.batch = b, !.pc = IF Threads!Refused(b) THEN "refused" ELSE "look",
          !.asked = now, !.results = [i \in 1..Len(b) |-> Threads!Nothing]]]
      BY <2>1 DEF Threads!Ask
    <3>2. call'[c].batch = b /\ call'[c].pc = IF Threads!Refused(b) THEN "refused" ELSE "look"
      BY <3>1 DEF CallsInv, ThreadsInv, ThreadsTyped, Threads!Quiet
    <3> QED BY <3>2
  <2>2. CASE Threads!Look(c)
    BY <2>2 DEF Threads!Look, CallsInv, ThreadsInv, ThreadsTyped, CallFields
  <2>3. CASE Threads!Touch(c)
    BY <2>3 DEF Threads!Touch, CallsInv, ThreadsInv, ThreadsTyped, CallFields
  <2>4. CASE Threads!GiveUp(c)
    BY <2>4 DEF Threads!GiveUp, CallsInv, ThreadsInv, ThreadsTyped, CallFields
  <2> QED BY <2>1, <2>2, <2>3, <2>4
<1>6. /\ IsQueue(cache) /\ IsQueue(Threads!Without(k))
      /\ KeysOf(cache) \ {k} \subseteq KeysOf(Threads!Without(k))
      /\ Threads!Entries(k) = {} <=> k \notin KeysOf(cache)
      /\ Threads!Entries(k) # {} => Threads!Entry(k).key = k
  BY WithoutKeeps DEF CallsInv, CallsTyped, JobsBoth
<1>7. raced \ {c} \subseteq raced' /\ (~Threads!Ask(c) => raced \subseteq raced')
  BY DEF Threads!Ask, Threads!Look, Threads!Touch, Threads!GiveUp
<1>8. FailedFor'
  BY <1>1, <1>5, <1>6, <1>7, <1>12 DEF FailedFor, CallsInv, FoundStays, KeyAt, Threads!Touch
<1>9. /\ IsQueue(cache')
      /\ KeysOf(cache) \subseteq KeysOf(cache')
         \/ (k \in KeysOf(cache) /\ raced' = raced \cup Threads!Disturbed(c) /\ call'[c].pc # "touch")
  <2>1. CASE Threads!Ask(c) \/ Threads!GiveUp(c)
    BY <2>1, <1>6 DEF Threads!Ask, Threads!GiveUp
  <2>2. CASE Threads!Look(c)
    <3>1. CASE UNCHANGED cache
      BY <3>1, <1>6
    <3>2. CASE cache' # cache
      <4>1. /\ cache' = Threads!Without(k)
            /\ raced' = IF Threads!Entries(k) # {} THEN raced \cup Threads!Disturbed(c) ELSE raced
            /\ call' = [call EXCEPT ![c].i = @ + 1, ![c].missing = Append(@, r.i)]
            /\ r.pc = "look"
        BY <2>2, <3>2 DEF Threads!Look
      <4>2. call'[c].pc # "touch"
        BY <4>1 DEF CallsInv, ThreadsInv, ThreadsTyped, CallFields
      <4>3. CASE Threads!Entries(k) = {}
        <5>1. cache' = cache
          BY <4>1, <4>3 DEF Threads!Without
        <5> QED BY <5>1, <3>2
      <4> QED BY <4>1, <4>2, <4>3, <1>6
    <3> QED BY <3>1, <3>2
  <2>3. CASE Threads!Touch(c)
    <3>1. CASE UNCHANGED cache
      BY <3>1, <1>6
    <3>2. CASE Threads!Entries(k) # {} /\ cache' = Append(Threads!Without(k), Threads!Entry(k))
      <4>1. IsQueue(cache') /\ Elements(cache') = Elements(Threads!Without(k)) \cup {Threads!Entry(k)}
        BY <3>2, <1>6, AppendElements
      <4>2. KeysOf(cache') = KeysOf(Threads!Without(k)) \cup {k}
        BY <4>1, <3>2, <1>6 DEF KeysOf
      <4> QED BY <4>1, <4>2, <1>6
    <3> QED BY <2>3, <3>1, <3>2 DEF Threads!Touch
  <2> QED BY <2>1, <2>2, <2>3
<1>10. call'[c].pc = "touch" => Threads!Look(c) /\ Threads!Entries(k) # {} /\ cache' = cache
                               /\ call'[c].batch = r.batch /\ call'[c].i = r.i
  <2>1. CASE Threads!Ask(c)
    BY <2>1 DEF Threads!Ask, CallsInv, ThreadsInv, ThreadsTyped, CallFields, Threads!Quiet
  <2>2. CASE Threads!Look(c)
    BY <2>2 DEF Threads!Look, CallsInv, ThreadsInv, ThreadsTyped, CallFields, Threads!Quiet
  <2>3. CASE Threads!Touch(c)
    BY <2>3 DEF Threads!Touch, CallsInv, ThreadsInv, ThreadsTyped, CallFields, Threads!Quiet
  <2>4. CASE Threads!GiveUp(c)
    BY <2>4 DEF Threads!GiveUp, CallsInv, ThreadsInv, ThreadsTyped, CallFields, Threads!Quiet
  <2> QED BY <2>1, <2>2, <2>3, <2>4
<1>11. FoundStays'
  <2> SUFFICES ASSUME NEW d \in Callers, call'[d].pc = "touch", d \notin raced'
               PROVE  KeyAt(d)' \in KeysOf(cache')
    BY DEF FoundStays
  <2>1. CASE d = c
    BY <2>1, <1>6, <1>10 DEF KeyAt
  <2>2. CASE d # c
    <3>1. call'[d] = call[d] /\ d \notin raced /\ KeyAt(d) \in KeysOf(cache) /\ KeyAt(d)' = KeyAt(d)
      BY <2>2, <1>1, <1>7 DEF CallsInv, FoundStays, KeyAt
    <3>2. raced' # raced \cup Threads!Disturbed(c)
      BY <2>2, <3>1 DEF Threads!Disturbed
    <3> QED BY <3>1, <3>2, <1>9
  <2> QED BY <2>1, <2>2
<1> QED BY <1>1, <1>2, <1>4, <1>8, <1>9, <1>11 DEF CallsInv, CallsTyped, JobsBoth

\* A step that asks, wakes or fails no caller but ends the wait of some.
LEMMA OthersEnd ==
  ASSUME CallsInv, DOMAIN call' = Callers,
         raced \subseteq raced', closing.stage \in {"join", "down"} => closing'.stage \in {"join", "down"},
         KeysOf(cache) \subseteq KeysOf(cache') \/ Threads!Disturbed("worker") \subseteq raced',
         "worker" \notin Callers,
         \A c \in Callers : \/ call'[c] = call[c]
                            \/ call'[c].pc \notin {"touch", "error", "wait", "refused"}
                            \/ call'[c].pc = "error" /\ closing'.stage = "join"
  PROVE  FoundStays' /\ FailedFor'
<1>1. FailedFor'
  BY DEF CallsInv, FailedFor
<1>2. ASSUME NEW c \in Callers, call'[c].pc = "touch", c \notin raced' PROVE KeyAt(c)' \in KeysOf(cache')
  <2>1. call'[c] = call[c] /\ KeyAt(c)' = KeyAt(c) /\ KeyAt(c) \in KeysOf(cache)
    BY <1>2 DEF CallsInv, FoundStays, KeyAt
  <2>2. c \in Threads!Disturbed("worker")
    BY <1>2, <2>1 DEF Threads!Disturbed
  <2> QED BY <1>2, <2>1, <2>2
<1> QED BY <1>1, <1>2 DEF FoundStays

LEMMA SubmitEnds ==
  ASSUME CallsAssumption, CallsInv, NEW c \in Callers, Threads!Submit(c)
  PROVE  CallsTyped' /\ FoundStays' /\ FailedFor' /\ WaitServed' /\ QueueShut'
<1> DEFINE r == call[c]
           open == closing.stage \notin {"join", "down"}
           handed == [Threads!Job("batch") EXCEPT !.by = c, !.id = r.id, !.batch = r.batch,
                                          !.todo = r.missing, !.got = r.results]
<1>1. /\ \A d \in Callers : d # c => call'[d] = call[d]
      /\ UNCHANGED <<cache, closing, raced>> /\ DOMAIN call' = Callers
      /\ call'[c].id = r.id
      /\ call'[c].pc = IF r.missing = <<>> THEN "done" ELSE IF open THEN "wait" ELSE "error"
      /\ jobs' = IF r.missing = <<>> \/ ~open THEN jobs ELSE [jobs EXCEPT !.queue = Append(@, handed)]
  BY DEF Threads!Submit, CallsInv, ThreadsInv, ThreadsTyped, CallFields
<1>2. handed.by = c /\ handed.id = r.id
  BY DEF Threads!Job, Threads!NoJob
<1> HIDE DEF handed
<1>3. DOMAIN jobs = {"queue", "run"} /\ IsQueue(jobs.queue)
  BY DEF CallsInv, ThreadsInv, ThreadsTyped
<1>4. CallsTyped' /\ FoundStays' /\ FailedFor'
  BY <1>1 DEF CallsInv, CallsTyped, JobsBoth, FoundStays, FailedFor, KeyAt
<1>5. CASE r.missing = <<>> \/ ~open
  <2>1. jobs' = jobs /\ call'[c].pc # "wait"
    BY <1>1, <1>5
  <2> QED BY <2>1, <1>1, <1>4 DEF CallsInv, WaitServed, QueueShut, Asked
<1>6. CASE ~(r.missing = <<>> \/ ~open)
  <2>1. jobs'.queue = Append(jobs.queue, handed) /\ jobs'.run = jobs.run /\ open
    BY <1>1, <1>3, <1>6
  <2>2. Elements(jobs'.queue) = Elements(jobs.queue) \cup {handed}
    BY <2>1, <1>3, AppendElements
  <2>3. WaitServed'
    BY <2>1, <2>2, <1>1, <1>2 DEF CallsInv, WaitServed, Asked
  <2> QED BY <2>1, <2>3, <1>1, <1>4 DEF QueueShut
<1> QED BY <1>5, <1>6

LEMMA BeginEnds ==
  ASSUME CallsAssumption, CallsInv, Threads!Begin
  PROVE  CallsTyped' /\ FoundStays' /\ FailedFor' /\ WaitServed' /\ QueueShut'
<1> DEFINE j == Head(jobs.queue)  b == [j EXCEPT !.gen = adapter]
<1>1. /\ jobs' = [queue |-> Tail(jobs.queue), run |-> b] /\ UNCHANGED <<call, cache, closing, raced>>
      /\ jobs.run = Threads!NoJob /\ jobs.queue # <<>>
  BY DEF Threads!Begin
<1>2. IsQueue(jobs.queue) /\ j \in Elements(jobs.queue) /\ SoundJob(j)
  BY <1>1, TailElements DEF CallsInv, ThreadsInv, ThreadsTyped, SoundJobs
<1>3. b.by = j.by /\ b.id = j.id
  BY <1>2 DEF SoundJob, JobFields
<1>4. Elements(jobs.queue) = {j} \cup Elements(Tail(jobs.queue))
  BY <1>1, <1>2, HeadAndTail
<1> HIDE DEF j, b
<1>5. \A c \in Callers : ~Asked(c, jobs.run)
  BY <1>1 DEF Asked, Threads!NoJob, CallsAssumption, ThreadsAssumption
<1>6. WaitServed'
  BY <1>1, <1>3, <1>4, <1>5 DEF CallsInv, WaitServed, Asked
<1>7. closing.stage \notin {"join", "down"}
  BY <1>1 DEF CallsInv, QueueShut
<1> QED BY <1>1, <1>6, <1>7 DEF CallsInv, CallsTyped, JobsBoth, FoundStays, FailedFor, KeyAt, QueueShut

LEMMA FetchEnds ==
  ASSUME CallsAssumption, CallsInv, Threads!Fetch
  PROVE  CallsTyped' /\ FoundStays' /\ FailedFor' /\ WaitServed' /\ QueueShut'
<1> DEFINE j == jobs.run  i == Head(j.todo)  v == [key |-> j.batch[i], gen |-> j.gen, at |-> now]
           kept == Append(Threads!Without(v.key), v)
<1>1. /\ UNCHANGED <<call, closing>> /\ j.todo # <<>>
      /\ \/ /\ cache' = Threads!Evicted(kept)
            /\ raced' = IF Len(kept) > MaxCache THEN raced \cup Threads!Disturbed("worker") ELSE raced
         \/ UNCHANGED <<cache, raced>>
  BY DEF Threads!Fetch
<1>2. DOMAIN jobs = {"queue", "run"} /\ DOMAIN j = JobFields
  BY DEF CallsInv, ThreadsInv, ThreadsTyped, SoundJobs, SoundJob
<1>3. jobs'.queue = jobs.queue /\ jobs'.run.by = j.by /\ jobs'.run.id = j.id /\ JobsBoth'
  <2>1. \/ jobs' = [jobs EXCEPT !.run.got[i] = v, !.run.todo = Tail(@), !.run.gen = adapter]
        \/ jobs' = [jobs EXCEPT !.run.todo = Tail(@), !.run.gen = adapter]
    BY DEF Threads!Fetch
  <2> HIDE DEF v, i
  <2>2. CASE jobs' = [jobs EXCEPT !.run.got[i] = v, !.run.todo = Tail(@), !.run.gen = adapter]
    <3>1. jobs' = [jobs EXCEPT !["run"] = [j EXCEPT !["got"] = [j.got EXCEPT ![i] = v],
                                !["todo"] = Tail(j.todo), !["gen"] = adapter]]
      BY <1>2, <2>2 DEF JobFields
    <3> QED BY <3>1, <1>2 DEF JobFields, JobsBoth
  <2>3. CASE jobs' = [jobs EXCEPT !.run.todo = Tail(@), !.run.gen = adapter]
    BY <1>2, <2>3 DEF JobFields, JobsBoth
  <2> QED BY <2>1, <2>2, <2>3
<1>4. closing.stage # "down"
  BY <1>1 DEF CallsInv, QueueShut, Threads!NoJob
<1>5. WaitServed' /\ QueueShut'
  BY <1>1, <1>3, <1>4 DEF CallsInv, WaitServed, QueueShut, Asked
<1>6. IsQueue(kept) /\ KeysOf(cache) \subseteq KeysOf(kept) /\ IsQueue(cache)
  <2> DEFINE w == Threads!Without(v.key)
  <2>1. v.key = j.batch[i]
    OBVIOUS
  <2> HIDE DEF v
  <2>2. IsQueue(w) /\ KeysOf(cache) \ {v.key} \subseteq KeysOf(w) /\ IsQueue(cache)
    BY WithoutKeeps DEF CallsInv, CallsTyped, JobsBoth
  <2> HIDE DEF w
  <2>3. IsQueue(Append(w, v)) /\ Elements(Append(w, v)) = Elements(w) \cup {v}
    BY <2>2, AppendElements
  <2>4. KeysOf(cache) \subseteq KeysOf(Append(w, v))
    BY <2>2, <2>3 DEF KeysOf
  <2> QED BY <2>2, <2>3, <2>4 DEF w
<1> HIDE DEF kept, v, i, j
<1>7. IsQueue(Threads!Evicted(kept)) /\ (Len(kept) <= MaxCache => Threads!Evicted(kept) = kept) /\ MaxCache \in Nat
  BY <1>6, EvictedKeeps DEF CallsAssumption
<1>8. Len(kept) \in Nat
  BY <1>6 DEF IsQueue
<1>9. /\ IsQueue(cache') /\ raced \subseteq raced'
      /\ KeysOf(cache) \subseteq KeysOf(cache') \/ Threads!Disturbed("worker") \subseteq raced'
  BY <1>1, <1>6, <1>7, <1>8
<1>10. "worker" \notin Callers /\ DOMAIN call' = Callers
  BY <1>1 DEF CallsAssumption, CallsInv, ThreadsInv, ThreadsTyped
<1>11. FoundStays' /\ FailedFor'
  BY <1>1, <1>9, <1>10, OthersEnd
<1> QED BY <1>1, <1>3, <1>5, <1>9, <1>11 DEF CallsInv, CallsTyped

LEMMA FinishEnds ==
  ASSUME CallsAssumption, CallsInv, Threads!Finish
  PROVE  CallsTyped' /\ FoundStays' /\ FailedFor' /\ WaitServed' /\ QueueShut'
<1> DEFINE j == jobs.run
           mine(c) == Asked(c, j) /\ call[c].pc = "wait"
<1>1. /\ jobs' = [jobs EXCEPT !.run = Threads!NoJob] /\ UNCHANGED <<cache, closing, raced>>
      /\ call' = [c \in Callers |-> IF mine(c) THEN [call[c] EXCEPT !.pc = "done", !.results = j.got]
                                     ELSE call[c]]
  BY DEF Threads!Finish, Asked
<1>2. DOMAIN jobs = {"queue", "run"} /\ \A c \in Callers : DOMAIN call[c] = CallFields
  BY DEF CallsInv, ThreadsInv, ThreadsTyped
<1>3. jobs'.queue = jobs.queue /\ jobs'.run = Threads!NoJob /\ JobsBoth'
  BY <1>1, <1>2 DEF JobsBoth
<1>4. DOMAIN call' = Callers /\ \A c \in Callers : IF mine(c) THEN call'[c].pc = "done" ELSE call'[c] = call[c]
  BY <1>1, <1>2 DEF CallFields
<1> HIDE DEF j
<1>5. WaitServed'
  <2> SUFFICES ASSUME NEW c \in Callers, call'[c].pc = "wait"
               PROVE  \E q \in Elements(jobs'.queue) : Asked(c, q)'
    BY DEF WaitServed
  <2>1. ~mine(c) /\ call'[c] = call[c]
    BY <1>4
  <2>2. \E q \in Elements(jobs.queue) : Asked(c, q)
    BY <2>1 DEF CallsInv, WaitServed, j
  <2> QED BY <2>1, <2>2, <1>3 DEF Asked
<1>6. QueueShut'
  BY <1>1, <1>3 DEF CallsInv, QueueShut
<1>7. FoundStays' /\ FailedFor'
  BY <1>1, <1>4 DEF CallsInv, FoundStays, FailedFor, KeyAt
<1> QED BY <1>1, <1>5, <1>6, <1>7 DEF CallsInv, CallsTyped, JobsBoth

LEMMA ClosingEnds ==
  ASSUME CallsAssumption, CallsInv, Threads!Shutdown \/ Threads!Join \/ Threads!Down
  PROVE  CallsTyped' /\ FoundStays' /\ FailedFor' /\ WaitServed' /\ QueueShut'
<1>1. /\ DOMAIN jobs = {"queue", "run"} /\ IsQueue(jobs.queue)
      /\ \A c \in Callers : DOMAIN call[c] = CallFields
      /\ DOMAIN closing = {"stage", "due"}
  BY DEF CallsInv, CallsTyped, JobsBoth, ThreadsInv, ThreadsTyped
<1>2. CASE Threads!Shutdown
  <2>1. PICK stage \in {"adapter", "loop"}, kind \in {"shutdown", "close"} :
          /\ closing' = [stage |-> stage, due |-> now + CallTimeout]
          /\ jobs' = [jobs EXCEPT !.queue = Append(@, Threads!Job(kind))]
    BY <1>2 DEF Threads!Shutdown
  <2>2. UNCHANGED <<cache, call, raced>> /\ closing.stage \in {"up", "adapter"}
    BY <1>2 DEF Threads!Shutdown
  <2>3. closing'.stage \in {"adapter", "loop"} /\ DOMAIN closing' = {"stage", "due"}
    BY <2>1
  <2>4. jobs'.queue = Append(jobs.queue, Threads!Job(kind)) /\ jobs'.run = jobs.run /\ JobsBoth'
    BY <2>1, <1>1 DEF CallsInv, CallsTyped, JobsBoth
  <2>5. Elements(jobs.queue) \subseteq Elements(jobs'.queue)
    BY <2>4, <1>1, AppendElements
  <2>6. WaitServed' /\ QueueShut'
    BY <2>2, <2>3, <2>4, <2>5 DEF CallsInv, WaitServed, QueueShut, Asked
  <2> QED BY <2>2, <2>3, <2>4, <2>6 DEF CallsInv, CallsTyped, FoundStays, FailedFor, KeyAt
<1>3. CASE Threads!Join
  <2> DEFINE cancelled == {jobs.queue[n] : n \in 1..Len(jobs.queue)}
             lost(c) == call[c].pc = "wait" /\ \E q \in cancelled : q.by = c /\ q.id = call[c].id
  <2>1. /\ closing' = [closing EXCEPT !.stage = "join"] /\ jobs' = [jobs EXCEPT !.queue = <<>>]
        /\ call' = [c \in Callers |-> IF lost(c) THEN [call[c] EXCEPT !.pc = "error"] ELSE call[c]]
        /\ UNCHANGED <<cache, raced>> /\ closing.stage = "loop"
    BY <1>3 DEF Threads!Join
  <2>2. closing'.stage = "join" /\ DOMAIN closing' = {"stage", "due"} /\ jobs'.queue = <<>> /\ jobs'.run = jobs.run /\ JobsBoth'
    BY <2>1, <1>1 DEF JobsBoth
  <2>3. /\ DOMAIN call' = Callers
        /\ \A c \in Callers : IF lost(c) THEN call'[c].pc = "error" ELSE call'[c] = call[c]
    BY <2>1, <1>1 DEF CallFields
  <2>4. cancelled = Elements(jobs.queue)
    BY <1>1 DEF IsQueue, Elements
  <2> HIDE DEF cancelled
  <2>5. WaitServed'
    BY <2>2, <2>3, <2>4 DEF CallsInv, WaitServed, Asked
  <2>6. QueueShut'
    BY <2>2 DEF QueueShut
  <2>7. FoundStays' /\ FailedFor'
    BY <2>1, <2>2, <2>3 DEF CallsInv, FoundStays, FailedFor, KeyAt
  <2> QED BY <2>1, <2>2, <2>5, <2>6, <2>7 DEF CallsInv, CallsTyped, JobsBoth
<1>4. CASE Threads!Down
  <2>1. /\ closing.stage = "join" /\ jobs.run = Threads!NoJob
        /\ closing' = [closing EXCEPT !.stage = "down"] /\ UNCHANGED <<cache, call, jobs, raced>>
    BY <1>4 DEF Threads!Down
  <2>2. closing'.stage = "down" /\ DOMAIN closing' = {"stage", "due"}
    BY <2>1, <1>1
  <2> QED BY <2>1, <2>2 DEF CallsInv, CallsTyped, JobsBoth, FoundStays, FailedFor, KeyAt, WaitServed, QueueShut, Asked
<1> QED BY <1>2, <1>3, <1>4

LEMMA CallsStepHolds ==
  ASSUME CallsAssumption, CallsInv, [Threads!Next]_(Threads!vars)
  PROVE  CallsInv'
<1>1. ThreadsInv'
  BY ThreadsStepHolds DEF CallsAssumption, CallsInv
<1>2. CASE \E c \in Callers : Threads!Ask(c) \/ Threads!Look(c) \/ Threads!Touch(c) \/ Threads!Submit(c) \/ Threads!GiveUp(c)
  BY <1>1, <1>2, CallerEnds, SubmitEnds DEF CallsInv
<1>3. CASE Threads!SetAdapter
  <2>1. UNCHANGED <<call, jobs, closing>> /\ cache' = <<>> /\ raced' = raced \cup Threads!Disturbed("none")
    BY <1>3 DEF Threads!SetAdapter
  <2>2. FoundStays'
    BY <2>1 DEF CallsInv, FoundStays, Threads!Disturbed, CallsAssumption, ThreadsAssumption
  <2>3. FailedFor' /\ WaitServed' /\ QueueShut' /\ CallsTyped'
    BY <2>1, EmptyElements DEF CallsInv, FailedFor, WaitServed, QueueShut, CallsTyped, Asked, JobsBoth
  <2> QED BY <1>1, <2>2, <2>3 DEF CallsInv
<1>4. CASE Threads!Tick \/ UNCHANGED Threads!vars
  BY <1>1, <1>4 DEF Threads!Tick, Threads!vars, CallsInv, CallsTyped, JobsBoth, FoundStays, FailedFor, WaitServed, QueueShut, KeyAt, Asked
<1>5. CASE Threads!Begin \/ Threads!Fetch \/ Threads!Finish \/ Threads!Shutdown \/ Threads!Join \/ Threads!Down
  BY <1>1, <1>5, BeginEnds, FetchEnds, FinishEnds, ClosingEnds DEF CallsInv
<1> QED BY <1>2, <1>3, <1>4, <1>5 DEF Threads!Next

\* A batch fails as a whole only for a key that is not supported, by a change of the
\* cache within its lookup, or at a shutdown, and a dispatcher that is down has left no caller waiting: neither a
\* queued job, nor the running one, nor one handed over too late (get_kpis_batch,
\* _run_async and shutdown of the dispatcher).
THEOREM CallsHaveEnded == ASSUME CallsAssumption PROVE Spec => []CallsEnd
<1> DEFINE Inv == focus = "threads" => CallsInv
<1>1. Init => Inv
  BY QueriesStarts, CallsInitHolds
<1>2. Inv /\ [Next]_vars => Inv'
  BY QueriesSteps, CallsStepHolds
<1>3. CallsInv => Threads!CallsEnd
  <2> SUFFICES ASSUME CallsInv PROVE Threads!CallsEnd
    OBVIOUS
  <2>2. ASSUME closing.stage = "down"
        PROVE  /\ jobs.queue = <<>> /\ jobs.run = Threads!NoJob
               /\ \A c \in Callers : call[c].pc # "wait"
    <3>1. jobs.queue = <<>> /\ jobs.run = Threads!NoJob
      BY <2>2 DEF CallsInv, QueueShut
    <3> QED BY <3>1, EmptyElements
         DEF CallsInv, WaitServed, Asked, Threads!NoJob, CallsAssumption, ThreadsAssumption
  <2>3. closing.stage = "down" => jobs = [queue |-> <<>>, run |-> Threads!NoJob]
    BY <2>2 DEF CallsInv, CallsTyped, JobsBoth
  <2> QED BY <2>2, <2>3 DEF CallsInv, FailedFor, Threads!CallsEnd
<1>4. Inv => CallsEnd
  BY <1>3 DEF CallsEnd
<1> QED BY <1>1, <1>2, <1>4, PTL DEF Spec

----------------------------------------------------------------------------
(* RestFetch: the pages read so far are what the source had in their order,*)
(* without a gap, as long as nothing was put in front of it.               *)

FetchFields == {"pc", "kind", "page", "attempt", "records", "total", "began", "code"}
IsFetch(f) ==
    /\ DOMAIN f = FetchFields
    /\ f.page \in Nat \ {0} /\ f.records \in Seq(Int) /\ f.total \in Int /\ f.began \in Nat
IsSource(s) ==
    /\ DOMAIN s = {"newest", "counts", "cap", "n"}
    /\ s.newest \in BOOLEAN /\ s.counts \in BOOLEAN /\ s.cap \in Nat /\ s.n \in Nat
WireAssumption == PageSize \in Nat \ {0} /\ MaxPages \in Nat \ {0} /\ \A s \in Sources : IsSource(s)
WireTyped == IsSource(source) /\ IsFetch(fetch)

\* How many observations a page of the source has unless it is the last.
Width == IF source.cap < PageSize THEN source.cap ELSE PageSize
Observation(i) == IF source.newest THEN source.n + 1 - i ELSE i

\* A query that is about to ask has read whole pages only, and has a reason to ask.
Asking ==
    fetch.pc \in {"request", "backoff"} =>
        /\ Len(fetch.records) = (fetch.page - 1) * Width
        /\ fetch.page > 1 => IF source.counts THEN Len(fetch.records) < fetch.total ELSE Width = PageSize

\* The total is the one told with the first page.
TotalTold ==
    IF fetch.page = 1 /\ fetch.pc # "done" THEN fetch.total = Wire!Untold
    ELSE fetch.began <= source.n /\ fetch.total = IF source.counts THEN fetch.began ELSE Wire!Untold

Ordered ==
    (~source.newest \/ source.n = fetch.began) =>
        \A i \in 1..Len(fetch.records) : fetch.records[i] = Observation(i)

\* Without a count, full pages were read to the end of the source or of the paging.
ReadToEnd ==
    (fetch.pc = "done" /\ ~source.counts /\ source.cap >= PageSize /\ fetch.code # "malformed") =>
        Len(fetch.records) >= source.n \/ Len(fetch.records) >= MaxPages * PageSize

WireInv == WireTyped /\ (fetch.kind = "series" => Asking /\ TotalTold /\ Ordered /\ ReadToEnd)

LEMMA Lesser ==
  ASSUME NEW a \in Int, NEW b \in Int
  PROVE  Wire!Min({a, b}) = IF a <= b THEN a ELSE b
BY DEF Wire!Min

LEMMA AtLeastZero ==
  ASSUME NEW b \in Int
  PROVE  Wire!Max({0, b}) = IF b <= 0 THEN 0 ELSE b
BY DEF Wire!Max

LEMMA TimesGrows ==
  ASSUME NEW x \in Nat, NEW y \in Nat, x >= y, NEW z \in Nat
  PROVE  x * z >= y * z
<1>1. PICK d \in Nat : x = y + d
  <2>1. x - y \in Nat /\ x = y + (x - y)
    OBVIOUS
  <2> QED BY <2>1
<1>2. x * z = y * z + d * z
  BY <1>1
<1>3. d * z \in Nat /\ y * z \in Nat
  OBVIOUS
<1> QED BY <1>2, <1>3

\* A page, given how many observations precede it.
LEMMA PageHas ==
  ASSUME WireAssumption, IsSource(source), NEW p \in Nat \ {0}, NEW k, k = (p - 1) * Width
  PROVE  /\ k \in Nat /\ Width \in Nat
         /\ Wire!Page(p) \in Seq(Int)
         /\ Len(Wire!Page(p)) = IF source.n - k <= 0 THEN 0 ELSE IF source.n - k < Width THEN source.n - k ELSE Width
         /\ \A i \in 1..Len(Wire!Page(p)) : Wire!Page(p)[i] = Observation(k + i)
<1> DEFINE count == IF source.n - k <= 0 THEN 0 ELSE IF source.n - k < Width THEN source.n - k ELSE Width
<1>1. Width \in Nat /\ source.n \in Nat /\ source.cap \in Nat /\ PageSize \in Nat
  BY DEF WireAssumption, Width, IsSource
<1>2. k \in Nat
  <2>1. \A x, y \in Nat : x * y \in Nat
    OBVIOUS
  <2> QED BY <1>1, <2>1
<1>3. Wire!Min({PageSize, source.cap}) = Width
  BY <1>1, Lesser DEF Width
<1>4. Wire!Max({0, Wire!Min({Width, source.n - k})}) = count
  <2>1. source.n - k \in Int /\ Width \in Int
    BY <1>1, <1>2
  <2>2. Wire!Min({Width, source.n - k}) = IF Width <= source.n - k THEN Width ELSE source.n - k
    BY <2>1, Lesser
  <2> DEFINE lesser == IF Width <= source.n - k THEN Width ELSE source.n - k
  <2>3. lesser \in Int
    BY <2>1
  <2>4. Wire!Max({0, lesser}) = IF lesser <= 0 THEN 0 ELSE lesser
    <3> HIDE DEF lesser
    <3> QED BY <2>3, AtLeastZero
  <2>5. Wire!Min({Width, source.n - k}) = lesser
    BY <2>2
  <2>6. (IF lesser <= 0 THEN 0 ELSE lesser) = count
    BY <1>1, <2>1
  <2> QED BY <2>4, <2>5, <2>6
<1>5. Wire!Page(p) = [i \in 1..count |-> Observation(k + i)]
  BY <1>3, <1>4 DEF Wire!Page, Observation
<1>6. count \in Nat /\ \A i \in 1..count : Observation(k + i) \in Int
  BY <1>1, <1>2 DEF Observation
<1>7. Wire!Page(p) \in Seq(Int) /\ Len(Wire!Page(p)) = count
  BY <1>5, <1>6
<1> QED BY <1>1, <1>2, <1>5, <1>7

LEMMA WireInitHolds == WireAssumption /\ Wire!Init => WireInv
<1> SUFFICES ASSUME WireAssumption, Wire!Init PROVE WireInv
  OBVIOUS
<1>0. <<>> \in Seq(Int) /\ Len(<<>>) = 0
  OBVIOUS
<1>1. fetch = Wire!Idle /\ IsSource(source)
  BY DEF WireAssumption, Wire!Init
<1>2. /\ DOMAIN fetch = FetchFields /\ fetch.page = 1 /\ fetch.records = <<>> /\ fetch.total = Wire!Untold
      /\ fetch.began = 0 /\ fetch.pc = "idle"
  BY <1>1 DEF Wire!Idle, FetchFields
<1>3. WireTyped
  BY <1>0, <1>1, <1>2 DEF WireTyped, IsFetch, Wire!Untold
<1>4. Asking /\ TotalTold /\ Ordered /\ ReadToEnd
  BY <1>0, <1>2 DEF Asking, TotalTold, Ordered, ReadToEnd
<1> QED BY <1>3, <1>4 DEF WireInv

\* The answer to a request for a page.
LEMMA ReceivedHolds ==
  ASSUME WireAssumption, WireInv, fetch.pc = "request", fetch' = Wire!Received, source' = source
  PROVE  WireInv'
<1> DEFINE page == Wire!Page(fetch.page)
           first == fetch.page = 1
           records == fetch.records \o page
           total == IF fetch.total = Wire!Untold THEN Wire!Told ELSE fetch.total
           more == Wire!More(records, total, Len(page), fetch.page) /\ (first \/ page # <<>>)
           k == (fetch.page - 1) * Width
<1>1. /\ IsSource(source) /\ IsFetch(fetch)
      /\ fetch.page \in Nat \ {0} /\ fetch.records \in Seq(Int) /\ fetch.total \in Int /\ fetch.began \in Nat
      /\ source.n \in Nat /\ Wire!Told \in Int
  BY DEF WireInv, WireTyped, IsSource, IsFetch, FetchFields, Wire!Told, Wire!Untold
<1>2. /\ k \in Nat /\ Width \in Nat /\ page \in Seq(Int)
      /\ Len(page) = IF source.n - k <= 0 THEN 0 ELSE IF source.n - k < Width THEN source.n - k ELSE Width
      /\ \A i \in 1..Len(page) : page[i] = Observation(k + i)
  BY <1>1, PageHas
<1> HIDE DEF page, k
<1>3. /\ Len(fetch.records) \in Nat /\ Len(page) \in Nat
      /\ records \in Seq(Int) /\ Len(records) = Len(fetch.records) + Len(page)
      /\ \A i \in 1..Len(fetch.records) : records[i] = fetch.records[i]
      /\ \A i \in 1..Len(page) : records[Len(fetch.records) + i] = page[i]
  <2>1. fetch.records \in Seq(Int) /\ page \in Seq(Int)
    BY <1>1, <1>2
  <2>2. /\ fetch.records \o page \in Seq(Int) /\ Len(fetch.records \o page) = Len(fetch.records) + Len(page)
        /\ \A i \in 1..Len(fetch.records) + Len(page) :
              (fetch.records \o page)[i] = IF i <= Len(fetch.records) THEN fetch.records[i] ELSE page[i - Len(fetch.records)]
    BY <2>1, ConcatProperties
  <2>3. Len(fetch.records) \in Nat /\ Len(page) \in Nat
    BY <2>1
  <2>4. ASSUME NEW i \in 1..Len(page) PROVE (fetch.records \o page)[Len(fetch.records) + i] = page[i]
    <3>1. Len(fetch.records) + i \in 1..Len(fetch.records) + Len(page) /\ ~(Len(fetch.records) + i <= Len(fetch.records))
      BY <2>3
    <3>2. Len(fetch.records) + i - Len(fetch.records) = i
      BY <2>3
    <3> QED BY <2>2, <3>1, <3>2
  <2> QED BY <2>2, <2>3, <2>4
<1> HIDE DEF records
<1>4. CASE fetch.kind = "latest"
  <2>1. IsFetch(fetch')
    <3>1. <<>> \in Seq(Int) /\ <<source.n>> \in Seq(Int)
      BY <1>1
    <3> QED BY <1>1, <1>4, <3>1 DEF Wire!Received, IsFetch, FetchFields
  <2>2. fetch'.kind = "latest"
    BY <1>1, <1>4 DEF Wire!Received, IsFetch, FetchFields
  <2> QED BY <1>1, <2>1, <2>2 DEF WireInv, WireTyped
<1>5. CASE fetch.kind # "latest"
  <2>1. fetch' = [fetch EXCEPT !.pc = IF more THEN "request" ELSE "done", !.records = records,
                     !.total = IF page = <<>> /\ ~first THEN fetch.total ELSE total,
                     !.page = IF more THEN fetch.page + 1 ELSE fetch.page, !.attempt = 0,
                     !.began = IF first THEN source.n ELSE fetch.began]
    BY <1>1, <1>5 DEF Wire!Received, IsFetch, FetchFields, page, records
  <2>2. total \in Int
    BY <1>1
  <2> HIDE DEF total
  <2>3. /\ IsFetch(fetch') /\ fetch'.kind = fetch.kind /\ fetch'.records = records
        /\ fetch'.pc = (IF more THEN "request" ELSE "done")
        /\ fetch'.page = (IF more THEN fetch.page + 1 ELSE fetch.page)
        /\ fetch'.total = (IF page = <<>> /\ ~first THEN fetch.total ELSE total)
        /\ fetch'.began = (IF first THEN source.n ELSE fetch.began)
    BY <1>1, <1>3, <2>1, <2>2 DEF IsFetch, FetchFields
  <2>4. CASE fetch.kind # "series"
    BY <1>1, <2>3, <2>4 DEF WireInv, WireTyped
  <2>5. CASE fetch.kind = "series"
    <3>1. /\ Len(fetch.records) = k
          /\ ~first => IF source.counts THEN Len(fetch.records) < fetch.total ELSE Width = PageSize
      BY <1>1, <2>5 DEF WireInv, Asking, k
    <3>2. /\ first => fetch.total = Wire!Untold
          /\ ~first => fetch.began <= source.n /\ fetch.total = IF source.counts THEN fetch.began ELSE Wire!Untold
      BY <1>1, <2>5 DEF WireInv, TotalTold
    <3>3. TotalTold'
      BY <1>1, <2>3, <3>2 DEF TotalTold, total, Wire!Told, Wire!Untold
    <3>4. (page = <<>>) <=> (Len(page) = 0)
      BY <1>2
    <3>5. first => k = 0
      <4>1. Width \in Int
        BY <1>2
      <4> QED BY <4>1 DEF k
    <3>6. fetch.page * Width = k + Width
      BY <1>1, <1>2 DEF k
    <3>7. total = IF source.counts THEN (IF first THEN source.n ELSE fetch.began) ELSE Wire!Untold
      BY <1>1, <3>2 DEF total, Wire!Told, Wire!Untold
    <3>8. Width <= PageSize /\ PageSize \in Nat \ {0} /\ source.counts \in BOOLEAN /\ MaxPages \in Nat \ {0}
      BY <1>1 DEF Width, WireAssumption, IsSource
    <3>9. more => Len(records) = fetch.page * Width
      <4> SUFFICES ASSUME more PROVE Len(page) = Width
        BY <1>1, <1>2, <1>3, <3>1, <3>6
      <4>1. IF total # Wire!Untold THEN Len(records) < total ELSE Len(page) >= PageSize
        BY DEF Wire!More
      <4>2. CASE source.counts
        <5>1. total = (IF first THEN source.n ELSE fetch.began) /\ total \in Nat /\ total <= source.n
          BY <1>1, <3>2, <3>7, <4>2
        <5>2. k + Len(page) < total
          BY <1>3, <3>1, <4>1, <5>1 DEF Wire!Untold
        <5> QED BY <1>1, <1>2, <1>3, <5>1, <5>2
      <4>3. CASE ~source.counts
        <5>1. Len(page) >= PageSize
          BY <3>7, <4>1, <4>3
        <5> QED BY <1>1, <1>2, <1>3, <3>8, <5>1
      <4> QED BY <4>2, <4>3
    <3>10. more => IF source.counts THEN Len(records) < total ELSE Width = PageSize
      BY <1>1, <1>2, <1>3, <3>1, <3>2, <3>7, <3>8 DEF Wire!More, Wire!Untold
    <3>11. more => page # <<>> \/ first
      OBVIOUS
    <3>12. Width' = Width
      BY DEF Width
    <3> HIDE DEF more
    <3>13. Asking'
      <4>1. CASE more
        <5>2. fetch'.total = total /\ fetch'.page = fetch.page + 1 /\ fetch'.records = records
          BY <2>3, <3>11, <4>1
        <5>3. Len(records) = (fetch'.page - 1) * Width'
          <6>1. fetch'.page - 1 = fetch.page
            <7>1. fetch.page \in Nat
              BY <1>1
            <7> QED BY <5>2, <7>1
          <6>2. Len(records) = fetch.page * Width
            BY <3>9, <4>1
          <6> QED BY <3>12, <6>1, <6>2
        <5>4. IF source.counts THEN Len(records) < fetch'.total ELSE Width' = PageSize
          BY <3>10, <3>12, <4>1, <5>2
        <5> QED BY <5>2, <5>3, <5>4 DEF Asking
      <4>2. CASE ~more
        BY <2>3, <4>2 DEF Asking
      <4> QED BY <4>1, <4>2
    <3>14. Ordered'
      <4> SUFFICES ASSUME ~source.newest \/ source.n = fetch'.began, NEW i \in 1..Len(records)
                   PROVE  records[i] = Observation(i)
        BY <2>3 DEF Ordered, Observation
      <4>1. CASE i \in 1..Len(fetch.records)
        <5>1. ~first
          BY <1>1, <3>1, <3>5, <4>1
        <5>2. fetch.records[i] = Observation(i)
          BY <2>3, <2>5, <4>1, <5>1 DEF WireInv, Ordered
        <5> QED BY <1>3, <4>1, <5>2
      <4>2. CASE i \notin 1..Len(fetch.records)
        <5>1. PICK j \in 1..Len(page) : i = Len(fetch.records) + j
          <6>1. i - Len(fetch.records) \in 1..Len(page)
            BY <1>3, <4>2
          <6>2. i = Len(fetch.records) + (i - Len(fetch.records))
            BY <1>3
          <6> QED BY <6>1, <6>2
        <5> QED BY <1>2, <1>3, <3>1, <5>1
      <4> QED BY <4>1, <4>2
    <3>15. ReadToEnd'
      <4> SUFFICES ASSUME ~more, ~source.counts, source.cap >= PageSize
                   PROVE  Len(records) >= source.n \/ Len(records) >= MaxPages * PageSize
        BY <2>3 DEF ReadToEnd
      <4>1. Width = PageSize
        BY <1>1, <3>8 DEF Width, IsSource
      <4>2. total = Wire!Untold
        BY <3>7
      <4>3. CASE fetch.page < MaxPages
        <5>1. Len(page) < PageSize
          BY <1>1, <1>2, <3>4, <3>8, <4>2, <4>3 DEF more, Wire!More
        <5> QED BY <1>1, <1>2, <1>3, <3>1, <4>1, <5>1
      <4>4. CASE ~(fetch.page < MaxPages)
        <5>1. fetch.page * PageSize >= MaxPages * PageSize
          <6>1. fetch.page \in Nat /\ MaxPages \in Nat /\ fetch.page >= MaxPages /\ PageSize \in Nat
            BY <1>1, <3>8, <4>4
          <6> QED BY <6>1, TimesGrows
        <5> QED BY <1>1, <1>2, <1>3, <3>1, <3>6, <3>8, <4>1, <5>1
      <4> QED BY <4>3, <4>4
    <3> QED BY <1>1, <2>3, <3>3, <3>13, <3>14, <3>15 DEF WireInv, WireTyped
  <2> QED BY <2>4, <2>5
<1> QED BY <1>4, <1>5

LEMMA WireStepHolds ==
  ASSUME WireAssumption, WireInv, [Wire!Next]_(Wire!vars)
  PROVE  WireInv'
<1> USE DEF WireInv, WireTyped
<1>1. ASSUME Wire!Call PROVE WireInv'
  <2>0. <<>> \in Seq(Int) /\ Len(<<>>) = 0
    OBVIOUS
  <2>1. PICK kind \in {"series", "latest", "value"} :
            fetch' = IF session = "none" THEN [Wire!Idle EXCEPT !.pc = "failed", !.code = "not_connected"]
                     ELSE [Wire!Idle EXCEPT !.pc = "request", !.kind = kind]
    BY <1>1 DEF Wire!Call
  <2>2. source' = source
    BY <1>1 DEF Wire!Call
  <2>3. /\ IsFetch(fetch') /\ fetch'.records = <<>> /\ fetch'.page = 1 /\ fetch'.total = Wire!Untold
        /\ fetch'.pc \in {"failed", "request"}
    BY <2>0, <2>1 DEF Wire!Idle, Wire!Untold, IsFetch, FetchFields
  <2>4. Width' \in Nat
    BY <2>2 DEF Width, WireAssumption, IsSource
  <2>5. Asking'
    <3>0. \A w \in Nat : (1 - 1) * w = 0
      OBVIOUS
    <3>1. (fetch'.page - 1) * Width' = 0
      BY <2>3, <2>4, <3>0
    <3>2. ~(fetch'.page > 1) /\ Len(fetch'.records) = 0
      BY <2>0, <2>3
    <3> QED BY <3>1, <3>2 DEF Asking
  <2> QED BY <2>0, <2>2, <2>3, <2>5 DEF TotalTold, Ordered, ReadToEnd
<1>2. ASSUME Wire!Request PROVE WireInv'
  <2>1. source' = source /\ fetch.pc = "request" /\ Width' = Width
    BY <1>2 DEF Wire!Request, Width
  <2>2. CASE fetch' = Wire!Received
    BY <2>1, <2>2, ReceivedHolds
  <2>3. CASE fetch' = Wire!Malformed
    <3>1. /\ IsFetch(fetch') /\ fetch'.kind = fetch.kind /\ fetch'.records = fetch.records
          /\ fetch'.page = fetch.page /\ fetch'.total = fetch.total /\ fetch'.began = fetch.began
          /\ \/ fetch.page = 1 /\ fetch'.pc = "value"
             \/ fetch.page # 1 /\ fetch'.pc = "done" /\ fetch'.code = "malformed"
      BY <2>3 DEF Wire!Malformed, IsFetch, FetchFields
    <3> QED BY <2>1, <3>1 DEF Asking, TotalTold, Ordered, Observation, ReadToEnd
  <2>4. CASE \E pc \in {"failed", "value", "backoff"} : \E code : fetch' = [fetch EXCEPT !.pc = pc, !.code = code]
    <3>1. /\ IsFetch(fetch') /\ fetch'.kind = fetch.kind /\ fetch'.records = fetch.records
          /\ fetch'.page = fetch.page /\ fetch'.total = fetch.total /\ fetch'.began = fetch.began
          /\ fetch'.pc \in {"failed", "value", "backoff"}
      BY <2>4 DEF IsFetch, FetchFields
    <3> QED BY <2>1, <3>1 DEF Asking, TotalTold, Ordered, Observation, ReadToEnd
  <2>5. \/ fetch' = [fetch EXCEPT !.pc = "failed", !.code = "not_connected"]
        \/ fetch' = [fetch EXCEPT !.pc = "value"]
        \/ fetch' \in {Wire!Received, Wire!Malformed}
        \/ \E code \in Wire!Errors : fetch' = [fetch EXCEPT !.code = code,
              !.pc = IF code = "server" /\ fetch.attempt < MaxRetries THEN "backoff" ELSE "failed"]
    BY <1>2 DEF Wire!Request
  <2>6. CASE fetch' = [fetch EXCEPT !.pc = "failed", !.code = "not_connected"]
    BY <2>4, <2>6
  <2>7. CASE fetch' = [fetch EXCEPT !.pc = "value"]
    <3>1. fetch' = [fetch EXCEPT !.pc = "value", !.code = fetch.code]
      BY <2>7 DEF IsFetch, FetchFields
    <3> QED BY <2>4, <3>1
  <2>8. CASE \E code \in Wire!Errors : fetch' = [fetch EXCEPT !.code = code,
              !.pc = IF code = "server" /\ fetch.attempt < MaxRetries THEN "backoff" ELSE "failed"]
    <3>1. PICK code \in Wire!Errors : fetch' = [fetch EXCEPT !.code = code,
              !.pc = IF code = "server" /\ fetch.attempt < MaxRetries THEN "backoff" ELSE "failed"]
      BY <2>8
    <3>3. PICK pc \in {"failed", "backoff"} : fetch' = [fetch EXCEPT !.pc = pc, !.code = code]
      BY <3>1 DEF IsFetch, FetchFields
    <3> QED BY <2>4, <3>3
  <2> QED BY <2>2, <2>3, <2>5, <2>6, <2>7, <2>8
<1>3. ASSUME Wire!Retry PROVE WireInv'
  <2>1. /\ source' = source /\ Width' = Width /\ fetch.pc = "backoff"
        /\ IsFetch(fetch') /\ fetch'.kind = fetch.kind /\ fetch'.records = fetch.records
        /\ fetch'.page = fetch.page /\ fetch'.total = fetch.total /\ fetch'.began = fetch.began /\ fetch'.pc = "request"
    BY <1>3 DEF Wire!Retry, IsFetch, FetchFields, Width
  <2> QED BY <2>1 DEF Asking, TotalTold, Ordered, Observation, ReadToEnd
<1>4. ASSUME Wire!Observe PROVE WireInv'
  <2>1. /\ fetch' = fetch /\ IsSource(source') /\ source'.n = source.n + 1 /\ source'.newest = source.newest
        /\ source'.counts = source.counts /\ source'.cap = source.cap /\ source.n \in Nat /\ source.newest \in BOOLEAN
        /\ fetch.pc \in {"request", "backoff"} /\ fetch.began \in Nat
    BY <1>4 DEF Wire!Observe, IsSource, IsFetch, FetchFields
  <2>2. Width' = Width
    BY <2>1 DEF Width
  <2>3. CASE fetch.kind = "series"
    <3>1. Asking' /\ TotalTold' /\ ReadToEnd'
      BY <2>1, <2>2, <2>3 DEF Asking, TotalTold, ReadToEnd
    <3>2. Len(fetch.records) = 0 \/ fetch.page > 1
      <4>1. fetch.page = 1 => (fetch.page - 1) * Width = 0
        BY DEF Width, WireAssumption, IsSource, IsFetch, FetchFields
      <4> QED BY <2>1, <2>3, <4>1 DEF Asking, IsFetch, FetchFields
    <3>3. Len(fetch.records) = 0 \/ fetch.began <= source.n
      BY <2>1, <2>3, <3>2 DEF TotalTold
    <3>4. Ordered'
      <4>1. CASE Len(fetch.records) = 0
        BY <2>1, <4>1 DEF Ordered
      <4>2. CASE fetch.began <= source.n
        BY <2>1, <2>3, <4>2 DEF Ordered, Observation
      <4> QED BY <3>3, <4>1, <4>2
    <3> QED BY <2>1, <3>1, <3>4
  <2> QED BY <2>1, <2>3
<1>5. ASSUME Wire!Disconnect \/ UNCHANGED Wire!vars PROVE WireInv'
  <2>1. source' = source /\ fetch' = fetch
    BY <1>5 DEF Wire!Disconnect, Wire!vars
  <2> QED BY <2>1 DEF Asking, TotalTold, Ordered, Observation, ReadToEnd, Width
<1> QED BY <1>1, <1>2, <1>3, <1>4, <1>5 DEF Wire!Next

\* PagesAddUp: an answer that calls itself complete has every observation there
\* was when the query began and none twice, for pages and sources of any size
\* and however often requests fail, are repeated or lose their session.
THEOREM PagesHold == ASSUME WireAssumption PROVE Spec => []PagesAddUp
<1>1. Init => (focus = "wire" => WireInv)
  BY QueriesStarts, WireInitHolds
<1>2. (focus = "wire" => WireInv) /\ [Next]_vars => (focus = "wire" => WireInv)'
  BY QueriesSteps, WireStepHolds
<1>3. (focus = "wire" => WireInv) => PagesAddUp
  <2> SUFFICES ASSUME WireInv, fetch.pc = "done", fetch.kind = "series", Wire!Coverage = "complete", Wire!Pageable
               PROVE  /\ Wire!IsInjective(fetch.records)
                      /\ 1..fetch.began \subseteq {fetch.records[i] : i \in 1..Len(fetch.records)}
    BY DEF PagesAddUp, Wire!PagesAddUp
  <2>1. /\ IsSource(source) /\ source.n \in Nat /\ source.newest \in BOOLEAN /\ source.counts \in BOOLEAN
        /\ fetch.records \in Seq(Int) /\ fetch.began \in Nat /\ fetch.total \in Int /\ source.cap \in Nat
        /\ Len(fetch.records) \in Nat /\ DOMAIN fetch.records = 1..Len(fetch.records)
    BY DEF WireInv, WireTyped, IsSource, IsFetch, FetchFields
  <2>2. fetch.began <= source.n /\ fetch.total = IF source.counts THEN fetch.began ELSE Wire!Untold
    BY DEF WireInv, TotalTold
  <2>3. fetch.total <= Len(fetch.records)
    BY <2>1 DEF Wire!Coverage
  <2>4. MaxPages * PageSize \in Nat /\ PageSize \in Nat
    <3>1. \A x, y \in Nat : x * y \in Nat
      OBVIOUS
    <3> QED BY <3>1 DEF WireAssumption
  <2>5. Len(fetch.records) >= fetch.began
    <3>1. CASE source.counts
      BY <2>2, <2>3, <3>1
    <3>2. CASE ~source.counts
      <4>1. source.cap >= PageSize /\ source.n <= MaxPages * PageSize /\ fetch.code # "malformed"
        BY <3>2 DEF Wire!Pageable
      <4>2. Len(fetch.records) >= source.n \/ Len(fetch.records) >= MaxPages * PageSize
        BY <3>2, <4>1 DEF WireInv, ReadToEnd
      <4> QED BY <2>1, <2>2, <2>4, <4>1, <4>2
    <3> QED BY <2>1, <3>1, <3>2
  <2>6. \A i \in 1..Len(fetch.records) : fetch.records[i] = Observation(i)
    BY DEF WireInv, Ordered, Wire!Pageable
  <2>7. Wire!IsInjective(fetch.records)
    <3> SUFFICES ASSUME NEW i \in 1..Len(fetch.records), NEW j \in 1..Len(fetch.records), fetch.records[i] = fetch.records[j]
                 PROVE  i = j
      BY <2>1 DEF Wire!IsInjective
    <3>1. Observation(i) = Observation(j)
      BY <2>6
    <3> QED BY <2>1, <3>1 DEF Observation
  <2>8. ASSUME NEW o \in 1..fetch.began PROVE \E i \in 1..Len(fetch.records) : fetch.records[i] = o
    <3>1. CASE source.newest
      <4>1. source.n = fetch.began /\ source.n + 1 - o \in 1..Len(fetch.records)
        BY <2>1, <2>5, <3>1 DEF Wire!Pageable
      <4>2. fetch.records[source.n + 1 - o] = source.n + 1 - (source.n + 1 - o)
        BY <2>6, <3>1, <4>1 DEF Observation
      <4>3. source.n + 1 - (source.n + 1 - o) = o
        BY <2>1
      <4> QED BY <4>1, <4>2, <4>3
    <3>2. CASE ~source.newest
      <4>1. o \in 1..Len(fetch.records)
        BY <2>1, <2>5
      <4> QED BY <2>6, <3>2, <4>1 DEF Observation
    <3> QED BY <3>1, <3>2
  <2> QED BY <2>7, <2>8
<1> QED BY <1>1, <1>2, <1>3, PTL DEF Spec

----------------------------------------------------------------------------
(* The modules of questions: what a property says of a reply follows from  *)
(* the reply being the answer to the question.                             *)

RoutingInv == ask \in DispatcherAsks /\ reply \in {Routing!Unanswered, Routing!Answer(ask)}
IntentsInv == ask \in IntentAsks /\ reply \in {Intents!Unanswered, Intents!Answer(ask)}

LEMMA RoutingStepHolds ==
  /\ Routing!Init => RoutingInv
  /\ RoutingInv /\ [Routing!Next]_(Routing!vars) => RoutingInv'
<1>1. Routing!Init => RoutingInv
  BY DEF Routing!Init, RoutingInv
<1>2. ASSUME RoutingInv, [Routing!Next]_(Routing!vars) PROVE RoutingInv'
  <2>1. ask' = ask /\ reply' \in {reply, Routing!Answer(ask)}
    BY <1>2 DEF Routing!Next, Routing!vars
  <2>2. ASSUME NEW a, ask = a PROVE Routing!Answer(ask)' = Routing!Answer(a)
    BY <2>1, <2>2
  <2> QED BY <1>2, <2>1, <2>2 DEF RoutingInv
<1> QED BY <1>1, <1>2

LEMMA IntentsStepHolds ==
  /\ Intents!Init => IntentsInv
  /\ IntentsInv /\ [Intents!Next]_(Intents!vars) => IntentsInv'
<1>1. Intents!Init => IntentsInv
  BY DEF Intents!Init, IntentsInv
<1>2. ASSUME IntentsInv, [Intents!Next]_(Intents!vars) PROVE IntentsInv'
  <2>1. ask' = ask /\ reply' \in {reply, Intents!Answer(ask)}
    BY <1>2 DEF Intents!Next, Intents!vars
  <2>2. ASSUME NEW a, ask = a PROVE Intents!Answer(ask)' = Intents!Answer(a)
    BY <2>1, <2>2
  <2> QED BY <1>2, <2>1, <2>2 DEF IntentsInv
<1> QED BY <1>1, <1>2

----------------------------------------------------------------------------
(* QueryRouting.                                                           *)

\* Values divide exactly: rounding is left out of the model.
Divides(a, per) == \E q \in Int : a.energy * a.factor = q * per
RoutingAssumption ==
    \A a \in DispatcherAsks : a.op = "kpi" =>
        /\ a.factor \in Int /\ a.produced \in Nat
        /\ a.energy # NoValue => a.energy \in Int /\ (a.produced > 0 => Divides(a, a.produced))

LEMMA ExactDivision ==
  ASSUME NEW n \in Int, NEW d \in Nat \ {0}, \E q \in Int : n = q * d
  PROVE  n \div d \in Int /\ (n \div d) * d = n
<1>1. PICK q \in Int : n = q * d
  OBVIOUS
<1>2. n \div d = q
  BY <1>1
<1> QED BY <1>1, <1>2

\* DerivedKpiHasItsData: whatever the questions are, no carbon KPI is derived
\* without its energy, its factor and its count.
THEOREM DerivedKpisHaveTheirData == ASSUME RoutingAssumption PROVE Spec => []DerivedKpiHasItsData
<1>1. Init => (focus = "dispatcher" => RoutingInv)
  BY QueriesStarts, RoutingStepHolds
<1>2. (focus = "dispatcher" => RoutingInv) /\ [Next]_vars => (focus = "dispatcher" => RoutingInv)'
  BY QueriesSteps, RoutingStepHolds
<1>3. (focus = "dispatcher" => RoutingInv) => DerivedKpiHasItsData
  <2> SUFFICES ASSUME RoutingInv, ask \in DispatcherAsks, ask.op = "kpi", reply # Routing!Unanswered, reply.ok,
                      "co2" \in ask.services, Routing!DerivedCarbon(ask)
               PROVE  LET per == IF ask.metric = "co2_per_unit" THEN ask.produced ELSE 1 IN
                      /\ ask.metric # "co2_per_batch" /\ ask.energy # NoValue
                      /\ ask.factor > 0 /\ per > 0
                      /\ reply.value * per = ask.energy * ask.factor
    BY DEF DerivedKpiHasItsData, Routing!DerivedKpiHasItsData, Routing!Answered
  <2>1. reply = Routing!GetKpi(ask)
    BY DEF RoutingInv, Routing!Answer
  <2>2. reply = Routing!DeriveCarbonKpi(ask)
    BY <2>1 DEF Routing!GetKpi, Routing!Refused
  <2>3. /\ ask.factor \in Int /\ ask.produced \in Nat
        /\ ask.energy # NoValue => ask.energy \in Int /\ (ask.produced > 0 => Divides(ask, ask.produced))
    BY DEF RoutingAssumption
  <2>4. ASSUME NEW count, reply = Routing!Co2(ask.energy, ask.factor, count)
        PROVE  ~(count <= 0) /\ ~(ask.factor <= 0) /\ reply.value = (ask.energy * ask.factor) \div count
    BY <2>4 DEF Routing!Co2, Routing!Refused, Routing!Value
  <2>5. CASE ask.metric = "co2_total"
    <3>1. ask.energy # NoValue /\ reply = Routing!Co2(ask.energy, ask.factor, 1)
      BY <2>2, <2>5 DEF Routing!DeriveCarbonKpi, Routing!Refused
    <3>2. ask.energy \in Int /\ ask.factor > 0 /\ reply.value = (ask.energy * ask.factor) \div 1
      BY <2>3, <2>4, <3>1
    <3>3. \A n \in Int : n \div 1 = n
      OBVIOUS
    <3>4. ask.energy * ask.factor \in Int
      BY <2>3, <3>2
    <3>5. reply.value = ask.energy * ask.factor
      BY <3>2, <3>3, <3>4
    <3>6. \A n \in Int : n * 1 = n
      OBVIOUS
    <3> QED BY <2>5, <3>1, <3>2, <3>4, <3>5, <3>6
  <2>6. CASE ask.metric = "co2_per_unit"
    <3>1. ask.energy # NoValue /\ reply = Routing!Co2(ask.energy, ask.factor, ask.produced)
      BY <2>2, <2>6 DEF Routing!DeriveCarbonKpi, Routing!DeriveCo2PerUnit, Routing!Refused
    <3>2. /\ ask.energy \in Int /\ ask.factor > 0 /\ ask.produced \in Nat \ {0}
          /\ reply.value = (ask.energy * ask.factor) \div ask.produced
      BY <2>3, <2>4, <3>1
    <3>3. ask.energy * ask.factor \in Int /\ Divides(ask, ask.produced)
      BY <2>3, <3>1, <3>2
    <3>4. ((ask.energy * ask.factor) \div ask.produced) * ask.produced = ask.energy * ask.factor
      BY <3>2, <3>3, ExactDivision DEF Divides
    <3> QED BY <2>6, <3>1, <3>2, <3>4
  <2>7. CASE ask.metric \notin {"co2_total", "co2_per_unit"}
    BY <2>2, <2>7 DEF Routing!DeriveCarbonKpi, Routing!Refused
  <2> QED BY <2>5, <2>6, <2>7
<1> QED BY <1>1, <1>2, <1>3, PTL DEF Spec

----------------------------------------------------------------------------
(* IntentRouting.                                                          *)

Kinds == {"anomaly", "drift", "forecast", "whatif"}
UtterancesAssumption ==
    /\ None \notin Kinds
    /\ \A a \in IntentAsks : a.op = "route" => a.u.kinds \subseteq Kinds

\* RoutesAgree: for utterances with any cues, whatever handlers fail, an analysis
\* that is asked for is taken up on every route and no less successfully than by
\* the intent, and what was promised is left only after a failure.
THEOREM RoutesHold == ASSUME UtterancesAssumption PROVE Spec => []RoutesAgree
<1>1. Init => (focus = "intents" => IntentsInv)
  BY QueriesStarts, IntentsStepHolds
<1>2. (focus = "intents" => IntentsInv) /\ [Next]_vars => (focus = "intents" => IntentsInv)'
  BY QueriesSteps, IntentsStepHolds
<1>3. (focus = "intents" => IntentsInv) => RoutesAgree
  <2> SUFFICES ASSUME IntentsInv, ask \in IntentAsks, ask.op = "route", reply # Intents!Unanswered, NEW u, u = ask.u
               PROVE  /\ Intents!AnalysisOf(u) # None =>
                            /\ \A r \in {reply.generic, reply.fallback, reply.failure} : r.by = Intents!AnalysisOf(u)
                            /\ reply.generic.ok => reply.fallback.ok
                            /\ reply.fallback.ok =>
                                  reply.generic.ok \/ (Intents!AnalysisOf(u) = "anomaly" /\ ~u.prevention)
                      /\ reply.promised /\ reply.fallback.left => ~reply.fallback.ok
                      /\ reply.fallback.by # "others" =>
                            reply.failure.by = reply.fallback.by /\ reply.failure.ok = reply.fallback.ok
    BY DEF RoutesAgree, Intents!RoutesAgree, Intents!Answered
  <2> DEFINE analysis == Intents!AnalysisOf(u)
             operation == Intents!TryHandleStructured(u.query, TRUE)
             metric == Intents!ResolveMetric(u)
             done(h) == Intents!Dispatched(u, h)
  <2>1. reply = Intents!Routes(u)
    BY DEF IntentsInv, Intents!Answer
  <2>2. /\ reply.generic = Intents!GenericKpi(u) /\ reply.fallback = Intents!Fallback(u)
        /\ reply.failure = Intents!IntentFailure(u) /\ reply.promised = Intents!CanAnswer(u)
    BY <2>1 DEF Intents!Routes
  <2>3. analysis \in Kinds \/ (analysis = None /\ u.kinds = {})
    BY DEF UtterancesAssumption, Intents!AnalysisOf, Kinds
  <2>4. \A h : /\ done(h).by = h /\ done(h).left = FALSE /\ done(h).ok \in BOOLEAN
               /\ Intents!Left(done(h)).by = h /\ Intents!Left(done(h)).ok = done(h).ok
               /\ Intents!Left(done(h)).left = ~done(h).ok
               /\ Intents!Intent(u, h).by = h /\ Intents!Intent(u, h).left = FALSE
               /\ Intents!Intent(u, h).ok = (done(h).ok /\ (h = "anomaly" => u.prevention))
    BY DEF Intents!Dispatched, Intents!Left, Intents!Intent
  <2> HIDE DEF analysis, operation, metric, done
  <2>5. CASE analysis # None
    <3>1. /\ reply.generic = Intents!Intent(u, analysis) /\ reply.fallback = Intents!Left(done(analysis))
          /\ reply.failure = done(analysis)
      BY <2>2, <2>5
         DEF Intents!GenericKpi, Intents!Fallback, Intents!IntentFailure, Intents!Structured, analysis, done
    <3>2. /\ reply.generic.by = analysis /\ reply.fallback.by = analysis /\ reply.failure.by = analysis
          /\ reply.fallback.ok = done(analysis).ok /\ reply.failure.ok = done(analysis).ok
          /\ reply.fallback.left = ~done(analysis).ok /\ done(analysis).ok \in BOOLEAN
          /\ reply.generic.ok = (done(analysis).ok /\ (analysis = "anomaly" => u.prevention))
      BY <2>4, <3>1
    <3>3. reply.fallback.ok => reply.generic.ok \/ (analysis = "anomaly" /\ ~u.prevention)
      BY <3>2
    <3>4. reply.fallback.left => ~reply.fallback.ok
      BY <3>2
    <3>5. reply.generic.ok => reply.fallback.ok
      BY <3>2
    <3>6. reply.failure.by = reply.fallback.by /\ reply.failure.ok = reply.fallback.ok
      BY <3>2
    <3> QED BY <3>2, <3>3, <3>4, <3>5, <3>6 DEF analysis
  <2>6. CASE analysis = None /\ operation # "declined"
    <3>1. reply.fallback = Intents!Claimed(u, operation) /\ reply.failure = Intents!Claimed(u, operation)
      BY <2>2, <2>6 DEF Intents!Fallback, Intents!IntentFailure, Intents!Structured, analysis, operation
    <3>2. Intents!Claimed(u, operation).left => ~Intents!Claimed(u, operation).ok
      BY <2>4 DEF Intents!Claimed, done
    <3> QED BY <2>6, <3>1, <3>2 DEF analysis
  <2>7. CASE analysis = None /\ operation = "declined"
    <3>1. reply.failure = done(IF metric # None THEN "kpi" ELSE IF u.browser THEN "clarify" ELSE "silent")
      BY <2>2, <2>7 DEF Intents!IntentFailure, Intents!Structured, analysis, operation, metric, done
    <3>2. reply.fallback = IF metric # None THEN Intents!Left(done("kpi"))
                           ELSE IF u.browser THEN reply.failure ELSE [by |-> "others", ok |-> TRUE, left |-> TRUE]
      BY <2>2, <2>7 DEF Intents!Fallback, Intents!Structured, analysis, operation, metric, done
    <3>3. reply.promised => u.browser \/ metric # None
      BY <2>2, <2>3, <2>7, UtterancesAssumption DEF Intents!CanAnswer, metric, UtterancesAssumption, Kinds
    <3>4. CASE metric # None
      <4>1. reply.failure = done("kpi") /\ reply.fallback = Intents!Left(done("kpi"))
        BY <3>1, <3>2, <3>4
      <4>2. /\ reply.fallback.by = "kpi" /\ reply.failure.by = "kpi" /\ reply.fallback.ok = reply.failure.ok
            /\ reply.fallback.left = ~reply.fallback.ok /\ reply.fallback.ok \in BOOLEAN
        BY <2>4, <4>1
      <4>3. reply.fallback.left => ~reply.fallback.ok
        BY <4>2
      <4> QED BY <2>7, <4>2, <4>3 DEF analysis
    <3>5. CASE metric = None /\ u.browser
      <4>1. reply.failure = done("clarify") /\ reply.fallback = reply.failure
        BY <3>1, <3>2, <3>5
      <4>2. reply.fallback.left = FALSE
        BY <2>4, <4>1
      <4> QED BY <2>7, <4>1, <4>2 DEF analysis
    <3>6. CASE metric = None /\ ~u.browser
      BY <2>7, <3>1, <3>2, <3>3, <3>6 DEF analysis
    <3> QED BY <3>4, <3>5, <3>6
  <2> QED BY <2>5, <2>6, <2>7
<1> QED BY <1>1, <1>2, <1>3, PTL DEF Spec

\* WindowIsHonoured: for meters, slots and adapters of every kind, a period that
\* was asked for is the one answered, or the question is refused.
THEOREM WindowsHold == Spec => []WindowIsHonoured
<1>1. Init => (focus = "intents" => IntentsInv)
  BY QueriesStarts, IntentsStepHolds
<1>2. (focus = "intents" => IntentsInv) /\ [Next]_vars => (focus = "intents" => IntentsInv)'
  BY QueriesSteps, IntentsStepHolds
<1>3. (focus = "intents" => IntentsInv) => WindowIsHonoured
  <2> SUFFICES ASSUME IntentsInv, focus = "intents" PROVE Intents!WindowIsHonoured
    BY DEF WindowIsHonoured
  <2>1. ASSUME Intents!Answered("kpi"), reply.ok, Intents!RequestedPeriod(ask) # None
        PROVE  /\ reply.period \in {ask.slot.phrase, ask.said}
               /\ ~(ask.metric = "energy_total" /\ ask.insensitive /\ \E map \in ask.mapping : Intents!TotalEnergyOnly(map))
               /\ ~(ask.metric = "energy_total" /\ \E map \in ask.mapping : Intents!AggregatePeriod(map))
    <3> DEFINE asked == Intents!RequestedPeriod(ask)
    <3>1. reply = Intents!KpiPeriod(ask)
      BY <2>1 DEF IntentsInv, Intents!Answer, Intents!Answered
    <3>2. /\ reply = Intents!ParsePeriod(asked)
          /\ ~(ask.metric = "energy_total" /\ ask.insensitive /\ \E map \in ask.mapping : Intents!TotalEnergyOnly(map))
          /\ ~(ask.metric = "energy_total" /\ \E map \in ask.mapping : Intents!AggregatePeriod(map))
      BY <2>1, <3>1 DEF Intents!KpiPeriod, Intents!Refused
    <3>3. asked # "unsupported" /\ reply.period = asked
      BY <2>1, <3>2 DEF Intents!ParsePeriod, Intents!Refused
    <3> QED BY <2>1, <3>2, <3>3 DEF Intents!RequestedPeriod
  <2>2. ASSUME Intents!Answered("trend"), reply.ok, NEW asked, asked = Intents!HandlerPeriod(ask).period
        PROVE  \/ reply.period = asked /\ ask.adapter[asked] = "points"
               \/ reply.period = "last week" /\ ask.adapter[asked] = "empty" /\ asked \notin ask.long
               \/ reply.granularity = "kpi" /\ ask.adapter[asked] = "empty"
    <3> DEFINE trend(g) == Intents!TrendWithFallback(ask, asked, g)
    <3>1. reply = IF ask.metric = "energy_per_unit" THEN Intents!TrendEnergy(ask) ELSE Intents!TrendMetric(ask)
      BY <2>2 DEF IntentsInv, Intents!Answer, Intents!Answered
    <3>2. ASSUME NEW g, trend(g).ok
          PROVE  \/ trend(g).period = asked /\ ask.adapter[asked] = "points"
                 \/ trend(g).period = "last week" /\ ask.adapter[asked] = "empty" /\ asked \notin ask.long
      BY <3>2 DEF Intents!TrendWithFallback, Intents!Refused
    <3>3. ASSUME NEW g, trend(g) = Intents!Refused("empty")
          PROVE  ask.adapter[asked] = "empty"
      BY <3>3 DEF Intents!TrendWithFallback, Intents!Refused
    <3> HIDE DEF trend
    <3>4. \/ \E g : reply = trend(g)
          \/ \E g : trend(g) = Intents!Refused("empty") /\ reply.granularity = "kpi"
      BY <2>2, <3>1 DEF Intents!TrendEnergy, Intents!TrendMetric, trend, Intents!Refused
    <3> QED BY <2>2, <3>2, <3>3, <3>4
  <2> QED BY <2>1, <2>2 DEF Intents!WindowIsHonoured
<1> QED BY <1>1, <1>2, <1>3, PTL DEF Spec

----------------------------------------------------------------------------
(* A scan covers its pairs.                                                *)

\* The sets of a scan are finite, and a finding of a checked pair has a deviation.
ScanAssumption ==
    \A a \in DispatcherAsks : a.op = "scan" =>
        /\ IsFiniteSet(Routing!ResolveScanPairs(a))
        /\ \A p \in Routing!ResolveScanPairs(a) :
              Routing!CheckPair(a.check[p]) = "successful" => a.check[p].detect.deviation \in Int

Outcomes == {"successful", "failed", "stale", "insufficient"}

LEMMA SameCountOfRouting == \A S : Routing!Cardinality(S) = Cardinality(S)
BY DEF Cardinality, Routing!Cardinality

LEMMA DisjointUnion ==
  ASSUME NEW S, IsFiniteSet(S), NEW T, IsFiniteSet(T), S \cap T = {}
  PROVE  IsFiniteSet(S \cup T) /\ Cardinality(S \cup T) = Cardinality(S) + Cardinality(T)
<1>1. Cardinality(S \cap T) = 0 /\ Cardinality(S) \in Nat /\ Cardinality(T) \in Nat
  BY FS_EmptySet, FS_CardinalityType
<1>2. IsFiniteSet(S \cup T) /\ Cardinality(S \cup T) = Cardinality(S) + Cardinality(T) - Cardinality(S \cap T)
  BY FS_Union
<1> QED BY <1>1, <1>2

\* Two keys, the greatest first, make an order.
LEMMA TwoKeysOrder ==
  ASSUME NEW n \in Nat, NEW rank, NEW size, \A i \in 1..n : rank[i] \in Int /\ size[i] \in Int, NEW before,
         \A i, j \in 1..n : <<i, j>> \in before <=>
            \/ rank[i] > rank[j]
            \/ rank[i] = rank[j] /\ size[i] > size[j]
            \/ rank[i] = rank[j] /\ size[i] = size[j] /\ i < j
  PROVE  StrictOrder(1..n, before)
BY DEF StrictOrder

\* Every pair has one outcome, so that the outcomes add up to the pairs.
LEMMA OutcomesAddUp ==
  ASSUME NEW S, IsFiniteSet(S), NEW of, \A p \in S : of[p] \in Outcomes
  PROVE  LET count(o) == Cardinality({p \in S : of[p] = o}) IN
         count("successful") + count("failed") + count("stale") + count("insufficient") = Cardinality(S)
<1> DEFINE those(o) == {p \in S : of[p] = o}
           good == those("successful")
           bad == those("failed")
           old == those("stale")
           few == those("insufficient")
<1>1. \A o : IsFiniteSet(those(o)) /\ Cardinality(those(o)) \in Nat
  BY FS_Subset, FS_CardinalityType
<1>2. good \cap bad = {} /\ (good \cup bad) \cap old = {} /\ ((good \cup bad) \cup old) \cap few = {}
  OBVIOUS
<1>3. ((good \cup bad) \cup old) \cup few = S
  BY DEF Outcomes
<1>4. IsFiniteSet(good) /\ IsFiniteSet(bad) /\ IsFiniteSet(old) /\ IsFiniteSet(few)
  BY <1>1
<1>5. /\ Cardinality(good) \in Nat /\ Cardinality(bad) \in Nat /\ Cardinality(old) \in Nat /\ Cardinality(few) \in Nat
  BY <1>1
<1> SUFFICES Cardinality(good) + Cardinality(bad) + Cardinality(old) + Cardinality(few) = Cardinality(S)
  OBVIOUS
<1> HIDE DEF good, bad, old, few
<1>7. IsFiniteSet(good \cup bad) /\ Cardinality(good \cup bad) = Cardinality(good) + Cardinality(bad)
  BY <1>2, <1>4, DisjointUnion
<1>8. /\ IsFiniteSet((good \cup bad) \cup old)
      /\ Cardinality((good \cup bad) \cup old) = Cardinality(good \cup bad) + Cardinality(old)
  BY <1>2, <1>4, <1>7, DisjointUnion
<1>9. Cardinality(((good \cup bad) \cup old) \cup few) = Cardinality((good \cup bad) \cup old) + Cardinality(few)
  BY <1>2, <1>4, <1>8, DisjointUnion
<1> QED BY <1>3, <1>5, <1>7, <1>8, <1>9

\* A list sorted by severity and deviation has its elements, the severe ones first.
LEMMA FindingsSorted ==
  ASSUME NEW f, NEW n \in Nat, DOMAIN f = 1..n, \A i \in 1..n : f[i].deviation \in Int
  PROVE  /\ DOMAIN Routing!SortScanFindings(f) = 1..n
         /\ \A i, j \in 1..n : i < j =>
               Routing!SeverityRank(Routing!SortScanFindings(f)[i].severity)
                  >= Routing!SeverityRank(Routing!SortScanFindings(f)[j].severity)
<1> DEFINE D == 1..n
           rank == [i \in D |-> Routing!SeverityRank(f[i].severity)]
           size == [i \in D |-> f[i].deviation]
           less(x, y) == \/ Routing!SeverityRank(x.severity) > Routing!SeverityRank(y.severity)
                         \/ Routing!SeverityRank(x.severity) = Routing!SeverityRank(y.severity) /\ x.deviation > y.deviation
           before == {p \in D \X D : less(f[p[1]], f[p[2]]) \/ (~less(f[p[2]], f[p[1]]) /\ p[1] < p[2])}
           sorted == Routing!SortScanFindings(f)
<1>1. \A i \in D : rank[i] \in Int /\ size[i] \in Int
  <2>1. \A s : Routing!SeverityRank(s) \in 0..4
    BY DEF Routing!SeverityRank
  <2> QED BY <2>1
<1>2. \A i, j \in D : <<i, j>> \in before <=>
        \/ rank[i] > rank[j]
        \/ rank[i] = rank[j] /\ size[i] > size[j]
        \/ rank[i] = rank[j] /\ size[i] = size[j] /\ i < j
  BY <1>1
<1>3. sorted = Routing!Arranged(f, before)
  BY DEF Routing!SortScanFindings, Routing!Sorted
<1> HIDE DEF before, rank, size, sorted
<1>4. Routing!Arranged(f, before) = Arranged(f, before)
  BY DEF Routing!Arranged, Arranged, Cardinality, Routing!Cardinality
<1>5. \A p, q \in D : <<p, q>> \in before => rank[p] >= rank[q]
  BY <1>1, <1>2
<1>6. StrictOrder(D, before)
  BY <1>1, <1>2, TwoKeysOrder
<1>7. PICK at \in [1..n -> 1..n] :
         /\ \A k \in 1..n : Arranged(f, before)[k] = f[at[k]]
         /\ \A k, l \in 1..n : k < l => <<at[k], at[l]>> \in before
  BY <1>6, ArrangedInOrder
<1>8. DOMAIN sorted = 1..n
  BY <1>3, <1>4, <1>6, ArrangedInOrder
<1>9. ASSUME NEW i \in 1..n, NEW j \in 1..n, i < j
      PROVE  Routing!SeverityRank(sorted[i].severity) >= Routing!SeverityRank(sorted[j].severity)
  <2>1. at[i] \in D /\ at[j] \in D /\ sorted[i] = f[at[i]] /\ sorted[j] = f[at[j]] /\ <<at[i], at[j]>> \in before
    BY <1>3, <1>4, <1>7, <1>9
  <2>2. rank[at[i]] >= rank[at[j]]
    BY <1>5, <2>1
  <2> QED BY <2>1, <2>2 DEF rank
<1> QED BY <1>8, <1>9 DEF sorted

\* The sequence of a finite set is one of its elements, as many as there are.
LEMMA SetToSeqHas ==
  ASSUME NEW S, IsFiniteSet(S)
  PROVE  /\ DOMAIN Routing!SetToSeq(S) = 1..Cardinality(S)
         /\ \A i \in 1..Cardinality(S) : Routing!SetToSeq(S)[i] \in S
<1>1. ExistsBijection(1..Cardinality(S), S)
  BY FS_CardinalityType
<1>2. PICK g : g \in Bijection(1..Cardinality(S), S)
  BY <1>1 DEF ExistsBijection
<1>3. g \in [1..Cardinality(S) -> S] /\ Routing!IsInjective(g)
  BY <1>2 DEF Bijection, Injection, IsInjective, Routing!IsInjective
<1>4. Routing!SetToSeq(S) = CHOOSE f \in [1..Cardinality(S) -> S] : Routing!IsInjective(f)
  BY DEF Routing!SetToSeq, Routing!Cardinality, Cardinality
<1>5. Routing!SetToSeq(S) \in [1..Cardinality(S) -> S]
  BY <1>3, <1>4
<1> QED BY <1>5

\* ScanAccountsForPairs: of any finite set of pairs each has one of the four
\* outcomes, and the findings, at most one of each checked pair, are sorted.
THEOREM ScansAccountForPairs == ASSUME ScanAssumption PROVE Spec => []ScanAccountsForPairs
<1>1. Init => (focus = "dispatcher" => RoutingInv)
  BY QueriesStarts, RoutingStepHolds
<1>2. (focus = "dispatcher" => RoutingInv) /\ [Next]_vars => (focus = "dispatcher" => RoutingInv)'
  BY QueriesSteps, RoutingStepHolds
<1>3. (focus = "dispatcher" => RoutingInv) => ScanAccountsForPairs
  <2> SUFFICES ASSUME RoutingInv, ask \in DispatcherAsks, ask.op = "scan", reply # Routing!Unanswered, reply.ok
               PROVE  /\ reply.count["successful"] + reply.count["failed"] + reply.count["stale"] + reply.count["insufficient"]
                            = Cardinality(Routing!ResolveScanPairs(ask))
                      /\ Len(reply.findings) <= reply.count["successful"]
                      /\ \A i, j \in 1..Len(reply.findings) : i < j =>
                            Routing!SeverityRank(reply.findings[i].severity)
                               >= Routing!SeverityRank(reply.findings[j].severity)
    BY SameCountOfRouting DEF ScanAccountsForPairs, Routing!ScanAccountsForPairs, Routing!Answered
  <2> DEFINE pairs == Routing!ResolveScanPairs(ask)
             of == [p \in pairs |-> Routing!CheckPair(ask.check[p])]
             checked == {p \in pairs : of[p] = "successful"}
             hit == {p \in pairs : Routing!CheckPair(ask.check[p]) = "successful" /\ ask.check[p].detect.anomalous}
             seq == Routing!SetToSeq(hit)
             found == [i \in DOMAIN seq |-> ask.check[seq[i]].detect]
             scan == Routing!ScanAllPairs(pairs, ask.check)
  <2>1. IsFiniteSet(pairs) /\ \A p \in pairs : of[p] = "successful" => ask.check[p].detect.deviation \in Int
    BY DEF ScanAssumption
  <2>2. reply = Routing!ScanAnomalies(ask)
    BY DEF RoutingInv, Routing!Answer
  <2>3. reply.count = scan.count /\ reply.findings = Routing!SortScanFindings(scan.findings)
    BY <2>2 DEF Routing!ScanAnomalies, Routing!Refused
  <2>4. \A o \in Outcomes : scan.count[o] = Cardinality({p \in pairs : of[p] = o})
    <3>1. scan.count = [o \in Outcomes |-> Routing!Cardinality({p \in pairs : Routing!CheckPair(ask.check[p]) = o})]
      BY DEF Routing!ScanAllPairs, Outcomes
    <3>2. \A o : {p \in pairs : Routing!CheckPair(ask.check[p]) = o} = {p \in pairs : of[p] = o}
      OBVIOUS
    <3> HIDE DEF pairs, of, scan
    <3> QED BY <3>1, <3>2, SameCountOfRouting
  <2>5. scan.findings = found
    BY DEF Routing!ScanAllPairs
  <2>6. \A p \in pairs : of[p] \in Outcomes
    BY DEF Routing!CheckPair, Outcomes
  <2>7. hit \subseteq checked /\ checked \subseteq pairs
    OBVIOUS
  <2>8. \A p \in hit : ask.check[p].detect.deviation \in Int
    BY <2>1
  <2> HIDE DEF pairs, of, hit, scan, seq
  <2>9. IsFiniteSet(checked) /\ IsFiniteSet(hit) /\ Cardinality(hit) <= Cardinality(checked) /\ Cardinality(hit) \in Nat
    <3>1. IsFiniteSet(checked)
      BY <2>1, <2>7, FS_Subset
    <3> HIDE DEF checked
    <3> QED BY <3>1, <2>7, FS_Subset, FS_CardinalityType
  <2>10. DOMAIN seq = 1..Cardinality(hit) /\ \A i \in 1..Cardinality(hit) : seq[i] \in hit
    BY <2>9, SetToSeqHas DEF seq
  <2>11. DOMAIN found = 1..Cardinality(hit) /\ \A i \in 1..Cardinality(hit) : found[i].deviation \in Int
    BY <2>8, <2>10
  <2> HIDE DEF found
  <2>12. /\ DOMAIN reply.findings = 1..Cardinality(hit)
         /\ \A i, j \in 1..Cardinality(hit) : i < j =>
               Routing!SeverityRank(reply.findings[i].severity) >= Routing!SeverityRank(reply.findings[j].severity)
    BY <2>3, <2>5, <2>9, <2>11, FindingsSorted
  <2>13. Len(reply.findings) = Cardinality(hit)
    BY <2>9, <2>12
  <2>14. reply.count["successful"] + reply.count["failed"] + reply.count["stale"] + reply.count["insufficient"] = Cardinality(pairs)
    BY <2>1, <2>3, <2>4, <2>6, OutcomesAddUp DEF Outcomes
  <2>15. reply.count["successful"] = Cardinality(checked)
    BY <2>3, <2>4 DEF Outcomes
  <2> QED BY <2>9, <2>12, <2>13, <2>14, <2>15 DEF pairs
<1> QED BY <1>1, <1>2, <1>3, PTL DEF Spec

----------------------------------------------------------------------------
(* RestQueries: the order a source sends its observations in.              *)

AdapterInv == ask \in AdapterAsks /\ reply \in {Rest!Unanswered, Rest!Answer(ask)}

LEMMA AdapterStepHolds ==
  /\ Rest!Init => AdapterInv
  /\ AdapterInv /\ [Rest!Next]_(Rest!vars) => AdapterInv'
<1>1. Rest!Init => AdapterInv
  BY DEF Rest!Init, AdapterInv
<1>2. ASSUME AdapterInv, [Rest!Next]_(Rest!vars) PROVE AdapterInv'
  <2>1. ask' = ask /\ reply' \in {reply, Rest!Answer(ask)}
    BY <1>2 DEF Rest!Next, Rest!vars
  <2>2. ASSUME NEW a, ask = a PROVE Rest!Answer(ask)' = Rest!Answer(a)
    BY <2>1, <2>2
  <2> QED BY <1>2, <2>1, <2>2 DEF AdapterInv
<1> QED BY <1>1, <1>2

\* An observation has a value and perhaps a time; a question has its fields.
Reading == [value : Int, time : Int \cup {NoTime}]
KpiFields == {"op", "metric", "asset", "rows", "mapped", "latest", "aggregation", "place", "payload", "total", "freshness", "now", "item"}
TrendFields == {"op", "metric", "asset", "rows", "mapped", "payload", "total", "start", "end"}
AdapterAssumption ==
    /\ NoTime \notin Int
    /\ \A a \in AdapterAsks :
          /\ a.op = "kpi" => KpiFields \subseteq DOMAIN a /\ a.payload \in Seq(Reading) /\ a.place \in Int
          /\ a.op = "trend" => TrendFields \subseteq DOMAIN a /\ a.payload \in Seq(Reading)

LEMMA ReversedList ==
  ASSUME NEW S, NEW s \in Seq(S)
  PROVE  /\ Rest!Reverse(s) \in Seq(S) /\ Len(Rest!Reverse(s)) = Len(s) /\ Len(s) \in Nat
         /\ \A i \in 1..Len(s) : Rest!Reverse(s)[i] = s[Len(s) + 1 - i] /\ Len(s) + 1 - i \in 1..Len(s)
         /\ \A i \in 1..Len(s) : Rest!Reverse(s)[Len(s) + 1 - i] = s[i]
<1>1. Len(s) \in Nat /\ \A i \in 1..Len(s) : s[i] \in S /\ Len(s) + 1 - i \in 1..Len(s)
  OBVIOUS
<1>2. Rest!Reverse(s) = [i \in 1..Len(s) |-> s[(Len(s) - i) + 1]]
  BY DEF Rest!Reverse
<1>3. \A i \in 1..Len(s) : (Len(s) - i) + 1 = Len(s) + 1 - i /\ Len(s) + 1 - (Len(s) + 1 - i) = i
  BY <1>1
<1>4. \A i \in 1..Len(s) : Rest!Reverse(s)[i] = s[Len(s) + 1 - i]
  BY <1>1, <1>2, <1>3
<1>5. Rest!Reverse(s) \in Seq(S)
  BY <1>1, <1>2, <1>3
<1>6. Len(Rest!Reverse(s)) = Len(s)
  BY <1>1, <1>2
<1> QED BY <1>1, <1>3, <1>4, <1>5, <1>6

\* As many times as observations: each has one, and no two the same.
LEMMA TimesDiffer ==
  ASSUME NoTime \notin Int, NEW obs \in Seq(Reading), Rest!Cardinality(Rest!Times(obs)) = Len(obs)
  PROVE  /\ \A i \in 1..Len(obs) : obs[i].time \in Int /\ obs[i].value \in Int /\ obs[i].time # NoTime
         /\ \A i, j \in 1..Len(obs) : obs[i].time = obs[j].time => i = j
         /\ Rest!Times(obs) = {obs[i].time : i \in 1..Len(obs)}
<1> DEFINE D == 1..Len(obs)
           time == [i \in D |-> obs[i].time]
           F == {obs[i].time : i \in D}
<1>1. IsFiniteSet(D) /\ Cardinality(D) = Len(obs) /\ Len(obs) \in Nat
  <2>1. Len(obs) \in Nat
    OBVIOUS
  <2>2. 1 \in Int /\ Len(obs) \in Int
    BY <2>1
  <2>3. /\ IsFiniteSet(1..Len(obs))
        /\ Cardinality(1..Len(obs)) = IF 1 > Len(obs) THEN 0 ELSE Len(obs) - 1 + 1
    BY <2>2, FS_Interval
  <2> QED BY <2>1, <2>3
<1>2. \A i \in D : obs[i] \in Reading
  OBVIOUS
<1>3. time \in Surjection(D, F)
  BY DEF Surjection
<1>4. Rest!Times(obs) \subseteq F /\ Rest!Times(obs) = F \ {NoTime}
  BY DEF Rest!Times
<1>5. Cardinality(Rest!Times(obs)) = Len(obs)
  BY DEF Cardinality, Rest!Cardinality
<1> HIDE DEF D, time, F
<1>6. IsFiniteSet(F) /\ Cardinality(F) <= Cardinality(D) /\ Cardinality(F) \in Nat
  BY <1>1, <1>3, FS_Surjection, FS_CardinalityType
<1>7. Cardinality(Rest!Times(obs)) <= Cardinality(F)
  BY <1>4, <1>6, FS_Subset
<1>8. Cardinality(F) = Cardinality(D)
  BY <1>1, <1>5, <1>6, <1>7
<1>9. F = Rest!Times(obs)
  BY <1>1, <1>4, <1>5, <1>6, <1>8, FS_Subset
<1>10. time \in Injection(D, F)
  BY <1>1, <1>3, <1>8, FS_Surjection
<1>11. \A i, j \in D : time[i] = time[j] => i = j
  BY <1>10 DEF Injection, IsInjective
<1>12. \A i, j \in D : obs[i].time = obs[j].time => i = j
  BY <1>11 DEF time
<1>13. \A i \in D : obs[i].time \in F
  BY DEF F
<1>14. \A i \in D : obs[i].time # NoTime /\ obs[i].time \in Int /\ obs[i].value \in Int
  BY <1>2, <1>4, <1>9, <1>13 DEF Reading
<1> QED BY <1>9, <1>12, <1>14 DEF D, F

LEMMA ReversedTimes ==
  ASSUME NEW obs \in Seq(Reading)
  PROVE  Rest!Times(Rest!Reverse(obs)) = Rest!Times(obs)
<1> DEFINE n == Len(obs)
           rev == Rest!Reverse(obs)
<1>1. /\ n \in Nat /\ Len(rev) = n
      /\ \A i \in 1..n : rev[i] = obs[n + 1 - i] /\ rev[n + 1 - i] = obs[i] /\ n + 1 - i \in 1..n
  BY ReversedList
<1> HIDE DEF n, rev
<1>2. {rev[i].time : i \in 1..n} = {obs[i].time : i \in 1..n}
  BY <1>1
<1> QED BY <1>1, <1>2 DEF Rest!Times, n, rev

LEMMA AggregateReversed ==
  ASSUME NoTime \notin Int, NEW obs \in Seq(Reading), Rest!Cardinality(Rest!Times(obs)) = Len(obs), Len(obs) > 0,
         NEW g \in {"average", "sum", "max", "latest"}
  PROVE  Rest!Aggregate(Rest!Reverse(obs), g) = Rest!Aggregate(obs, g)
<1> DEFINE n == Len(obs)
           rev == Rest!Reverse(obs)
           D == 1..n
           latest(s) == CHOOSE i \in D : s[i].time = Rest!Max(Rest!Times(obs))
<1>1. /\ n \in Nat /\ Len(rev) = n /\ rev \in Seq(Reading) /\ n > 0
      /\ \A i \in D : rev[i] = obs[n + 1 - i] /\ rev[n + 1 - i] = obs[i] /\ n + 1 - i \in D
  BY ReversedList
<1>2. /\ \A i \in D : obs[i].time \in Int /\ obs[i].value \in Int /\ obs[i].time # NoTime
      /\ \A i, j \in D : obs[i].time = obs[j].time => i = j
      /\ Rest!Times(obs) = {obs[i].time : i \in D}
  BY TimesDiffer
<1>3. Rest!Times(rev) = Rest!Times(obs)
  BY ReversedTimes
<1>4. Rest!Sum(rev) = Rest!Sum(obs)
  <2> DEFINE G == Rest!Values(obs)
             H == Rest!Values(rev)
  <2>1. G = [i \in D |-> obs[i].value] /\ H = [i \in D |-> rev[i].value]
    BY <1>1 DEF Rest!Values
  <2>2. Rest!Sum(obs) = SumOver(G, D)
    BY DEF Rest!Sum, Rest!MapThenSumSet, Rest!MapThenFoldSet, SumOver, SumBody
  <2>3. Rest!Sum(rev) = SumOver(H, 1..Len(rev))
    BY DEF Rest!Sum, Rest!MapThenSumSet, Rest!MapThenFoldSet, SumOver, SumBody
  <2> HIDE DEF G, H, rev, n
  <2>4. \A i \in 1..n : G[i] \in Int /\ H[n + 1 - i] = G[i]
    BY <1>1, <1>2, <2>1
  <2>5. SumOver(H, 1..n) = SumOver(G, 1..n)
    BY <1>1, <2>4, SumReversed
  <2> QED BY <1>1, <2>2, <2>3, <2>5
<1>5. {rev[i].value : i \in 1..Len(rev)} = {obs[i].value : i \in 1..Len(obs)}
  <2> HIDE DEF rev, n
  <2>1. \A i \in D : rev[i].value = obs[n + 1 - i].value /\ obs[i].value = rev[n + 1 - i].value /\ n + 1 - i \in D
    BY <1>1
  <2> HIDE DEF D
  <2>2. ASSUME NEW i \in D
        PROVE  rev[i].value \in {obs[j].value : j \in D} /\ obs[i].value \in {rev[j].value : j \in D}
    BY <2>1
  <2>3. {rev[i].value : i \in D} = {obs[i].value : i \in D}
    BY <2>2
  <2> QED BY <1>1, <2>3 DEF n, D
<1>6. Rest!Times(obs) # {}
  <2>1. 1 \in D
    BY <1>1
  <2>2. obs[1].time \in {obs[i].time : i \in D}
    BY <2>1
  <2> QED BY <1>2, <2>2
<1>7. rev[latest(rev)] = obs[latest(obs)]
  <2> DEFINE top == Rest!Max(Rest!Times(obs))
  <2>1. top \in Rest!Times(obs)
    <3>1. IsFiniteSet(D)
      BY <1>1, FS_Interval
    <3>2. Rest!Times(obs) \subseteq Int
      BY <1>2
    <3>3. IsFiniteSet(Rest!Times(obs))
      <4> DEFINE time == [i \in D |-> obs[i].time]
      <4>1. Rest!Times(obs) = {time[i] : i \in D}
        BY <1>2
      <4> HIDE DEF D, time
      <4> QED BY <3>1, <4>1, ImageFinite
    <3>4. Max(Rest!Times(obs)) \in Rest!Times(obs)
      BY <1>6, <3>2, <3>3, MaxIsGreatest
    <3> QED BY <3>4 DEF Max, Rest!Max
  <2> HIDE DEF top
  <2>2. PICK k \in D : obs[k].time = top
    BY <1>2, <2>1
  <2>3. \A i \in D : obs[i].time = top => i = k
    BY <1>2, <2>2
  <2> HIDE DEF rev, D, n
  <2>4. n + 1 - k \in D /\ rev[n + 1 - k] = obs[k]
    BY <1>1, <2>2
  <2>5. \A i \in D : rev[i].time = top => i = n + 1 - k
    <3> TAKE i \in D
    <3> HAVE rev[i].time = top
    <3>1. obs[n + 1 - i].time = top /\ n + 1 - i \in D
      BY <1>1
    <3>2. n + 1 - i = k
      BY <2>3, <3>1
    <3>3. i \in Int
      BY <1>1 DEF D
    <3> QED BY <1>1, <3>2, <3>3
  <2>6. (CHOOSE i \in D : obs[i].time = top) = k
    BY <2>2, <2>3
  <2>7. (CHOOSE i \in D : rev[i].time = top) = n + 1 - k
    BY <2>2, <2>4, <2>5
  <2> QED BY <2>4, <2>6, <2>7 DEF top
<1> HIDE DEF rev
<1>8. CASE g = "sum"
  BY <1>4, <1>8 DEF Rest!Aggregate, rev
<1>9. CASE g = "max"
  BY <1>5, <1>9 DEF Rest!Aggregate, rev
<1>10. CASE g = "average"
  BY <1>1, <1>4, <1>10 DEF Rest!Aggregate, rev
<1>11. CASE g = "latest"
  <2>1. ASSUME NEW s, Rest!Times(s) # {}
        PROVE  Rest!Aggregate(s, g) = s[CHOOSE i \in 1..Len(s) : s[i].time = Rest!Max(Rest!Times(s))].value
    BY <1>11, <2>1 DEF Rest!Aggregate
  <2>2. Rest!Aggregate(rev, g) = rev[latest(rev)].value
    BY <1>1, <1>3, <1>6, <2>1
  <2>3. Rest!Aggregate(obs, g) = obs[latest(obs)].value
    BY <1>6, <2>1
  <2> QED BY <1>7, <2>2, <2>3 DEF rev
<1> QED BY <1>8, <1>9, <1>10, <1>11

LEMMA TrendReversed ==
  ASSUME NoTime \notin Int, NEW obs \in Seq(Reading), Rest!Cardinality(Rest!Times(obs)) = Len(obs),
         NEW a, a.payload = obs, NEW b, b.payload = Rest!Reverse(obs)
  PROVE  Rest!ExtractTrendPoints(b) = Rest!ExtractTrendPoints(a)
<1> DEFINE n == Len(obs)
           rev == Rest!Reverse(obs)
           D == 1..n
           key(s) == [i \in D |-> s[i].time]
<1>1. /\ n \in Nat /\ Len(rev) = n /\ rev \in Seq(Reading)
      /\ \A i \in D : rev[i] = obs[n + 1 - i] /\ rev[n + 1 - i] = obs[i] /\ n + 1 - i \in D
  BY ReversedList
<1>2. /\ \A i \in D : obs[i].time \in Int /\ obs[i].value \in Int /\ obs[i].time # NoTime
      /\ \A i, j \in D : obs[i].time = obs[j].time => i = j
  BY TimesDiffer
<1>3. ASSUME NEW s \in Seq(Reading), Len(s) = n, \A i \in D : s[i].time # NoTime
      PROVE  \A start, end : Rest!Placed(s, start, end) = s
  <2> TAKE start, end
  <2>1. Rest!Placed(s, start, end) = [i \in D |-> [s[i] EXCEPT !.time = s[i].time]]
    BY <1>3 DEF Rest!Placed
  <2>2. \A i \in D : s[i] \in Reading
    BY <1>3
  <2>3. \A i \in D : [s[i] EXCEPT !.time = s[i].time] = s[i]
    BY <2>2 DEF Reading
  <2>4. s = [i \in D |-> s[i]]
    BY <1>3
  <2> QED BY <2>1, <2>3, <2>4
<1>4. \A i \in D : rev[i].time \in Int /\ rev[i].time # NoTime
  <2> HIDE DEF rev, n
  <2> QED BY <1>1, <1>2
<1>6. ASSUME NEW c, NEW s \in Seq(Reading), c.payload = s, Len(s) = n, \A i \in D : s[i].time \in Int /\ s[i].time # NoTime
      PROVE  Rest!ExtractTrendPoints(c) = Arranged(s, ByKey(n, key(s)))
  <2>1. DOMAIN s = D
    BY <1>6
  <2>2. {p \in D \X D : s[p[1]].time < s[p[2]].time \/ (~(s[p[2]].time < s[p[1]].time) /\ p[1] < p[2])} = ByKey(n, key(s))
    BY DEF ByKey
  <2>3. Rest!Placed(c.payload, c.start, c.end) = s
    BY <1>3, <1>6
  <2>4. Rest!ExtractTrendPoints(c) = Rest!Arranged(s, ByKey(n, key(s)))
    BY <2>1, <2>2, <2>3 DEF Rest!ExtractTrendPoints, Rest!Sorted
  <2> HIDE DEF key
  <2> QED BY <2>1, <2>4 DEF Rest!Arranged, Arranged, Cardinality, Rest!Cardinality
<1>7. \A i \in 1..n : /\ rev[n + 1 - i] = obs[i] /\ key(obs)[i] \in Int /\ key(rev)[n + 1 - i] = key(obs)[i]
  <2>1. ASSUME NEW i \in D PROVE n + 1 - i \in D /\ rev[n + 1 - i] = obs[i] /\ obs[i].time \in Int
    BY <1>1, <1>2
  <2> HIDE DEF rev
  <2> QED BY <2>1
<1>8. \A i, j \in 1..n : key(obs)[i] = key(obs)[j] => i = j
  <2> HIDE DEF n
  <2> QED BY <1>2
<1> HIDE DEF rev, key, n
<1>9. DOMAIN obs = 1..n /\ DOMAIN rev = 1..n
  BY <1>1 DEF n
<1>10. Arranged(rev, ByKey(n, key(rev))) = Arranged(obs, ByKey(n, key(obs)))
  <2>1. Reversed(n, obs, key(obs), rev, key(rev))
    BY <1>1, <1>7, <1>8, <1>9 DEF Reversed
  <2> QED BY <2>1, ArrangedReversed
<1> QED BY <1>1, <1>2, <1>4, <1>6, <1>10 DEF rev, n

\* SourceOrderIrrelevant: as long as its observations have each a time of their
\* own, a KPI over a series or a trend is the same whichever end a source begins at.
THEOREM SourceOrdersAgree == ASSUME AdapterAssumption PROVE Spec => []SourceOrderIrrelevant
<1>1. Init => (focus = "adapter" => AdapterInv)
  BY QueriesStarts, AdapterStepHolds
<1>2. (focus = "adapter" => AdapterInv) /\ [Next]_vars => (focus = "adapter" => AdapterInv)'
  BY QueriesSteps, AdapterStepHolds
<1>3. (focus = "adapter" => AdapterInv) => SourceOrderIrrelevant
  <2> DEFINE rev == Rest!Reverse(ask.payload)
             other == [ask EXCEPT !.payload = rev]
  <2> SUFFICES ASSUME AdapterInv, ask \in AdapterAsks, ask.op \in {"kpi", "trend"}, reply # Rest!Unanswered,
                      ask.op = "kpi" => Rest!PlaceOf(ask) <= 0,
                      Rest!Cardinality(Rest!Times(ask.payload)) = Len(ask.payload)
               PROVE  Rest!Answer(other) = reply
    BY DEF SourceOrderIrrelevant, Rest!SourceOrderIrrelevant, Rest!Answered
  <2>1. reply = Rest!Answer(ask) /\ NoTime \notin Int
    BY DEF AdapterInv, AdapterAssumption
  <2>2. ask.payload \in Seq(Reading)
    BY DEF AdapterAssumption
  <2>3. /\ rev \in Seq(Reading) /\ Len(rev) = Len(ask.payload) /\ Len(ask.payload) \in Nat
        /\ Rest!Times(rev) = Rest!Times(ask.payload) /\ (rev = <<>> <=> ask.payload = <<>>)
    BY <2>2, ReversedList, ReversedTimes
  <2>4. ASSUME NEW g \in {"average", "sum", "max", "latest"}, ask.payload # <<>>
        PROVE  Rest!Aggregate(rev, g) = Rest!Aggregate(ask.payload, g)
    <3>1. Len(ask.payload) > 0
      BY <2>2, <2>3, <2>4
    <3> QED BY <2>1, <2>2, <3>1, AggregateReversed
  <2> HIDE DEF rev
  <2>5. CASE ask.op = "kpi"
    <3>1. /\ other.op = ask.op /\ other.metric = ask.metric /\ other.asset = ask.asset /\ other.rows = ask.rows
          /\ other.mapped = ask.mapped /\ other.latest = ask.latest /\ other.aggregation = ask.aggregation
          /\ other.place = ask.place /\ other.total = ask.total /\ other.freshness = ask.freshness /\ other.now = ask.now /\ other.item = ask.item
          /\ other.payload = rev
      BY <2>5 DEF AdapterAssumption, KpiFields
    <3> HIDE DEF other
    <3>2. Rest!Aggregation(other) = Rest!Aggregation(ask)
      BY <3>1 DEF Rest!Aggregation
    <3>4. Rest!MappingOf(other) = Rest!MappingOf(ask) /\ (Rest!ResolveRequest(other) <=> Rest!ResolveRequest(ask))
      BY <3>1 DEF Rest!MappingOf, Rest!ResolveRequest
    <3>7. Rest!PlaceOf(other) = Rest!PlaceOf(ask) /\ Rest!PlaceOf(ask) \in Int /\ Rest!PlaceOf(ask) <= 0
      BY <2>5, <3>1, <3>4 DEF Rest!PlaceOf, AdapterAssumption
    <3>3. Rest!ParseKpi(other) = Rest!ParseKpi(ask)
      <4>1. ASSUME Rest!Aggregation(ask) \in {"average", "sum", "max", "latest"}, ask.payload # <<>>
            PROVE  Rest!Aggregate(rev, Rest!Aggregation(ask)) = Rest!Aggregate(ask.payload, Rest!Aggregation(ask))
        BY <2>4, <4>1
      <4>2. ~(Rest!PlaceOf(ask) > 0) /\ (ask.payload # <<>> => ~(Rest!PlaceOf(ask) > Len(ask.payload)))
        BY <2>3, <3>7
      <4>3. ~(Rest!PlaceOf(other) > 0) /\ (ask.payload # <<>> => ~(Rest!PlaceOf(other) > Len(other.payload)))
        BY <2>3, <3>1, <3>7, <4>2
      <4> QED BY <2>3, <3>1, <3>2, <3>7, <4>1, <4>2, <4>3 DEF Rest!ParseKpi
    <3>5. \A s : Rest!NativeKpi(other, s) = Rest!NativeKpi(ask, s)
      BY <3>1 DEF Rest!NativeKpi, Rest!SeuEnergyTotal, Rest!MetricItemLastValue
    <3>6. Rest!GetKpi(other) = Rest!GetKpi(ask)
      BY <3>1, <3>3, <3>4, <3>5 DEF Rest!GetKpi
    <3> QED BY <2>1, <2>5, <3>1, <3>6 DEF Rest!Answer
  <2>6. CASE ask.op = "trend"
    <3>1. /\ other.op = ask.op /\ other.metric = ask.metric /\ other.asset = ask.asset /\ other.rows = ask.rows
          /\ other.mapped = ask.mapped /\ other.total = ask.total /\ other.start = ask.start /\ other.end = ask.end
          /\ other.payload = rev
      BY <2>6 DEF AdapterAssumption, TrendFields
    <3> HIDE DEF other
    <3>2. Rest!ExtractTrendPoints(other) = Rest!ExtractTrendPoints(ask)
      BY <2>1, <2>2, <3>1, TrendReversed DEF Rest!ExtractTrendPoints, rev
    <3>3. Rest!MappingOf(other) = Rest!MappingOf(ask) /\ (Rest!ResolveRequest(other) <=> Rest!ResolveRequest(ask))
      BY <3>1 DEF Rest!MappingOf, Rest!ResolveRequest
    <3>4. Rest!GetTrend(other) = Rest!GetTrend(ask)
      BY <3>1, <3>2, <3>3 DEF Rest!GetTrend
    <3> QED BY <2>1, <2>6, <3>1, <3>4 DEF Rest!Answer
  <2> QED BY <2>5, <2>6
<1> QED BY <1>1, <1>2, <1>3, PTL DEF Spec

----------------------------------------------------------------------------
(* AssetNaming: an asset answered for was mentioned.                       *)

NamingInv == ask \in NamingAsks /\ reply \in {Naming!Unanswered, Naming!Answer(ask)}

LEMMA NamingStepHolds ==
  /\ Naming!Init => NamingInv
  /\ NamingInv /\ [Naming!Next]_(Naming!vars) => NamingInv'
<1>1. Naming!Init => NamingInv
  BY DEF Naming!Init, NamingInv
<1>2. ASSUME NamingInv, [Naming!Next]_(Naming!vars) PROVE NamingInv'
  <2>1. ask' = ask /\ reply' \in {reply, Naming!Answer(ask)}
    BY <1>2 DEF Naming!Next, Naming!vars
  <2>2. ASSUME NEW a, ask = a PROVE Naming!Answer(ask)' = Naming!Answer(a)
    BY <2>1, <2>2
  <2> QED BY <1>2, <2>1, <2>2 DEF NamingInv
<1> QED BY <1>1, <1>2

FirstFive == {"1", "2", "3", "4", "5"}

\* Texts, registries and lists of similar phrases are sequences, and an asset
\* whose id is a line is known by it.
NamingAssumption ==
    /\ FirstFive \subseteq Numerals
    /\ \A t : IsQueue(t) => IsQueue(Singular(t)) /\ IsQueue(Close(t))
    /\ \A a \in NamingAsks : a.op = "asset" =>
          /\ IsQueue(a.slot) /\ IsQueue(a.said) /\ IsQueue(a.registry) /\ IsFiniteSet(a.mapped)
          /\ \A r \in Elements(a.registry) : \A n \in FirstFive : r.id = <<"line", n>> => r.id \in r.says

\* What a question about one text t of it can find: an asset with a phrase that is
\* in the text or similar to it.
Heard(p, t) ==
    \E u \in {t, Singular(t)} : p \in Naming!SubSeqs(u) \/ Naming!Contains(Close(u), p)
HeardOf(t, assets, id) == \E r \in Elements(assets) : r.id = id /\ \E p \in r.says : Heard(p, t)

LEMMA MinOf == ASSUME NEW S, S \subseteq Nat, S # {} PROVE Naming!Min(S) \in S
BY MinIsLeast DEF Min, Naming!Min

LEMMA PlacesAreNumbers == ASSUME NEW s, IsQueue(s) PROVE DOMAIN s \subseteq Nat /\ DOMAIN s = 1..Len(s) /\ Len(s) \in Nat
BY DEF IsQueue

LEMMA FoundIsThere ==
  ASSUME NEW s, DOMAIN s \subseteq Nat, NEW x \in Naming!FirstFound(s)
  PROVE  \E i \in DOMAIN s : x \in s[i]
<1> DEFINE good == {i \in DOMAIN s : s[i] # {}}
<1>1. Naming!FirstFound(s) = UNION (IF good = {} THEN {} ELSE {s[Naming!Min(good)]})
  BY DEF Naming!FirstFound, Naming!FirstWhere
<1>2. good # {} /\ x \in s[Naming!Min(good)]
  BY <1>1
<1>3. Naming!Min(good) \in good
  BY <1>2, MinOf
<1> QED BY <1>2, <1>3

\* Two sequences one after the other have the elements of both.
LEMMA JoinedElements ==
  ASSUME NEW s, NEW t, IsQueue(s), IsQueue(t)
  PROVE  IsQueue(s \o t) /\ Elements(s \o t) = Elements(s) \cup Elements(t)
<1>1. PICK S, T : s \in Seq(S) /\ t \in Seq(T)
  BY DEF IsQueue
<1>2. Len(s) \in Nat /\ Len(t) \in Nat /\ DOMAIN s = 1..Len(s) /\ DOMAIN t = 1..Len(t)
  BY <1>1
<1>3. s \in Seq(S \cup T) /\ t \in Seq(S \cup T)
  BY <1>1
<1>4. s \o t \in Seq(S \cup T) /\ DOMAIN (s \o t) = 1..(Len(s) + Len(t))
  BY <1>3
<1>5. \A i \in 1..Len(s) : (s \o t)[i] = s[i] /\ i \in 1..(Len(s) + Len(t))
  BY <1>2, <1>3
<1>6. \A i \in 1..Len(t) : (s \o t)[Len(s) + i] = t[i] /\ Len(s) + i \in 1..(Len(s) + Len(t))
  BY <1>2, <1>3
<1>7. ASSUME NEW i \in 1..(Len(s) + Len(t)) PROVE (s \o t)[i] \in Elements(s) \cup Elements(t)
  <2>1. CASE i <= Len(s)
    BY <1>2, <1>3, <2>1 DEF Elements
  <2>2. CASE i > Len(s)
    <3>1. i - Len(s) \in DOMAIN t /\ (s \o t)[i] = t[i - Len(s)]
      BY <1>2, <1>3, <2>2
    <3> QED BY <3>1 DEF Elements
  <2> QED BY <1>2, <2>1, <2>2
<1>8. ASSUME NEW x \in Elements(s) \cup Elements(t) PROVE x \in Elements(s \o t)
  BY <1>2, <1>4, <1>5, <1>6, <1>8 DEF Elements
<1>9. Elements(s \o t) \subseteq Elements(s) \cup Elements(t)
  BY <1>4, <1>7 DEF Elements
<1> QED BY <1>4, <1>8, <1>9 DEF IsQueue

LEMMA FunctionIsQueue == ASSUME NEW n \in Nat, NEW f, f = [i \in 1..n |-> f[i]] PROVE IsQueue(f) /\ DOMAIN f = 1..n
<1>1. f \in [1..n -> {f[i] : i \in 1..n}]
  OBVIOUS
<1>2. f \in Seq({f[i] : i \in 1..n})
  BY <1>1
<1> QED BY <1>2 DEF IsQueue

LEMMA WholeIsPart == ASSUME NEW t, IsQueue(t) PROVE t \in Naming!SubSeqs(t)
<1>1. PICK S : t \in Seq(S)
  BY DEF IsQueue
<1>2. Len(t) \in Nat /\ 0 \in 0..Len(t) /\ Len(t) \in 0..Len(t)
  BY <1>1
<1>3. SubSeq(t, 0 + 1, Len(t)) = t
  BY <1>1
<1> QED BY <1>2, <1>3 DEF Naming!SubSeqs

\* The first asset of a phrase has the phrase.
LEMMA ExactHas ==
  ASSUME NEW assets, IsQueue(assets), NEW t, NEW id \in Naming!Exact(t, assets)
  PROVE  \E r \in Elements(assets) : r.id = id /\ t \in r.says
<1> DEFINE good == {i \in DOMAIN assets : t \in assets[i].says}
<1>1. Naming!Exact(t, assets) = {r.id : r \in IF good = {} THEN {} ELSE {assets[Naming!Min(good)]}}
  BY DEF Naming!Exact, Naming!FirstWhere
<1>2. good # {} /\ id = assets[Naming!Min(good)].id
  BY <1>1
<1>3. Naming!Min(good) \in good
  BY <1>2, MinOf, PlacesAreNumbers
<1> QED BY <1>2, <1>3 DEF Elements

LEMMA ContainedHas ==
  ASSUME NEW assets, IsQueue(assets), NEW t, NEW id \in Naming!Contained(t, assets)
  PROVE  \E r \in Elements(assets) : r.id = id /\ \E p \in r.says : p \in Naming!SubSeqs(t)
<1> DEFINE inside == {p \in UNION {assets[i].says : i \in DOMAIN assets} : p \in Naming!SubSeqs(t)}
           longest == {p \in inside : \A q \in inside : Len(q) <= Len(p)}
           good == {i \in DOMAIN assets : assets[i].says \cap longest # {}}
<1>1. Naming!Contained(t, assets) = {r.id : r \in IF good = {} THEN {} ELSE {assets[Naming!Min(good)]}}
  BY DEF Naming!Contained, Naming!FirstWhere
<1>2. good # {} /\ id = assets[Naming!Min(good)].id
  <2> HIDE DEF good
  <2> QED BY <1>1
<1>3. Naming!Min(good) \in good
  BY <1>2, MinOf, PlacesAreNumbers
<1> QED BY <1>2, <1>3 DEF Elements

LEMMA SimilarHas ==
  ASSUME NEW assets, IsQueue(assets), NEW t, IsQueue(Close(t)), NEW id \in Naming!Similar(t, assets)
  PROVE  \E r \in Elements(assets) : r.id = id /\ \E p \in r.says : Naming!Contains(Close(t), p)
<1> DEFINE tried == [i \in DOMAIN Close(t) |-> Naming!Exact(Close(t)[i], assets)]
<1>1. id \in Naming!FirstFound(tried) /\ DOMAIN tried = DOMAIN Close(t)
  BY DEF Naming!Similar
<1>2. DOMAIN Close(t) \subseteq Nat /\ DOMAIN Close(t) = 1..Len(Close(t))
  BY PlacesAreNumbers
<1> HIDE DEF tried
<1>3. PICK i \in DOMAIN Close(t) : id \in tried[i]
  BY <1>1, <1>2, FoundIsThere
<1>4. id \in Naming!Exact(Close(t)[i], assets)
  BY <1>3 DEF tried
<1>5. PICK r \in Elements(assets) : r.id = id /\ Close(t)[i] \in r.says
  BY <1>4, ExactHas
<1>6. Naming!Contains(Close(t), Close(t)[i])
  BY <1>2 DEF Naming!Contains
<1> QED BY <1>5, <1>6

LEMMA MatchHeard ==
  ASSUME NamingAssumption, NEW assets, IsQueue(assets), NEW t, IsQueue(t), NEW id \in Naming!MatchAsset(t, assets)
  PROVE  HeardOf(t, assets, id)
<1> DEFINE variants == IF Singular(t) = t THEN <<t>> ELSE <<t, Singular(t)>>
           exact == [i \in DOMAIN variants |-> Naming!Exact(variants[i], assets)]
           contained == [i \in DOMAIN variants |-> Naming!Contained(variants[i], assets)]
           similar == [i \in DOMAIN variants |-> Naming!Similar(variants[i], assets)]
           all == exact \o contained \o similar
<1>1. id \in Naming!FirstFound(all)
  BY DEF Naming!MatchAsset
<1>2. DOMAIN variants \in {1..1, 1..2} /\ \A i \in DOMAIN variants : variants[i] \in {t, Singular(t)}
  OBVIOUS
<1>3. IsQueue(Singular(t)) /\ IsQueue(Close(t)) /\ IsQueue(Close(Singular(t)))
  BY DEF NamingAssumption
<1>4. \E u \in {t, Singular(t)} :
        id \in Naming!Exact(u, assets) \/ id \in Naming!Contained(u, assets) \/ id \in Naming!Similar(u, assets)
  <2> HIDE DEF variants
  <2>1. PICK n \in {1, 2} : DOMAIN variants = 1..n
    BY <1>2
  <2> DEFINE D == 1..n
  <2>2. IsQueue(exact) /\ IsQueue(contained) /\ IsQueue(similar) /\ DOMAIN exact = D /\ DOMAIN contained = D /\ DOMAIN similar = D
    <3>1. n \in Nat /\ exact = [i \in 1..n |-> exact[i]] /\ contained = [i \in 1..n |-> contained[i]] /\ similar = [i \in 1..n |-> similar[i]]
      BY <2>1
    <3> HIDE DEF exact, contained, similar
    <3> QED BY <3>1, FunctionIsQueue
  <2> HIDE DEF D
  <2>3. ASSUME NEW j \in D
        PROVE  \E u \in {t, Singular(t)} : /\ exact[j] = Naming!Exact(u, assets) /\ contained[j] = Naming!Contained(u, assets)
                                           /\ similar[j] = Naming!Similar(u, assets)
    BY <1>2, <2>1 DEF D
  <2> HIDE DEF exact, contained, similar
  <2>4. IsQueue(all) /\ Elements(all) = (Elements(exact) \cup Elements(contained)) \cup Elements(similar)
    BY <2>2, JoinedElements
  <2>5. PICK i \in DOMAIN all : id \in all[i]
    <3>1. DOMAIN all \subseteq Nat
      BY <2>4, PlacesAreNumbers
    <3> HIDE DEF all
    <3> QED BY <1>1, <3>1, FoundIsThere
  <2>6. all[i] \in Elements(all)
    BY DEF Elements
  <2>7. PICK j \in D : all[i] \in {exact[j], contained[j], similar[j]}
    BY <2>2, <2>4, <2>6 DEF Elements
  <2> QED BY <2>3, <2>5, <2>7
<1>5. PICK u \in {t, Singular(t)} :
        id \in Naming!Exact(u, assets) \/ id \in Naming!Contained(u, assets) \/ id \in Naming!Similar(u, assets)
  BY <1>4
<1>6. IsQueue(u) /\ IsQueue(Close(u))
  BY <1>3
<1>7. u \in Naming!SubSeqs(u)
  BY <1>6, WholeIsPart
<1>8. PICK r \in Elements(assets) : r.id = id /\ \E p \in r.says : p \in Naming!SubSeqs(u) \/ Naming!Contains(Close(u), p)
  BY <1>5, <1>6, <1>7, ExactHas, ContainedHas, SimilarHas
<1> QED BY <1>8 DEF HeardOf, Heard

\* The lines a text names are lines by their number.
LEMMA LinesAre ==
  ASSUME NEW t, IsQueue(t)
  PROVE  IsQueue(Naming!Lines(t)) /\ \A l \in Elements(Naming!Lines(t)) : \E w : l = <<"line", Naming!Number(w)>>
<1> DEFINE at == {i \in 1..Len(t) - 1 : t[i] = "line" /\ t[i + 1] \in Numerals \cup DOMAIN Naming!Digit}
           firsts == {i \in at : \A j \in at : Naming!Number(t[j + 1]) = Naming!Number(t[i + 1]) => i <= j}
           spoken == Naming!Ascending(firsts)
           lines == [k \in DOMAIN spoken |-> <<"line", Naming!Number(t[spoken[k] + 1])>>]
<1>1. Naming!Lines(t) = lines
  BY DEF Naming!Lines
<1>2. Cardinality(firsts) \in Nat
  <2>1. Len(t) - 1 \in Int /\ 1 \in Int
    BY PlacesAreNumbers
  <2>2. IsFiniteSet(1..Len(t) - 1)
    BY <2>1, FS_Interval
  <2>3. firsts \subseteq 1..Len(t) - 1
    OBVIOUS
  <2> HIDE DEF firsts
  <2> QED BY <2>2, <2>3, FS_Subset, FS_CardinalityType
<1>3. DOMAIN spoken = 1..Cardinality(firsts)
  BY DEF Naming!Ascending, Naming!Cardinality, Cardinality
<1> HIDE DEF firsts, spoken
<1>4. lines = [i \in 1..Cardinality(firsts) |-> lines[i]] /\ DOMAIN lines = DOMAIN spoken
  BY <1>3
<1>5. \A k \in DOMAIN lines : lines[k] = <<"line", Naming!Number(t[spoken[k] + 1])>>
  OBVIOUS
<1> HIDE DEF lines
<1>6. IsQueue(lines)
  BY <1>2, <1>4, FunctionIsQueue
<1> QED BY <1>1, <1>5, <1>6 DEF Elements

\* One of the first five lines by itself is named by its text.
LEMMA LineOfTwo ==
  ASSUME FirstFive \subseteq Numerals, NEW t, IsQueue(t), Len(t) = 2, t[1] = "line", Naming!Number(t[2]) \in FirstFive
  PROVE  <<"line", Naming!Number(t[2])>> \in Elements(Naming!Lines(t))
<1> DEFINE at == {i \in 1..Len(t) - 1 : t[i] = "line" /\ t[i + 1] \in Numerals \cup DOMAIN Naming!Digit}
           firsts == {i \in at : \A j \in at : Naming!Number(t[j + 1]) = Naming!Number(t[i + 1]) => i <= j}
           spoken == Naming!Ascending(firsts)
<1>1. t[2] \in Numerals \cup DOMAIN Naming!Digit
  BY DEF Naming!Number
<1>2. firsts = {1}
  BY <1>1
<1>3. Cardinality({1}) = 1 /\ Cardinality({j \in {1} : j < 1}) = 0
  <2>1. {j \in {1} : j < 1} = {}
    OBVIOUS
  <2> QED BY <2>1, FS_Singleton, FS_EmptySet
<1>4. Naming!Ascending({1}) = [k \in 1..Cardinality({1}) |-> CHOOSE i \in {1} : Cardinality({j \in {1} : j < i}) = k - 1]
  BY DEF Naming!Ascending, Naming!Cardinality, Cardinality
<1>5. (CHOOSE i \in {1} : Cardinality({j \in {1} : j < i}) = 0) = 1
  BY <1>3
<1>6. 1 \in DOMAIN spoken /\ spoken[1] = 1
  <2>1. 1 \in 1..Cardinality({1}) /\ 1 - 1 = 0
    BY <1>3
  <2> HIDE DEF firsts
  <2> QED BY <1>2, <1>4, <1>5, <2>1
<1>7. Naming!Lines(t) = [k \in DOMAIN spoken |-> <<"line", Naming!Number(t[spoken[k] + 1])>>]
  BY DEF Naming!Lines
<1> HIDE DEF spoken
<1>8. 1 \in DOMAIN Naming!Lines(t) /\ Naming!Lines(t)[1] = <<"line", Naming!Number(t[1 + 1])>>
  BY <1>6, <1>7
<1> QED BY <1>8 DEF Elements

LEMMA NumberOnce == \A w : Naming!Number(Naming!Number(w)) = Naming!Number(w)
BY DEF Naming!Number, Naming!Digit

KnownByTheirLines(assets) == \A r \in Elements(assets) : \A n \in FirstFive : r.id = <<"line", n>> => r.id \in r.says

LEMMA LineHeard ==
  ASSUME NEW assets, IsQueue(assets), assets # <<>>, KnownByTheirLines(assets), NEW t,
         NEW id \in Naming!LineFastPath(t, assets)
  PROVE  /\ Len(t) = 2 /\ t[1] = "line" /\ Naming!Number(t[2]) \in FirstFive
         /\ HeardOf(<<"line", Naming!Number(t[2])>>, assets, id)
<1> DEFINE line == <<"line", Naming!Number(t[2])>>
<1>1. Len(t) = 2 /\ t[1] = "line" /\ Naming!Number(t[2]) \in FirstFive
  BY DEF Naming!LineFastPath, FirstFive
<1>2. id = line /\ id \in {assets[i].id : i \in DOMAIN assets}
  BY DEF Naming!LineFastPath
<1>3. PICK r \in Elements(assets) : r.id = line
  BY <1>2 DEF Elements
<1>4. line \in r.says
  BY <1>1, <1>3 DEF KnownByTheirLines
<1>5. IsQueue(line)
  <2>1. line \in Seq({"line", Naming!Number(t[2])})
    OBVIOUS
  <2> HIDE DEF line
  <2> QED BY <2>1 DEF IsQueue
<1> HIDE DEF line
<1>6. line \in Naming!SubSeqs(line)
  BY <1>5, WholeIsPart
<1>7. HeardOf(line, assets, id)
  BY <1>2, <1>3, <1>4, <1>6 DEF HeardOf, Heard
<1> QED BY <1>1, <1>7 DEF line

LEMMA CanonicalHas ==
  ASSUME NEW assets, NEW t, NEW id \in Naming!Canonical(t, assets)
  PROVE  id \in Naming!LineFastPath(t, assets) \/ id \in Naming!MatchAsset(t, assets)
<1> DEFINE both == <<Naming!LineFastPath(t, assets), Naming!MatchAsset(t, assets)>>
<1>1. id \in Naming!FirstFound(both)
  BY DEF Naming!Canonical
<1>2. DOMAIN both \subseteq Nat /\ DOMAIN both = {1, 2}
  OBVIOUS
<1> HIDE DEF both
<1>3. PICK i \in {1, 2} : id \in both[i]
  BY <1>1, <1>2, FoundIsThere
<1> QED BY <1>3 DEF both

LEMMA CanonicalHeard ==
  ASSUME NamingAssumption, NEW assets, IsQueue(assets), assets # <<>>, KnownByTheirLines(assets),
         NEW t, IsQueue(t), NEW id \in Naming!Canonical(t, assets)
  PROVE  \E u \in {t} \cup Elements(Naming!Lines(t)) : HeardOf(u, assets, id)
<1>1. CASE id \in Naming!LineFastPath(t, assets)
  <2>1. /\ Len(t) = 2 /\ t[1] = "line" /\ Naming!Number(t[2]) \in FirstFive
        /\ HeardOf(<<"line", Naming!Number(t[2])>>, assets, id)
    BY <1>1, LineHeard
  <2>2. <<"line", Naming!Number(t[2])>> \in Elements(Naming!Lines(t))
    BY <2>1, LineOfTwo DEF NamingAssumption
  <2> QED BY <2>1, <2>2
<1>2. CASE id \in Naming!MatchAsset(t, assets)
  BY <1>2, MatchHeard
<1> QED BY <1>1, <1>2, CanonicalHas

LEMMA CanonicalOfLine ==
  ASSUME NamingAssumption, NEW assets, IsQueue(assets), assets # <<>>, KnownByTheirLines(assets),
         NEW w, NEW t, t = <<"line", Naming!Number(w)>>, NEW id \in Naming!Canonical(t, assets)
  PROVE  HeardOf(t, assets, id)
<1>1. IsQueue(t)
  <2>1. t \in Seq({"line", Naming!Number(w)})
    OBVIOUS
  <2> QED BY <2>1 DEF IsQueue
<1>2. <<"line", Naming!Number(t[2])>> = t
  BY NumberOnce
<1> QED BY <1>1, <1>2, CanonicalHas, LineHeard, MatchHeard

\* What the question has been heard of is mentioned in it.
LEMMA HeardMentioned ==
  ASSUME IsQueue(ask.slot), IsQueue(ask.said), NEW id,
         NEW u \in {ask.slot, ask.said} \cup (Elements(Naming!Lines(ask.said)) \cup Elements(Naming!Lines(ask.slot))),
         HeardOf(u, ask.registry, id)
  PROVE  \E r \in Naming!ToSet(ask.registry) : r.id = id /\ Naming!Mentions(r)
<1> DEFINE texts == {ask.slot, ask.said} \cup Naming!ToSet(Naming!Lines(ask.said) \o Naming!Lines(ask.slot))
           read == texts \cup {Singular(t) : t \in texts}
<1>1. Naming!ToSet(Naming!Lines(ask.said) \o Naming!Lines(ask.slot))
         = Elements(Naming!Lines(ask.said)) \cup Elements(Naming!Lines(ask.slot))
  <2>1. IsQueue(Naming!Lines(ask.said)) /\ IsQueue(Naming!Lines(ask.slot))
    BY LinesAre
  <2>2. Elements(Naming!Lines(ask.said) \o Naming!Lines(ask.slot))
           = Elements(Naming!Lines(ask.said)) \cup Elements(Naming!Lines(ask.slot))
    BY <2>1, JoinedElements
  <2> QED BY <2>2 DEF Naming!ToSet, Elements
<1>2. {u, Singular(u)} \subseteq read
  BY <1>1
<1>3. PICK r \in Elements(ask.registry) : r.id = id /\ \E p \in r.says : Heard(p, u)
  BY DEF HeardOf
<1> HIDE DEF read
<1>4. \E p \in r.says, t \in read : p \in Naming!SubSeqs(t) \/ Naming!Contains(Close(t), p)
  BY <1>2, <1>3 DEF Heard
<1>5. Naming!Mentions(r)
  BY <1>4 DEF Naming!Mentions, read
<1>6. r \in Naming!ToSet(ask.registry)
  BY DEF Elements, Naming!ToSet
<1> QED BY <1>3, <1>5, <1>6

\* The lines of an utterance, if they are all known, are as many, each known by it.
LEMMA LinesValidated ==
  ASSUME NEW a, IsQueue(a.said), Naming!ValidatedLines(a).ok
  PROVE  LET lines == Naming!Lines(a.said) ids == Naming!ValidatedLines(a).ids IN
         /\ ids = <<>> => lines = <<>>
         /\ ids # <<>> => 1 \in DOMAIN lines /\ Head(ids) \in Naming!Canonical(lines[1], a.registry)
<1> DEFINE lines == Naming!Lines(a.said)
           known == [i \in DOMAIN lines |-> Naming!Canonical(lines[i], a.registry)]
           ids == [i \in DOMAIN lines |-> CHOOSE id \in known[i] : TRUE]
<1>1. Naming!ValidatedLines(a) = Naming!Found(ids) /\ \A i \in DOMAIN lines : known[i] # {}
  BY DEF Naming!ValidatedLines, Naming!Refused
<1>2. Naming!ValidatedLines(a).ids = ids
  BY <1>1 DEF Naming!Found
<1>3. \A i \in DOMAIN lines : ids[i] \in Naming!Canonical(lines[i], a.registry)
  BY <1>1
<1>4. IsQueue(lines) /\ DOMAIN lines = 1..Len(lines) /\ Len(lines) \in Nat
  BY LinesAre, PlacesAreNumbers
<1>5. DOMAIN ids = DOMAIN lines
  OBVIOUS
<1>6. ids = [i \in 1..Len(lines) |-> ids[i]]
  BY <1>4
<1> HIDE DEF ids, lines
<1>7. IsQueue(ids)
  BY <1>4, <1>6, FunctionIsQueue
<1>8. ids = <<>> => lines = <<>>
  <2>1. PICK S : lines \in Seq(S)
    BY <1>4 DEF IsQueue
  <2>2. ASSUME ids = <<>> PROVE Len(lines) = 0
    <3>1. DOMAIN lines = {}
      BY <1>5, <2>2
    <3>2. ~(1 <= Len(lines))
      BY <1>4, <3>1
    <3> QED BY <1>4, <3>2
  <2> QED BY <2>1, <2>2
<1>9. ids # <<>> => 1 \in DOMAIN lines /\ Head(ids) = ids[1]
  <2>1. PICK S : ids \in Seq(S)
    BY <1>7 DEF IsQueue
  <2> QED BY <1>5, <2>1
<1> QED BY <1>2, <1>3, <1>8, <1>9 DEF lines

\* NeverGuesses: whatever counts as similar or singular, an asset that is answered
\* for has a phrase in the question or like it, or nothing was named and it is
\* the one there is, or there is no registry to know it from.
THEOREM NamesAreNotGuessed == ASSUME NamingAssumption PROVE Spec => []NeverGuesses
<1>1. Init => (focus = "naming" => NamingInv)
  BY QueriesStarts, NamingStepHolds
<1>2. (focus = "naming" => NamingInv) /\ [Next]_vars => (focus = "naming" => NamingInv)'
  BY QueriesSteps, NamingStepHolds
<1>3. (focus = "naming" => NamingInv) => NeverGuesses
  <2> DEFINE id == Head(reply.ids)
             known == \E r \in Naming!ToSet(ask.registry) : r.id = id /\ Naming!Mentions(r)
             only == /\ Naming!Noisy(ask.slot) /\ Naming!Lines(ask.said) = <<>>
                     /\ IF ask.mapped = {} THEN Len(ask.registry) <= 1 ELSE ask.mapped = {id}
  <2> SUFFICES ASSUME NamingInv, ask \in NamingAsks, reply # Naming!Unanswered, ask.op = "asset", reply.ok,
                      ask.registry # <<>>
               PROVE  known \/ only
    BY DEF NeverGuesses, Naming!NeverGuesses, Naming!Resolved
  <2>1. reply = Naming!ResolveAssetId(ask)
    BY DEF NamingInv, Naming!Answer
  <2>2. /\ IsQueue(ask.slot) /\ IsQueue(ask.said) /\ IsQueue(ask.registry) /\ IsFiniteSet(ask.mapped)
        /\ KnownByTheirLines(ask.registry)
    BY DEF NamingAssumption, KnownByTheirLines
  <2>3. ASSUME NEW t \in {ask.slot, ask.said}, id \in Naming!Canonical(t, ask.registry) PROVE known
    <3>1. IsQueue(t)
      BY <2>2
    <3> HIDE DEF id
    <3>2. PICK u \in {t} \cup Elements(Naming!Lines(t)) : HeardOf(u, ask.registry, id)
      BY <2>2, <2>3, <3>1, CanonicalHeard
    <3>3. u \in {ask.slot, ask.said} \cup (Elements(Naming!Lines(ask.said)) \cup Elements(Naming!Lines(ask.slot)))
      OBVIOUS
    <3> QED BY <2>2, <3>2, <3>3, HeardMentioned
  <2>4. ASSUME NEW ids, ids # {}, reply = Naming!One(ids) PROVE id \in ids
    BY <2>4 DEF Naming!One, Naming!Found
  <2>5. ASSUME NEW otherwise, reply = Naming!ResolveFromSaid(ask, otherwise)
        PROVE  known \/ (reply = otherwise /\ Naming!Lines(ask.said) = <<>>)
    <3> DEFINE lines == Naming!ValidatedLines(ask)
               alias == Naming!Alias(ask)
    <3>1. lines.ok
      BY <2>5 DEF Naming!ResolveFromSaid
    <3>2. CASE lines.ids # <<>>
      <4> DEFINE said == Naming!Lines(ask.said)
      <4>1. id = Head(lines.ids)
        BY <2>5, <3>1, <3>2 DEF Naming!ResolveFromSaid, Naming!Found
      <4>2. 1 \in DOMAIN said /\ id \in Naming!Canonical(said[1], ask.registry)
        BY <2>2, <3>1, <3>2, <4>1, LinesValidated
      <4> HIDE DEF id
      <4>3. said[1] \in Elements(said)
        BY <4>2 DEF Elements
      <4>4. PICK w : said[1] = <<"line", Naming!Number(w)>>
        BY <2>2, <4>3, LinesAre
      <4> HIDE DEF said
      <4>5. HeardOf(said[1], ask.registry, id)
        BY <2>2, <4>2, <4>4, CanonicalOfLine
      <4> QED BY <2>2, <4>3, <4>5, HeardMentioned DEF said
    <3>3. CASE lines.ids = <<>>
      <4>1. Naming!Lines(ask.said) = <<>>
        BY <2>2, <3>1, <3>3, LinesValidated
      <4>2. reply = IF alias # {} THEN Naming!One(alias) ELSE otherwise
        BY <2>5, <3>1, <3>3 DEF Naming!ResolveFromSaid
      <4>3. alias # {} => id \in alias
        BY <2>4, <4>2
      <4>4. alias \subseteq Naming!Canonical(ask.said, ask.registry)
        BY DEF Naming!Alias
      <4> QED BY <2>3, <4>1, <4>2, <4>3, <4>4
    <3> QED BY <3>2, <3>3
  <2>6. CASE Naming!Noisy(ask.slot)
    <3>1. reply = Naming!ResolveFromSaid(ask, Naming!DefaultAsset(ask))
      BY <2>1, <2>6 DEF Naming!ResolveAssetId
    <3>2. ASSUME reply = Naming!DefaultAsset(ask)
          PROVE  IF ask.mapped = {} THEN Len(ask.registry) <= 1 ELSE ask.mapped = {id}
      <4>1. CASE Naming!Cardinality(ask.mapped) = 1
        <5>1. Cardinality(ask.mapped) = 1
          BY <4>1 DEF Cardinality, Naming!Cardinality
        <5>2. PICK x : ask.mapped = {x}
          BY <2>2, <5>1, FS_Singleton
        <5>3. id \in ask.mapped
          BY <2>4, <3>2, <4>1, <5>2 DEF Naming!DefaultAsset
        <5> QED BY <5>2, <5>3
      <4>2. CASE Naming!Cardinality(ask.mapped) # 1
        <5>1. ask.mapped = {} /\ Len(ask.registry) = 1
          BY <3>2, <4>2 DEF Naming!DefaultAsset, Naming!Refused
        <5> QED BY <5>1
      <4> QED BY <4>1, <4>2
    <3> QED BY <2>5, <2>6, <3>1, <3>2
  <2>7. CASE ~Naming!Noisy(ask.slot) /\ Naming!Canonical(ask.slot, ask.registry) = {}
    <3>1. reply = Naming!ResolveFromSaid(ask, Naming!Refused("unknown"))
      BY <2>1, <2>7 DEF Naming!ResolveAssetId
    <3> QED BY <2>5, <3>1 DEF Naming!Refused
  <2>8. CASE ~Naming!Noisy(ask.slot) /\ Naming!Canonical(ask.slot, ask.registry) # {}
    <3> DEFINE slotted == Naming!Canonical(ask.slot, ask.registry)
               spoken == Naming!Alias(ask)
    <3>1. reply \in {Naming!One(slotted), Naming!One(spoken)} /\ (reply # Naming!One(slotted) => spoken # {})
      BY <2>1, <2>8 DEF Naming!ResolveAssetId
    <3>2. id \in slotted \/ id \in spoken
      <4> HIDE DEF spoken, slotted, id
      <4> QED BY <2>4, <2>8, <3>1 DEF slotted
    <3>3. spoken \subseteq Naming!Canonical(ask.said, ask.registry)
      BY DEF Naming!Alias
    <3> QED BY <2>3, <3>2, <3>3
  <2> QED BY <2>6, <2>7, <2>8
<1> QED BY <1>1, <1>2, <1>3, PTL DEF Spec

============================================================================
