--------------------------- MODULE DialogueContext ---------------------------
(***************************************************************************)
(* What the skill remembers of a conversation.  DialogueStateStore keeps   *)
(* one context per session, for a limited time and for a limited number of *)
(* sessions; a turn reads the context when it begins, answers, and stores  *)
(* a new context at its end.  Turns run in the threads of the message bus: *)
(* those of different sessions, and of one session, overlap.               *)
(*                                                                         *)
(* Simplifications: a context is its topic (the metrics, assets and period *)
(* together) and its age; each operation of the store holds its lock and   *)
(* is one step, except for the clock that get() reads before it locks.     *)
(***************************************************************************)
EXTENDS Naturals, Sequences, FiniteSets

CONSTANTS
  Sessions,
  Turns,        \* threads that may be handling an utterance
  Topics,       \* what an utterance can name
  Unclear,      \* the topic of a turn that could only ask back
  FollowUp,     \* the question that names no topic of its own
  Nothing,      \* no context
  MaxSessions,  \* capacity of the store
  TTL,          \* how long a context lasts
  MaxTime       \* bound on the clock

VARIABLES
  now,      \* the clock
  items,    \* DialogueStateStore._items, the least recently used first
  pc, turn, \* stage and locals of each turn
  recent,   \* history: every session that used the store, latest last
  stored    \* history: the last context each session stored

vars == <<now, items, pc, turn, recent, stored>>

Utterances == [session : Sessions, question : Topics \union {FollowUp}]

Init ==
  /\ now = 0
  /\ items = <<>>
  /\ pc = [t \in Turns |-> "idle"]
  /\ turn = [t \in Turns |-> Nothing]
  /\ recent = <<>>
  /\ stored = [s \in Sessions |-> Nothing]

Tick ==
  /\ now < MaxTime
  /\ now' = now + 1
  /\ UNCHANGED <<items, pc, turn, recent, stored>>

Goto(t, stage) == pc' = [pc EXCEPT ![t] = stage]

\* An utterance arrives; get() reads the clock.
Hear(t, s) ==
  /\ pc[t] = "idle"
  /\ \E u \in Utterances :
       /\ u.session = s
       /\ turn' = [turn EXCEPT ![t] = [session |-> s, question |-> u.question,
                                       heard |-> now, prior |-> Nothing]]
  /\ Goto(t, "get")
  /\ UNCHANGED <<now, items, recent, stored>>

\* The elements of `seq` at the positions I, in their order.
Chosen(seq, I) ==
  LET some[n \in 0..Len(seq)] ==
        IF n = 0 THEN <<>>
        ELSE IF n \in I THEN Append(some[n - 1], seq[n]) ELSE some[n - 1]
  IN  some[Len(seq)]

Unexpired(seq, time) ==
  Chosen(seq, { i \in DOMAIN seq : time <= seq[i].context.updated + TTL })

Without(seq, s) == Chosen(seq, { i \in DOMAIN seq : seq[i].session # s })

Find(seq, s) == { i \in DOMAIN seq : seq[i].session = s }

Use(s) ==
  recent' = Append(Chosen(recent, { i \in DOMAIN recent : recent[i] # s }), s)

\* Only a follow-up makes use of what get() returns.
Inherit(t, context) ==
  turn' = IF turn[t].question = FollowUp
          THEN [turn EXCEPT ![t].prior = context] ELSE turn

\* A mutant of Get: the session does not move to the end.
GetInPlace(t) ==
  LET s == turn[t].session
      live == Unexpired(items, turn[t].heard)
  IN  /\ pc[t] = "get"
      /\ items' = live
      /\ IF Find(live, s) = {}
         THEN UNCHANGED <<turn, recent>>
         ELSE \E i \in Find(live, s) :
                /\ Inherit(t, live[i].context)
                /\ Use(s)
      /\ Goto(t, "answer")
      /\ UNCHANGED <<now, stored>>

\* A mutant of Get: expired contexts are not dropped first.
GetUnpurged(t) ==
  LET s == turn[t].session
  IN  /\ pc[t] = "get"
      /\ IF Find(items, s) = {}
         THEN UNCHANGED <<items, turn, recent>>
         ELSE \E i \in Find(items, s) :
                /\ items' = Append(Without(items, s), items[i])
                /\ Inherit(t, items[i].context)
                /\ Use(s)
      /\ Goto(t, "answer")
      /\ UNCHANGED <<now, stored>>

\* get(): drops what had expired when the clock was read, and moves the
\* session, if it has a context, to the end.
Get(t) ==
  LET s == turn[t].session
      live == Unexpired(items, turn[t].heard)
  IN  /\ pc[t] = "get"
      /\ IF Find(live, s) = {}
         THEN /\ items' = live
              /\ UNCHANGED <<turn, recent>>
         ELSE \E i \in Find(live, s) :
                /\ items' = Append(Without(live, s), live[i])
                /\ Inherit(t, live[i].context)
                /\ Use(s)
      /\ Goto(t, "answer")
      /\ UNCHANGED <<now, stored>>

\* What the answer is about: a follow-up takes over the topic before.
TopicOf(u) ==
  IF u.question # FollowUp THEN u.question
  ELSE IF u.prior = Nothing THEN Unclear ELSE u.prior.topic

Newest(seq, n) == SubSeq(seq, IF Len(seq) > n THEN Len(seq) - n + 1 ELSE 1,
                         Len(seq))

Finish(t) ==
  /\ turn' = [turn EXCEPT ![t] = Nothing]
  /\ Goto(t, "idle")

\* The platform is queried and the answer spoken; nothing is stored yet.
Answer(t) ==
  /\ pc[t] = "answer"
  /\ Goto(t, "remember")
  /\ UNCHANGED <<now, items, turn, recent, stored>>

\* put(): what was answered becomes the context of the session.
Remember(t) ==
  LET s == turn[t].session
      context == [topic |-> TopicOf(turn[t]), updated |-> now]
      renewed == Append(Without(Unexpired(items, now), s),
                        [session |-> s, context |-> context])
  IN  /\ pc[t] = "remember"
      /\ items' = Newest(renewed, MaxSessions)
      /\ Use(s)
      /\ stored' = [stored EXCEPT ![s] = [context |-> context,
                                          asked |-> turn[t].heard]]
      /\ Finish(t)
      /\ UNCHANGED now

\* The platform fails, the utterance is left to another handler, or the
\* answer is one that nothing is remembered of.
Forget(t) ==
  /\ pc[t] = "answer"
  /\ Finish(t)
  /\ UNCHANGED <<now, items, recent, stored>>

Next ==
  \/ Tick
  \/ \E t \in Turns : \/ \E s \in Sessions : Hear(t, s)
                      \/ Get(t) \/ Answer(t) \/ Remember(t) \/ Forget(t)

Spec == Init /\ [][Next]_vars

-----------------------------------------------------------------------------
Later(s) ==
  { r \in Sessions : \E i, j \in DOMAIN recent :
                       i < j /\ recent[i] = s /\ recent[j] = r }

Fits(s) == Cardinality(Later(s)) < MaxSessions

(***************************************************************************)
(* A session finds the very context it stored last until its time is over, *)
(* as long as fewer other sessions than the store has room for have used   *)
(* the store since: no interleaving of turns, expiry and eviction makes    *)
(* AVAROS forget a session it could have kept, or mix up two.              *)
(***************************************************************************)
RecentIsKept ==
  \A s \in Sessions :
    /\ stored[s] # Nothing
    /\ now <= stored[s].context.updated + TTL
    /\ Fits(s)
    => [session |-> s, context |-> stored[s].context]
         \in { items[i] : i \in DOMAIN items }

(***************************************************************************)
(* What a follow-up takes over is never older than the lifetime of a       *)
(* context, counted to the moment the follow-up was asked, however long    *)
(* the turn then waits and whoever uses the store in between.              *)
(***************************************************************************)
FollowUpIsFresh ==
  \A t \in Turns :
    turn[t] # Nothing /\ turn[t].prior # Nothing
      => turn[t].heard <= turn[t].prior.updated + TTL

(***************************************************************************)
(* A later question stays the context of its session: a follow-up "reuses  *)
(* the previous metric and period in the same session".                    *)
(***************************************************************************)
ContextMovesOn ==
  [][\A s \in Sessions :
       stored[s] # Nothing /\ stored'[s] # stored[s]
         => stored'[s].asked >= stored[s].asked]_vars
=============================================================================
