---------------------------- MODULE PreventionToken ---------------------------
(***************************************************************************)
(* The access token of the PREVENTION client (clients/prevention_http.py,  *)
(* _fetch_keycloak_access_token): coroutines of one client fetch, cache    *)
(* and send it, while the issuer takes its time and the token its course.  *)
(*                                                                         *)
(* Time is in units of ten seconds.  Two queries that find no token both   *)
(* fetch one: there is no lock, and the one that answers last is kept.     *)
(***************************************************************************)
EXTENDS Integers, FiniteSets

CONSTANTS
    Queries,        \* coroutines that ask the provider
    Lifetimes,      \* what the issuer may grant
    Margin,         \* how long before its end a token is no longer used (3)
    Least,          \* lifetime the client assumes at least (6)
    Timeout,        \* how long a request to the issuer may take (3)
    MaxTime         \* bound: the clock

ASSUME TokenAssumption ==
    /\ Margin \in Nat /\ Least \in Nat /\ Timeout \in Nat /\ Lifetimes \subseteq Nat /\ MaxTime \in Nat
    /\ Timeout + Margin <= Least

VARIABLES
    now,        \* the clock
    token,      \* the cached token: when it ends, and until when it is believed to live
    query       \* per query: where it is, when it began, the end of its token

vars == <<now, token, query>>

None == -1
Waiting == [pc |-> "idle", began |-> 0, ends |-> None]

Init ==
    /\ now = 0
    /\ token = [ends |-> None, believed |-> 0]
    /\ query = [q \in Queries |-> Waiting]

\* A mutant of Fresh: the token is used to its very end.
FreshToTheEnd == token.ends # None /\ now < token.believed

Fresh == token.ends # None /\ now < token.believed - Margin

\* The clock is read, and the cached token taken if it will do; if not the issuer
\* is asked.
Resolve(q) ==
    /\ query[q].pc = "idle"
    /\ query' = [query EXCEPT ![q] = IF Fresh THEN [pc |-> "send", began |-> now, ends |-> token.ends]
                                     ELSE [pc |-> "fetch", began |-> now, ends |-> None]]
    /\ UNCHANGED <<now, token>>

\* The issuer refuses, or is not to be reached: the query fails, as a caller of
\* the client sees by its local answer.
Refuse(q) ==
    /\ query[q].pc = "fetch"
    /\ query' = [query EXCEPT ![q] = Waiting]
    /\ UNCHANGED <<now, token>>

\* The client counts the token's life from when the fetch began, the issuer from
\* some moment of it.
Store(q) ==
    /\ query[q].pc = "fetch" /\ now <= query[q].began + Timeout
    /\ \E life \in Lifetimes, issued \in query[q].began..now :
          /\ token' = [ends |-> issued + life, believed |-> query[q].began + (IF life < Least THEN Least ELSE life)]
          /\ query' = [query EXCEPT ![q] = [pc |-> "send", began |-> now, ends |-> issued + life]]
    /\ UNCHANGED now

\* The query reaches the provider, and is answered.
Deliver(q) ==
    /\ query[q].pc = "send"
    /\ query' = [query EXCEPT ![q].pc = "sent"]
    /\ UNCHANGED <<now, token>>

Done(q) ==
    /\ query[q].pc = "sent"
    /\ query' = [query EXCEPT ![q] = Waiting]
    /\ UNCHANGED <<now, token>>

Tick ==
    /\ now < MaxTime /\ \A q \in Queries : query[q].pc # "sent"
    /\ now' = now + 1
    /\ UNCHANGED <<token, query>>

Next == Tick \/ \E q \in Queries : Resolve(q) \/ Refuse(q) \/ Store(q) \/ Deliver(q) \/ Done(q)

\* A query reaches the provider with a token that is still alive, whichever query
\* fetched it, unless it was under way for longer than the margin or the token was
\* granted for less than the client assumes (prevention_http.py:528).
TokenAlive ==
    \A q \in Queries :
        (query[q].pc = "sent" /\ now <= query[q].began + Margin /\ \A life \in Lifetimes : life >= Least) =>
            now <= query[q].ends

Spec == Init /\ [][Next]_vars
=============================================================================
