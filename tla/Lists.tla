-------------------------------- MODULE Lists --------------------------------
(***************************************************************************)
(* What the code does with Python's lists: it takes the first element that *)
(* will do (next over a generator), and it sorts (sorted, list.sort).      *)
(***************************************************************************)
EXTENDS Integers, Sequences, FiniteSetsExt

\* The first element that will do, as a set of at most one.
FirstWhere(s, Good(_)) ==
    LET good == {i \in DOMAIN s : Good(s[i])} IN IF good = {} THEN {} ELSE {s[Min(good)]}

\* Numbers in their order.
Ascending(S) == [k \in 1..Cardinality(S) |-> CHOOSE i \in S : Cardinality({j \in S : j < i}) = k - 1]

\* The elements of s, those first whose places come first in the order `before`.
Arranged(s, before) ==
    [k \in DOMAIN s |-> s[CHOOSE i \in DOMAIN s : Cardinality({j \in DOMAIN s : <<j, i>> \in before}) = k - 1]]

\* Python sorts stably: of two elements neither of which is less than the other,
\* the one that came first stays first.
Sorted(s, Less(_, _)) ==
    Arranged(s, {p \in (DOMAIN s) \X (DOMAIN s) : Less(s[p[1]], s[p[2]]) \/ (~Less(s[p[2]], s[p[1]]) /\ p[1] < p[2])})
=============================================================================
