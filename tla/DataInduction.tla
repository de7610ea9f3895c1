---------------------------- MODULE DataInduction ----------------------------
(***************************************************************************)
(* Induction over numbers and finite sets, stated about a set of cases     *)
(* instead of a predicate: what holds of each case is the membership in    *)
(* the set, so that the lemmas can be applied as they are.  By it, what    *)
(* sums over finite sets are.                                              *)
(***************************************************************************)
EXTENDS Lists, FiniteSets, FiniteSetTheorems, WellFoundedInduction, TLAPS

\* Of some finite sets, one has none of the others below it.
LEMMA LeastFinite ==
  ASSUME NEW S, NEW F, F \subseteq FiniteSubsetsOf(S), F # {}
  PROVE  \E X \in F : \A Y \in F : Y \subseteq X => Y = X
<1>1. F \subseteq FiniteSubsetsOf(S)
  BY DEF FiniteSubsetsOf
<1>2. \E X \in F : \A Y \in F : ~(<<Y, X>> \in StrictSubsetOrdering(S))
  BY <1>1, FS_StrictSubsetOrderingWellFounded, WFMin
<1> QED BY <1>2, <1>1 DEF StrictSubsetOrdering, FiniteSubsetsOf

\* Numbers have a least one ...
LEMMA LeastNat ==
  ASSUME NEW T, T \subseteq Nat, T # {}
  PROVE  \E n \in T : \A m \in T : n <= m
<1> DEFINE F == {1..n : n \in T}
<1>1. F \subseteq FiniteSubsetsOf(Nat)
  <2>1. \A n \in Nat : IsFiniteSet(1..n) /\ 1..n \subseteq Nat
    BY FS_Interval
  <2> QED BY <2>1 DEF FiniteSubsetsOf
<1>2. F # {} 
  OBVIOUS
<1> HIDE DEF F
<1>3. PICK X \in F : \A Y \in F : Y \subseteq X => Y = X
  BY <1>1, <1>2, LeastFinite
<1>4. PICK n \in T : X = 1..n
  BY DEF F
<1>5. ASSUME NEW m \in T PROVE n <= m
  <2>1. 1..m \in F 
    BY DEF F
  <2>2. 1..m \subseteq X => 1..m = 1..n
    BY <2>1, <1>3, <1>4
  <2> QED BY <2>2, <1>4
<1> QED BY <1>5

\* ... so that what holds of zero and passes on to the next holds of all of them.
LEMMA NatSetInduction ==
  ASSUME NEW T, T \subseteq Nat, 0 \in T, \A n \in T : n + 1 \in T
  PROVE  T = Nat
<1> SUFFICES ASSUME Nat \ T # {} PROVE FALSE
  OBVIOUS
<1>1. PICK n \in Nat \ T : \A m \in Nat \ T : n <= m
  BY LeastNat
<1>2. n - 1 \in Nat /\ n - 1 \notin T
  BY <1>1
<1> QED BY <1>1, <1>2

\* What holds of the empty set, and stays with each further element, holds of a
\* finite set.
LEMMA FiniteSetInduction ==
  ASSUME NEW S, IsFiniteSet(S), NEW F, {} \in F,
         \A T \in F : \A x \in S \ T : T \subseteq S => T \cup {x} \in F
  PROVE  S \in F
<1> SUFFICES ASSUME S \notin F PROVE FALSE
  OBVIOUS
<1> DEFINE G == {X \in SUBSET S : X \notin F}
<1>1. G \subseteq FiniteSubsetsOf(S) /\ G # {}
  BY FS_Subset DEF FiniteSubsetsOf
<1> HIDE DEF G
<1>2. PICK X \in G : \A Y \in G : Y \subseteq X => Y = X
  BY <1>1, LeastFinite
<1>3. X # {} /\ X \subseteq S /\ X \notin F
  BY <1>2 DEF G
<1>4. PICK x \in X : TRUE
  BY <1>3
<1>5. X \ {x} \in F
  BY <1>2, <1>3, <1>4 DEF G
<1>6. (X \ {x}) \cup {x} \in F
  BY <1>5, <1>3, <1>4
<1>7. (X \ {x}) \cup {x} = X
  BY <1>4
<1> QED BY <1>6, <1>7, <1>3

\* Numbers below a bound have a greatest one.
LEMMA GreatestNat ==
  ASSUME NEW T, NEW n \in Nat, T \subseteq 0..n, T # {}
  PROVE  \E k \in T : \A m \in T : m <= k
<1> DEFINE U == {n - m : m \in T}
<1>1. \A m \in T : m \in Nat /\ n - m \in Nat
  OBVIOUS
<1>2. U \subseteq Nat /\ U # {}
  BY <1>1
<1>3. PICK u \in U : \A v \in U : u <= v
  BY <1>2, LeastNat
<1>4. PICK k \in T : u = n - k
  OBVIOUS
<1>5. \A m \in T : u <= n - m
  BY <1>3
<1> QED BY <1>1, <1>4, <1>5

\* A finite set of numbers has a bound.
LEMMA FiniteBounded ==
  ASSUME NEW S, IsFiniteSet(S), S \subseteq Nat
  PROVE  \E b \in Nat : S \subseteq 0..b
<1> DEFINE F == {T \in SUBSET S : \E b \in Nat : T \subseteq 0..b}
<1>1. {} \in F
  OBVIOUS
<1>2. ASSUME NEW T \in F, NEW x \in S \ T PROVE T \cup {x} \in F
  <2>1. PICK b \in Nat : T \subseteq 0..b
    OBVIOUS
  <2>2. CASE x <= b
    BY <2>1, <2>2
  <2>3. CASE x > b
    <3>1. T \cup {x} \subseteq 0..x
      BY <2>1, <2>3
    <3> QED BY <3>1
  <2> QED BY <2>2, <2>3
<1> HIDE DEF F
<1>3. S \in F
  BY <1>1, <1>2, FiniteSetInduction
<1> QED BY <1>3 DEF F

----------------------------------------------------------------------------
(* Sums over finite sets, of the values a function gives to the elements.  *)

\* What a sum takes its elements from, one by one.
SumBody(g, S, f) ==
    [s \in SUBSET S |-> IF s = {} THEN 0 ELSE LET x == CHOOSE x \in s : TRUE IN g[x] + f[s \ {x}]]

\* ... and the same for the subsets of up to n elements.
SumBodyTo(g, S, n, f) ==
    [s \in {t \in SUBSET S : Cardinality(t) <= n} |->
        IF s = {} THEN 0 ELSE LET x == CHOOSE x \in s : TRUE IN g[x] + f[s \ {x}]]

SumOver(g, S) == (CHOOSE f : f = SumBody(g, S, f))[S]

\* A function on all subsets that adds up element by element.
Adds(g, S, f) ==
    /\ f \in [SUBSET S -> Int]
    /\ f[{}] = 0
    /\ \A s \in SUBSET S : \A x \in s : f[s] = g[x] + f[s \ {x}]

\* The sum of the subsets of up to n elements is defined, for every n ...
LEMMA SumsUpTo ==
  ASSUME NEW S, IsFiniteSet(S), NEW g
  PROVE  \A n \in Nat : \E f : f = SumBodyTo(g, S, n, f)
<1> DEFINE D(n) == {t \in SUBSET S : Cardinality(t) <= n}
           B(n, f) == [s \in D(n) |-> IF s = {} THEN 0 ELSE LET x == CHOOSE x \in s : TRUE IN g[x] + f[s \ {x}]]
           T == {n \in Nat : \E f : f = B(n, f)}
<1>0. ASSUME NEW t \in SUBSET S
      PROVE  /\ IsFiniteSet(t) /\ Cardinality(t) \in Nat
             /\ (Cardinality(t) = 0 <=> t = {})
             /\ \A x \in t : Cardinality(t \ {x}) = Cardinality(t) - 1
  <2>1. IsFiniteSet(t)
    BY FS_Subset
  <2> QED BY <2>1, FS_CardinalityType, FS_EmptySet, FS_RemoveElement
<1>1. 0 \in T
  <2>1. D(0) = {{}}
    <3>1. \A t \in SUBSET S : Cardinality(t) <= 0 <=> t = {}
      BY <1>0
    <3> QED BY <3>1
  <2>2. [s \in {{}} |-> 0] = B(0, [s \in {{}} |-> 0])
    BY <2>1
  <2> QED BY <2>2
<1>2. ASSUME NEW n \in T PROVE n + 1 \in T
  <2>1. PICK f : f = B(n, f)
    BY <1>2
  <2>2. D(n) \subseteq D(n + 1)
    BY <1>0
  <2>3. ASSUME NEW s \in D(n + 1), s # {}
        PROVE  /\ (CHOOSE x \in s : TRUE) \in s
               /\ s \ {CHOOSE x \in s : TRUE} \in D(n)
    <3>1. (CHOOSE x \in s : TRUE) \in s
      BY <2>3
    <3>2. Cardinality(s \ {CHOOSE x \in s : TRUE}) = Cardinality(s) - 1
      BY <3>1, <1>0
    <3> QED BY <3>1, <3>2, <1>0
  <2> DEFINE h == B(n + 1, f)
  <2>4. ASSUME NEW s \in D(n) PROVE h[s] = f[s]
    <3>1. f[s] = B(n, f)[s]
      BY <2>1
    <3> QED BY <3>1, <2>2
  <2>5. ASSUME NEW s \in D(n + 1) PROVE h[s] = B(n + 1, h)[s]
    <3>1. CASE s = {}
      BY <3>1
    <3>2. CASE s # {}
      <4>1. h[s \ {CHOOSE x \in s : TRUE}] = f[s \ {CHOOSE x \in s : TRUE}]
        BY <3>2, <2>3, <2>4
      <4>2. h[s] = g[CHOOSE x \in s : TRUE] + f[s \ {CHOOSE x \in s : TRUE}]
        BY <3>2
      <4> HIDE DEF h
      <4>3. B(n + 1, h)[s] = g[CHOOSE x \in s : TRUE] + h[s \ {CHOOSE x \in s : TRUE}]
        BY <3>2
      <4> QED BY <4>1, <4>2, <4>3
    <3> QED BY <3>1, <3>2
  <2>6. h = B(n + 1, h)
    BY <2>5
  <2>7. \E k : k = B(n + 1, k)
    BY <2>6
  <2>8. n + 1 \in Nat
    OBVIOUS
  <2> HIDE DEF B
  <2> QED BY <2>7, <2>8
<1> HIDE DEF T
<1>3. T = Nat
  BY <1>1, <1>2, NatSetInduction DEF T
<1> QED BY <1>3 DEF T, SumBodyTo

\* ... so that the sum over the set is.
LEMMA SumExists ==
  ASSUME NEW S, IsFiniteSet(S), NEW g
  PROVE  \E f : f = SumBody(g, S, f)
<1> DEFINE n == Cardinality(S)
           D == {t \in SUBSET S : Cardinality(t) <= n}
<1>1. n \in Nat
  BY FS_CardinalityType
<1>2. D = SUBSET S
  <2>1. \A t \in SUBSET S : Cardinality(t) <= n
    BY FS_Subset
  <2> QED BY <2>1
<1>3. \E f : f = SumBodyTo(g, S, n, f)
  BY <1>1, SumsUpTo
<1>4. \A f : SumBodyTo(g, S, n, f) = SumBody(g, S, f)
  BY <1>2 DEF SumBody, SumBodyTo
<1> QED BY <1>3, <1>4

\* The order in which the elements are taken makes no difference.
LEMMA SumAdds ==
  ASSUME NEW S, IsFiniteSet(S), NEW g, \A x \in S : g[x] \in Int, NEW f, f = SumBody(g, S, f)
  PROVE  Adds(g, S, f)
<1> DEFINE T == {n \in Nat : \A s \in SUBSET S : Cardinality(s) = n =>
                   f[s] \in Int /\ \A x \in s : f[s] = g[x] + f[s \ {x}]}
<1>0. ASSUME NEW t \in SUBSET S
      PROVE  /\ IsFiniteSet(t) /\ Cardinality(t) \in Nat
             /\ (Cardinality(t) = 0 <=> t = {})
             /\ \A x \in t : Cardinality(t \ {x}) = Cardinality(t) - 1
  <2>1. IsFiniteSet(t)
    BY FS_Subset
  <2> QED BY <2>1, FS_CardinalityType, FS_EmptySet, FS_RemoveElement
<1>1. f[{}] = 0 /\ f = [s \in SUBSET S |-> f[s]]
  <2>1. SumBody(g, S, f)[{}] = 0
    BY DEF SumBody
  <2> QED BY <2>1 DEF SumBody
<1>2. ASSUME NEW s \in SUBSET S, s # {}
      PROVE  \E c \in s : f[s] = g[c] + f[s \ {c}]
  <2>1. (CHOOSE x \in s : TRUE) \in s
    BY <1>2
  <2>2. SumBody(g, S, f)[s] = g[CHOOSE x \in s : TRUE] + f[s \ {CHOOSE x \in s : TRUE}]
    BY <1>2 DEF SumBody
  <2> QED BY <2>1, <2>2
<1> DEFINE U == {n \in Nat : \A s \in SUBSET S : Cardinality(s) = n => f[s] \in Int}
<1>3. 0 \in U
  <2>1. ASSUME NEW s \in SUBSET S, Cardinality(s) = 0 PROVE s = {}
    BY <1>0, <2>1
  <2>2. f[{}] \in Int
    BY <1>1
  <2> QED BY <2>1, <2>2
<1>4. ASSUME NEW n \in U PROVE n + 1 \in U
  <2> SUFFICES ASSUME NEW s \in SUBSET S, Cardinality(s) = n + 1 PROVE f[s] \in Int
    OBVIOUS
  <2>1. PICK c \in s : f[s] = g[c] + f[s \ {c}]
    BY <1>0, <1>2
  <2>2. s \ {c} \in SUBSET S /\ Cardinality(s \ {c}) = n
    BY <1>0
  <2> QED BY <2>1, <2>2
<1> HIDE DEF U
<1>5. U = Nat
  BY <1>3, <1>4, NatSetInduction DEF U
<1>6. \A s \in SUBSET S : f[s] \in Int
  BY <1>5, <1>0 DEF U
<1>7. 0 \in T
  <2>1. ASSUME NEW s \in SUBSET S, Cardinality(s) = 0 PROVE s = {}
    BY <1>0, <2>1
  <2>2. f[{}] \in Int
    BY <1>1
  <2> QED BY <2>1, <2>2
<1>8. ASSUME NEW n \in T PROVE n + 1 \in T
  <2> SUFFICES ASSUME NEW s \in SUBSET S, Cardinality(s) = n + 1
               PROVE  f[s] \in Int /\ \A x \in s : f[s] = g[x] + f[s \ {x}]
    OBVIOUS
  <2>1. n \in Nat /\ s # {}
    BY <1>0
  <2>2. PICK c \in s : f[s] = g[c] + f[s \ {c}]
    BY <2>1, <1>2
  <2>3. ASSUME NEW x \in s
        PROVE  /\ f[s \ {x}] \in Int /\ g[x] \in Int
               /\ \A y \in s \ {x} : f[s \ {x}] = g[y] + f[(s \ {x}) \ {y}]
    <3>1. s \ {x} \in SUBSET S /\ Cardinality(s \ {x}) = n
      BY <1>0, <2>1
    <3> QED BY <3>1, <1>8
  <2>4. f[s] \in Int
    BY <1>6
  <2>5. ASSUME NEW x \in s, x # c PROVE f[s] = g[x] + f[s \ {x}]
    <3>1. f[s \ {c}] = g[x] + f[(s \ {c}) \ {x}]
      BY <2>3, <2>5
    <3>2. f[s \ {x}] = g[c] + f[(s \ {x}) \ {c}]
      BY <2>3, <2>5
    <3>3. f[(s \ {x}) \ {c}] = f[(s \ {c}) \ {x}]
      <4>1. (s \ {x}) \ {c} = (s \ {c}) \ {x}
        OBVIOUS
      <4> QED BY <4>1
    <3>4. f[(s \ {x}) \ {c}] \in Int
      BY <1>6
    <3>5. g[x] \in Int /\ g[c] \in Int
      OBVIOUS
    <3> HIDE DEF T, U
    <3> QED BY <3>5, <2>2, <2>3, <3>1, <3>2, <3>3, <3>4
  <2> QED BY <2>2, <2>4, <2>5
<1> HIDE DEF T
<1>9. T = Nat
  BY <1>7, <1>8, NatSetInduction DEF T
<1>10. \A s \in SUBSET S : f[s] \in Int /\ \A x \in s : f[s] = g[x] + f[s \ {x}]
  BY <1>9, <1>0 DEF T
<1> QED BY <1>1, <1>10 DEF Adds
\* A set has one sum, whatever it was taken from.
LEMMA SumUnique ==
  ASSUME NEW S, IsFiniteSet(S), NEW g, NEW f, NEW h, Adds(g, S, f), Adds(g, S, h)
  PROVE  f[S] = h[S]
<1> DEFINE F == {T \in SUBSET S : f[T] = h[T]}
<1>1. {} \in F
  BY DEF Adds
<1>2. ASSUME NEW T \in F, NEW x \in S \ T PROVE T \cup {x} \in F
  <2>1. (T \cup {x}) \ {x} = T
    OBVIOUS
  <2>2. f[T \cup {x}] = g[x] + f[(T \cup {x}) \ {x}] /\ h[T \cup {x}] = g[x] + h[(T \cup {x}) \ {x}]
    BY DEF Adds
  <2> QED BY <2>1, <2>2
<1> HIDE DEF F
<1>3. S \in F
  BY <1>1, <1>2, FiniteSetInduction
<1> QED BY <1>3 DEF F

\* The sum adds up, over all subsets.
LEMMA SumIsSum ==
  ASSUME NEW S, IsFiniteSet(S), NEW g, \A x \in S : g[x] \in Int
  PROVE  \E f : Adds(g, S, f) /\ f[S] = SumOver(g, S)
<1> DEFINE f == CHOOSE f : f = SumBody(g, S, f)
<1>1. f = SumBody(g, S, f)
  BY SumExists
<1>2. SumOver(g, S) = f[S]
  BY DEF SumOver
<1> HIDE DEF f
<1>3. Adds(g, S, f)
  BY <1>1, SumAdds
<1> QED BY <1>2, <1>3

\* Any way to add up gives the sum.
LEMMA SumOfAdds ==
  ASSUME NEW S, IsFiniteSet(S), NEW g, NEW T, T \subseteq S, NEW f, Adds(g, S, f), \A x \in S : g[x] \in Int
  PROVE  f[T] = SumOver(g, T)
<1>1. IsFiniteSet(T)
  BY FS_Subset
<1>2. PICK h : Adds(g, T, h) /\ h[T] = SumOver(g, T)
  BY <1>1, SumIsSum
<1> DEFINE k == [s \in SUBSET T |-> f[s]]
<1>3. Adds(g, T, k)
  BY DEF Adds
<1>4. k[T] = f[T]
  OBVIOUS
<1> HIDE DEF k
<1>5. k[T] = h[T]
  BY <1>1, <1>2, <1>3, SumUnique
<1> QED BY <1>2, <1>4, <1>5

LEMMA SumOfNone == ASSUME NEW g PROVE SumOver(g, {}) = 0
<1>1. PICK f : Adds(g, {}, f) /\ f[{}] = SumOver(g, {})
  BY SumIsSum, FS_EmptySet
<1> QED BY <1>1 DEF Adds

LEMMA SumType ==
  ASSUME NEW S, IsFiniteSet(S), NEW g, \A x \in S : g[x] \in Int
  PROVE  SumOver(g, S) \in Int
<1>1. PICK f : Adds(g, S, f) /\ f[S] = SumOver(g, S)
  BY SumIsSum
<1> QED BY <1>1 DEF Adds

\* One element more adds its value.
LEMMA SumPlus ==
  ASSUME NEW S, IsFiniteSet(S), NEW g, NEW x, x \notin S, g[x] \in Int, \A y \in S : g[y] \in Int
  PROVE  SumOver(g, S \cup {x}) = g[x] + SumOver(g, S)
<1>1. IsFiniteSet(S \cup {x})
  BY FS_AddElement
<1>2. PICK f : Adds(g, S \cup {x}, f) /\ f[S \cup {x}] = SumOver(g, S \cup {x})
  BY <1>1, SumIsSum
<1>3. f[S] = SumOver(g, S)
  BY <1>1, <1>2, SumOfAdds
<1>4. f[S \cup {x}] = g[x] + f[(S \cup {x}) \ {x}]
  BY <1>2 DEF Adds
<1>5. (S \cup {x}) \ {x} = S
  OBVIOUS
<1> QED BY <1>2, <1>3, <1>4, <1>5

\* Of numbers that are not negative, the sum is not either.
LEMMA SumNat ==
  ASSUME NEW S, IsFiniteSet(S), NEW g, \A x \in S : g[x] \in Nat
  PROVE  SumOver(g, S) \in Nat
<1> DEFINE F == {T \in SUBSET S : SumOver(g, T) \in Nat}
<1>1. {} \in F
  BY SumOfNone
<1>2. ASSUME NEW T \in F, NEW x \in S \ T PROVE T \cup {x} \in F
  <2>1. IsFiniteSet(T)
    BY FS_Subset
  <2>2. SumOver(g, T \cup {x}) = g[x] + SumOver(g, T)
    <3>1. x \notin T /\ g[x] \in Int /\ \A y \in T : g[y] \in Int
      OBVIOUS
    <3> HIDE DEF F
    <3> QED BY <2>1, <3>1, SumPlus
  <2>3. SumOver(g, T) \in Nat /\ g[x] \in Nat /\ T \cup {x} \in SUBSET S
    OBVIOUS
  <2>4. SumOver(g, T \cup {x}) \in Nat
    BY <2>2, <2>3
  <2> QED BY <2>3, <2>4
<1> HIDE DEF F
<1>3. S \in F
  BY <1>1, <1>2, FiniteSetInduction
<1> QED BY <1>3 DEF F

\* The sum depends on the values of the elements only.
LEMMA SumSame ==
  ASSUME NEW S, IsFiniteSet(S), NEW g, NEW h, \A x \in S : g[x] \in Int /\ h[x] = g[x]
  PROVE  SumOver(h, S) = SumOver(g, S)
<1>1. PICK f : Adds(g, S, f) /\ f[S] = SumOver(g, S)
  BY SumIsSum
<1>2. PICK k : Adds(h, S, k) /\ k[S] = SumOver(h, S)
  BY SumIsSum
<1>3. Adds(h, S, f)
  BY <1>1 DEF Adds
<1>4. f[S] = k[S]
  BY <1>2, <1>3, SumUnique
<1> QED BY <1>1, <1>2, <1>4

\* Sets without a common element: the sums add up.
LEMMA SumUnion ==
  ASSUME NEW S, IsFiniteSet(S), NEW T, IsFiniteSet(T), S \cap T = {},
         NEW g, \A x \in S \cup T : g[x] \in Int
  PROVE  SumOver(g, S \cup T) = SumOver(g, S) + SumOver(g, T)
<1> DEFINE F == {R \in SUBSET T : SumOver(g, S \cup R) = SumOver(g, S) + SumOver(g, R)}
<1>0. SumOver(g, S) \in Int
  BY SumType
<1>1. {} \in F
  <2>1. S \cup {} = S
    OBVIOUS
  <2> QED BY <1>0, <2>1, SumOfNone
<1>2. ASSUME NEW R \in F, NEW x \in T \ R PROVE R \cup {x} \in F
  <2>1. IsFiniteSet(R) /\ IsFiniteSet(S \cup R)
    BY FS_Subset, FS_Union
  <2>2. SumOver(g, R) \in Int /\ g[x] \in Int
    BY <2>1, SumType
  <2>3. SumOver(g, R \cup {x}) = g[x] + SumOver(g, R)
    BY <2>1, SumPlus
  <2>4. SumOver(g, (S \cup R) \cup {x}) = g[x] + SumOver(g, S \cup R)
    BY <2>1, SumPlus
  <2>5. S \cup (R \cup {x}) = (S \cup R) \cup {x}
    OBVIOUS
  <2>6. SumOver(g, S \cup R) = SumOver(g, S) + SumOver(g, R) /\ R \cup {x} \in SUBSET T
    OBVIOUS
  <2>7. SumOver(g, S \cup (R \cup {x})) = g[x] + SumOver(g, S \cup R)
    BY <2>4, <2>5
  <2>8. SumOver(g, S \cup (R \cup {x})) = SumOver(g, S) + SumOver(g, R \cup {x})
    BY <1>0, <2>2, <2>3, <2>6, <2>7
  <2> QED BY <2>6, <2>8
<1> HIDE DEF F
<1>3. T \in F
  BY <1>1, <1>2, FiniteSetInduction
<1> QED BY <1>3 DEF F

LEMMA ImageFinite ==
  ASSUME NEW S, IsFiniteSet(S), NEW f
  PROVE  IsFiniteSet({f[x] : x \in S})
<1> DEFINE T == {f[x] : x \in S}
           k == [x \in S |-> f[x]]
<1>1. k \in Surjection(S, T)
  BY DEF Surjection
<1> QED BY <1>1, FS_Surjection

\* The sum can be taken over the images of the elements, if they are distinct.
LEMMA SumImage ==
  ASSUME NEW S, IsFiniteSet(S), NEW at, NEW g, NEW h, \A x \in S : g[x] \in Int /\ h[at[x]] = g[x],
         \A x, y \in S : at[x] = at[y] => x = y
  PROVE  SumOver(h, {at[x] : x \in S}) = SumOver(g, S)
<1> DEFINE F == {R \in SUBSET S : SumOver(h, {at[x] : x \in R}) = SumOver(g, R)}
<1>1. {} \in F
  <2>1. {at[x] : x \in {}} = {}
    OBVIOUS
  <2> QED BY <2>1, SumOfNone
<1>2. ASSUME NEW R \in F, NEW x \in S \ R PROVE R \cup {x} \in F
  <2>1. IsFiniteSet(R) /\ IsFiniteSet({at[y] : y \in R})
    BY FS_Subset, ImageFinite
  <2>2. at[x] \notin {at[y] : y \in R}
    OBVIOUS
  <2>3. SumOver(g, R \cup {x}) = g[x] + SumOver(g, R)
    BY <2>1, SumPlus
  <2>4. \A z \in {at[y] : y \in R} : h[z] \in Int
    OBVIOUS
  <2>5. h[at[x]] = g[x] /\ h[at[x]] \in Int
    OBVIOUS
  <2> DEFINE I == {at[y] : y \in R}
  <2>6. {at[y] : y \in R \cup {x}} = I \cup {at[x]}
    OBVIOUS
  <2>7. IsFiniteSet(I) /\ at[x] \notin I /\ \A z \in I : h[z] \in Int
    BY <2>1, <2>2, <2>4
  <2>8. SumOver(h, I) = SumOver(g, R)
    OBVIOUS
  <2> HIDE DEF I
  <2>9. SumOver(h, I \cup {at[x]}) = h[at[x]] + SumOver(h, I)
    BY <2>5, <2>7, SumPlus
  <2> QED BY <2>3, <2>5, <2>6, <2>8, <2>9
<1> HIDE DEF F
<1>3. S \in F
  BY <1>1, <1>2, FiniteSetInduction
<1> QED BY <1>3 DEF F

\* The sum can be taken class by class.
LEMMA SumByClass ==
  ASSUME NEW S, IsFiniteSet(S), NEW of, NEW g, \A x \in S : g[x] \in Int,
         NEW all, all = {of[x] : x \in S}, NEW class, \A c \in all : class[c] = {x \in S : of[x] = c},
         NEW h, \A c \in all : h[c] = SumOver(g, class[c])
  PROVE  SumOver(h, all) = SumOver(g, S)
<1> DEFINE part(C) == {x \in S : of[x] \in C}
           F == {C \in SUBSET all : SumOver(h, C) = SumOver(g, part(C))}
<1>0. IsFiniteSet(all)
  BY ImageFinite
<1>1. {} \in F
  <2>1. part({}) = {}
    OBVIOUS
  <2> QED BY <2>1, SumOfNone
<1>2. ASSUME NEW C \in F, NEW c \in all \ C PROVE C \cup {c} \in F
  <2> DEFINE mine == class[c]
  <2>0. mine = {x \in S : of[x] = c}
    OBVIOUS
  <2>1. IsFiniteSet(part(C)) /\ IsFiniteSet(mine) /\ IsFiniteSet(C)
    BY <1>0, <2>0, FS_Subset
  <2>2. part(C \cup {c}) = part(C) \cup mine /\ part(C) \cap mine = {}
    BY <2>0
  <2>3. \A x \in part(C) \cup mine : g[x] \in Int
    BY <2>0
  <2>4. h[c] = SumOver(g, mine)
    OBVIOUS
  <2>5. \A d \in all : h[d] \in Int
    <3> SUFFICES ASSUME NEW d \in all PROVE h[d] \in Int
      OBVIOUS
    <3>1. IsFiniteSet(class[d]) /\ \A x \in class[d] : g[x] \in Int
      BY FS_Subset
    <3>2. SumOver(g, class[d]) \in Int
      BY <3>1, SumType
    <3> QED BY <3>2
  <2>6. SumOver(h, C) = SumOver(g, part(C)) /\ C \subseteq all /\ c \in all /\ c \notin C
    OBVIOUS
  <2>12. \A y \in C : h[y] \in Int
    BY <2>5, <2>6
  <2> HIDE DEF mine, part
  <2>7. SumOver(g, part(C) \cup mine) = SumOver(g, part(C)) + SumOver(g, mine)
    BY <2>1, <2>2, <2>3, SumUnion
  <2>8. SumOver(h, C \cup {c}) = h[c] + SumOver(h, C)
    BY <2>1, <2>5, <2>6, <2>12, SumPlus
  <2>9. SumOver(g, part(C)) \in Int /\ SumOver(g, mine) \in Int
    BY <2>1, <2>3, SumType
  <2>10. SumOver(g, part(C \cup {c})) = SumOver(g, part(C)) + SumOver(g, mine)
    BY <2>2, <2>7
  <2>11. SumOver(h, C \cup {c}) = SumOver(g, part(C \cup {c}))
    BY <2>4, <2>6, <2>8, <2>9, <2>10
  <2> QED BY <2>6, <2>11
<1> HIDE DEF F, part
<1>3. all \in F
  BY <1>0, <1>1, <1>2, FiniteSetInduction
<1>4. part(all) = S
  BY DEF part
<1> QED BY <1>3, <1>4 DEF F

----------------------------------------------------------------------------
(* Sorting (Lists): the elements of a list are put where their places      *)
(* come in an order.                                                       *)

StrictOrder(D, before) ==
    /\ \A i \in D : <<i, i>> \notin before
    /\ \A i, j \in D : i # j => <<i, j>> \in before \/ <<j, i>> \in before
    /\ \A i, j, k \in D : <<i, j>> \in before /\ <<j, k>> \in before => <<i, k>> \in before

\* Those that come before a place, and their number.
Earlier(D, before, i) == {j \in D : <<j, i>> \in before}
Place(D, before, i) == Cardinality(Earlier(D, before, i))

\* A strict subset of a finite set has fewer elements.
LEMMA FewerElements ==
  ASSUME NEW S, IsFiniteSet(S), NEW T, T \subseteq S, T # S
  PROVE  /\ IsFiniteSet(T) /\ Cardinality(T) \in Nat /\ Cardinality(S) \in Nat
         /\ Cardinality(T) < Cardinality(S)
<1>1. IsFiniteSet(T) /\ Cardinality(T) <= Cardinality(S) /\ Cardinality(S) # Cardinality(T)
  BY FS_Subset
<1>2. Cardinality(T) \in Nat /\ Cardinality(S) \in Nat
  BY <1>1, FS_CardinalityType
<1> QED BY <1>1, <1>2

\* In a strict order, places are counted from zero, and an earlier one is lower.
LEMMA PlacesCount ==
  ASSUME NEW D, IsFiniteSet(D), NEW before, StrictOrder(D, before)
  PROVE  /\ \A i \in D : Place(D, before, i) \in 0..(Cardinality(D) - 1)
         /\ \A i, j \in D : <<i, j>> \in before => Place(D, before, i) < Place(D, before, j)
<1>1. ASSUME NEW i \in D PROVE Place(D, before, i) \in 0..(Cardinality(D) - 1)
  <2>1. Earlier(D, before, i) \subseteq D /\ i \notin Earlier(D, before, i)
    BY DEF Earlier, StrictOrder
  <2>2. /\ Cardinality(Earlier(D, before, i)) \in Nat /\ Cardinality(D) \in Nat
        /\ Cardinality(Earlier(D, before, i)) < Cardinality(D)
    BY <2>1, FewerElements
  <2> QED BY <2>2 DEF Place
<1>2. ASSUME NEW i \in D, NEW j \in D, <<i, j>> \in before PROVE Place(D, before, i) < Place(D, before, j)
  <2>1. Earlier(D, before, i) \subseteq Earlier(D, before, j)
    BY <1>2 DEF Earlier, StrictOrder
  <2>2. i \in Earlier(D, before, j) /\ i \notin Earlier(D, before, i)
    BY <1>2 DEF Earlier, StrictOrder
  <2>3. IsFiniteSet(Earlier(D, before, j))
    BY FS_Subset DEF Earlier
  <2> QED BY <2>1, <2>2, <2>3, FewerElements DEF Place
<1> QED BY <1>1, <1>2

\* Each place is taken, by one element.
LEMMA PlacesAreTaken ==
  ASSUME NEW D, IsFiniteSet(D), NEW before, StrictOrder(D, before), NEW k \in 1..Cardinality(D)
  PROVE  \E i \in D : /\ Place(D, before, i) = k - 1
                      /\ \A j \in D : Place(D, before, j) = k - 1 => j = i
<1> DEFINE T == 0..(Cardinality(D) - 1)
           f == [i \in D |-> Place(D, before, i)]
<1>1. Cardinality(D) \in Nat
  BY FS_CardinalityType
<1>2. IsFiniteSet(T) /\ Cardinality(T) = Cardinality(D)
  <2>1. 0 \in Int /\ Cardinality(D) - 1 \in Int
    BY <1>1
  <2>2. IsFiniteSet(T) /\ Cardinality(T) = IF 0 > Cardinality(D) - 1 THEN 0 ELSE (Cardinality(D) - 1) - 0 + 1
    BY <2>1, FS_Interval
  <2> QED BY <1>1, <2>2
<1>3. f \in [D -> T]
  BY PlacesCount
<1>4. ASSUME NEW i \in D, NEW j \in D, Place(D, before, i) = Place(D, before, j) PROVE i = j
  <2>1. \A p, q \in D : <<p, q>> \in before => Place(D, before, p) < Place(D, before, q)
    BY PlacesCount
  <2>2. Place(D, before, i) \in 0..(Cardinality(D) - 1)
    BY PlacesCount
  <2>3. <<i, j>> \notin before /\ <<j, i>> \notin before
    BY <1>1, <1>4, <2>1, <2>2
  <2> QED BY <2>3 DEF StrictOrder
<1>5. f \in Injection(D, T)
  BY <1>3, <1>4 DEF Injection, IsInjective
<1>6. f \in Surjection(D, T)
  BY <1>2, <1>5, FS_Injection
<1>7. k - 1 \in T
  BY <1>1
<1>8. \E i \in D : f[i] = k - 1
  BY <1>6, <1>7 DEF Surjection
<1> QED BY <1>4, <1>8

LEMMA PlaceIsTaken ==
  ASSUME NEW n \in Nat, NEW before, StrictOrder(1..n, before), NEW k \in 1..n
  PROVE  \E i \in 1..n : /\ Place(1..n, before, i) = k - 1
                         /\ \A j \in 1..n : Place(1..n, before, j) = k - 1 => j = i
<1> DEFINE D == 1..n
<1>1. IsFiniteSet(D) /\ Cardinality(D) = n /\ StrictOrder(D, before) /\ k \in 1..n
  BY FS_Interval
<1> SUFFICES \E i \in D : Place(D, before, i) = k - 1 /\ \A j \in D : Place(D, before, j) = k - 1 => j = i
  OBVIOUS
<1> HIDE DEF D
<1>2. k \in 1..Cardinality(D)
  BY <1>1
<1> QED BY <1>1, <1>2, PlacesAreTaken

\* The element of each place is there, an earlier one first.
LEMMA ArrangedInOrder ==
  ASSUME NEW s, NEW n \in Nat, DOMAIN s = 1..n, NEW before, StrictOrder(1..n, before)
  PROVE  /\ DOMAIN Arranged(s, before) = 1..n
         /\ \E at \in [1..n -> 1..n] :
               /\ \A k \in 1..n : Arranged(s, before)[k] = s[at[k]] /\ Place(1..n, before, at[k]) = k - 1
               /\ \A k, l \in 1..n : k < l => <<at[k], at[l]>> \in before
<1> DEFINE D == 1..n
           at == [k \in D |-> CHOOSE i \in D : Cardinality({j \in D : <<j, i>> \in before}) = k - 1]
<1>1. IsFiniteSet(D) /\ Cardinality(D) = n
  BY FS_Interval
<1>2. ASSUME NEW k \in D PROVE at[k] \in D /\ Place(D, before, at[k]) = k - 1
  <2>1. \E i \in D : Place(D, before, i) = k - 1
    BY PlaceIsTaken
  <2> QED BY <2>1 DEF Place, Earlier
<1>3. DOMAIN Arranged(s, before) = D /\ \A k \in D : Arranged(s, before)[k] = s[at[k]]
  BY DEF Arranged
<1>4. ASSUME NEW k \in D, NEW l \in D, k < l PROVE <<at[k], at[l]>> \in before
  <2>1. at[k] \in D /\ at[l] \in D /\ Place(D, before, at[k]) = k - 1 /\ Place(D, before, at[l]) = l - 1
    BY <1>2
  <2>2. \A p, q \in D : <<p, q>> \in before => Place(D, before, p) < Place(D, before, q)
    BY <1>1, PlacesCount
  <2> HIDE DEF at
  <2>3. at[k] # at[l] /\ <<at[l], at[k]>> \notin before
    BY <1>4, <2>1, <2>2
  <2> QED BY <2>1, <2>3 DEF StrictOrder
<1>5. at \in [D -> D]
  BY <1>2
<1> HIDE DEF at
<1> QED BY <1>2, <1>3, <1>4, <1>5

\* t has the elements of s elsewhere, in an order that moves with them.
Moved(n, D, s, before, t, after, move) ==
    /\ n \in Nat /\ D = 1..n /\ DOMAIN s = D /\ DOMAIN t = D
    /\ StrictOrder(D, before) /\ StrictOrder(D, after)
    /\ move \in [D -> D] /\ \A i \in D : t[move[i]] = s[i]
    /\ \A i, j \in D : move[i] = move[j] => i = j
    /\ \A i, j \in D : <<i, j>> \in before <=> <<move[i], move[j]>> \in after

\* A list and the same one in another sequence are the same once arranged.
LEMMA ArrangedSame ==
  ASSUME NEW n, NEW D, NEW s, NEW t, NEW before, NEW after, NEW move, Moved(n, D, s, before, t, after, move)
  PROVE  Arranged(t, after) = Arranged(s, before)
<1>0. /\ n \in Nat /\ D = 1..n /\ DOMAIN s = D /\ DOMAIN t = D
      /\ StrictOrder(D, before) /\ StrictOrder(D, after)
      /\ move \in [D -> D] /\ \A i \in D : t[move[i]] = s[i]
      /\ \A i, j \in D : move[i] = move[j] => i = j
      /\ \A i, j \in D : <<i, j>> \in before <=> <<move[i], move[j]>> \in after
  BY DEF Moved
<1>1. IsFiniteSet(D) /\ Cardinality(D) = n
  BY <1>0, FS_Interval
<1>2. move \in Surjection(D, D)
  <2>1. move \in Injection(D, D)
    BY <1>0 DEF Injection, IsInjective
  <2> QED BY <1>1, <2>1, FS_Injection
<1>3. ASSUME NEW i \in D PROVE Place(D, after, move[i]) = Place(D, before, i)
  <2> DEFINE E == Earlier(D, before, i)
             F == Earlier(D, after, move[i])
             g == [j \in E |-> move[j]]
  <2>1. IsFiniteSet(E)
    BY <1>1, FS_Subset DEF Earlier
  <2>2. g \in Bijection(E, F)
    <3>1. g \in [E -> F] /\ \A p, q \in E : g[p] = g[q] => p = q
      BY <1>0 DEF Earlier
    <3>2. \A q \in F : \E p \in E : g[p] = q
      BY <1>0, <1>2 DEF Earlier, Surjection
    <3> QED BY <3>1, <3>2 DEF Bijection, Injection, IsInjective, Surjection
  <2>3. ExistsBijection(E, F)
    BY <2>2 DEF ExistsBijection
  <2> QED BY <2>1, <2>3, FS_Bijection DEF Place
<1>4. ASSUME NEW k \in D PROVE Arranged(t, after)[k] = Arranged(s, before)[k]
  <2>1. PICK i \in D : Place(D, before, i) = k - 1 /\ \A j \in D : Place(D, before, j) = k - 1 => j = i
    BY <1>0, PlaceIsTaken
  <2>2. PICK m \in D : Place(D, after, m) = k - 1 /\ \A j \in D : Place(D, after, j) = k - 1 => j = m
    BY <1>0, PlaceIsTaken
  <2>3. m = move[i]
    BY <1>0, <1>3, <2>1, <2>2
  <2>4. (CHOOSE j \in D : Place(D, before, j) = k - 1) = i
    BY <2>1
  <2>5. (CHOOSE j \in D : Place(D, after, j) = k - 1) = m
    BY <2>2
  <2>6. /\ Arranged(s, before)[k] = s[CHOOSE j \in D : Place(D, before, j) = k - 1]
        /\ Arranged(t, after)[k] = t[CHOOSE j \in D : Place(D, after, j) = k - 1]
    BY <1>0 DEF Arranged, Place, Earlier
  <2>7. t[move[i]] = s[i]
    BY <1>0
  <2> QED BY <2>3, <2>4, <2>5, <2>6, <2>7
<1>5. Arranged(t, after) = [k \in D |-> Arranged(t, after)[k]] /\ Arranged(s, before) = [k \in D |-> Arranged(s, before)[k]]
  BY <1>0 DEF Arranged
<1> QED BY <1>4, <1>5

\* Two lists in one order are arranged in one way.
Alike(n, s, t, before) == n \in Nat /\ DOMAIN s = 1..n /\ DOMAIN t = 1..n /\ StrictOrder(1..n, before)

LEMMA ArrangedAlike ==
  ASSUME NEW n, NEW s, NEW t, NEW before, Alike(n, s, t, before)
  PROVE  /\ DOMAIN Arranged(s, before) = 1..n /\ DOMAIN Arranged(t, before) = 1..n
         /\ \A k \in 1..n : \E i \in 1..n : Arranged(s, before)[k] = s[i] /\ Arranged(t, before)[k] = t[i]
<1>0. n \in Nat /\ DOMAIN s = 1..n /\ DOMAIN t = 1..n /\ StrictOrder(1..n, before)
  BY DEF Alike
<1> DEFINE D == 1..n
<1>1. ASSUME NEW k \in D PROVE \E i \in D : Arranged(s, before)[k] = s[i] /\ Arranged(t, before)[k] = t[i]
  <2>1. \E i \in D : Place(D, before, i) = k - 1
    BY <1>0, PlaceIsTaken
  <2> DEFINE i == CHOOSE i \in D : Place(D, before, i) = k - 1
  <2>2. i \in D
    BY <2>1
  <2>3. Arranged(s, before)[k] = s[i] /\ Arranged(t, before)[k] = t[i]
    BY <1>0 DEF Arranged, Place, Earlier
  <2> QED BY <2>2, <2>3
<1>2. DOMAIN Arranged(s, before) = D /\ DOMAIN Arranged(t, before) = D
  BY <1>0 DEF Arranged
<1> QED BY <1>1, <1>2

\* By keys that are numbers, with ties in the order of the places.
ByKey(n, key) == {p \in (1..n) \X (1..n) : key[p[1]] < key[p[2]] \/ (~(key[p[2]] < key[p[1]]) /\ p[1] < p[2])}

LEMMA KeysOrder ==
  ASSUME NEW n \in Nat, NEW key, \A i \in 1..n : key[i] \in Int
  PROVE  StrictOrder(1..n, ByKey(n, key))
<1>1. \A i, j \in 1..n : <<i, j>> \in ByKey(n, key) <=> key[i] < key[j] \/ (~(key[j] < key[i]) /\ i < j)
  BY DEF ByKey
<1> QED BY <1>1 DEF StrictOrder

\* t is s from the other end, and so are their keys, which are distinct.
Reversed(n, s, k, t, l) ==
    /\ n \in Nat /\ DOMAIN s = 1..n /\ DOMAIN t = 1..n
    /\ \A i \in 1..n : t[n + 1 - i] = s[i] /\ k[i] \in Int /\ l[n + 1 - i] = k[i]
    /\ \A i, j \in 1..n : k[i] = k[j] => i = j

\* A list is arranged by distinct keys to the same list from either end.
LEMMA ArrangedReversed ==
  ASSUME NEW n, NEW s, NEW k, NEW t, NEW l, Reversed(n, s, k, t, l)
  PROVE  Arranged(t, ByKey(n, l)) = Arranged(s, ByKey(n, k))
<1>0. /\ n \in Nat /\ DOMAIN s = 1..n /\ DOMAIN t = 1..n
      /\ \A i \in 1..n : t[n + 1 - i] = s[i] /\ k[i] \in Int /\ l[n + 1 - i] = k[i]
      /\ \A i, j \in 1..n : k[i] = k[j] => i = j
  BY DEF Reversed
<1> DEFINE move == [i \in 1..n |-> n + 1 - i]
<1>1. ASSUME NEW i \in 1..n PROVE l[i] \in Int /\ n + 1 - i \in 1..n
  <2>1. n + 1 - i \in 1..n /\ n + 1 - (n + 1 - i) = i
    BY <1>0
  <2> QED BY <1>0, <2>1
<1>2. /\ move \in [1..n -> 1..n] /\ \A i \in 1..n : t[move[i]] = s[i] /\ l[move[i]] = k[i]
      /\ \A i, j \in 1..n : move[i] = move[j] => i = j
  BY <1>0
<1> HIDE DEF move
<1>3. ASSUME NEW i \in 1..n, NEW j \in 1..n
      PROVE  <<i, j>> \in ByKey(n, k) <=> <<move[i], move[j]>> \in ByKey(n, l)
  <2>1. move[i] \in 1..n /\ move[j] \in 1..n /\ l[move[i]] = k[i] /\ l[move[j]] = k[j] /\ k[i] \in Int /\ k[j] \in Int
    BY <1>0, <1>2
  <2>2. i = j => <<i, j>> \notin ByKey(n, k) /\ <<move[i], move[j]>> \notin ByKey(n, l)
    BY <1>0, <2>1 DEF ByKey
  <2>3. i # j => (<<i, j>> \in ByKey(n, k) <=> k[i] < k[j])
    BY <1>0, <2>1 DEF ByKey
  <2>4. i # j => (<<move[i], move[j]>> \in ByKey(n, l) <=> k[i] < k[j])
    BY <1>0, <2>1 DEF ByKey
  <2> QED BY <2>2, <2>3, <2>4
<1>4. StrictOrder(1..n, ByKey(n, k)) /\ StrictOrder(1..n, ByKey(n, l))
  BY <1>0, <1>1, KeysOrder
<1> DEFINE D == 1..n
           before == ByKey(n, k)
           after == ByKey(n, l)
<1>5. Moved(n, D, s, before, t, after, move)
  BY <1>0, <1>2, <1>3, <1>4 DEF Moved
<1> HIDE DEF D, before, after
<1> QED BY <1>5, ArrangedSame DEF before, after

\* Finite sets of integers have a greatest and a least one.
LEMMA MaxIsGreatest ==
  ASSUME NEW S, IsFiniteSet(S), S \subseteq Int, S # {}
  PROVE  Max(S) \in S /\ \A x \in S : x <= Max(S)
<1> DEFINE F == {T \in SUBSET S : T = {} \/ \E m \in T : \A x \in T : x <= m}
<1>1. {} \in F
  OBVIOUS
<1>2. ASSUME NEW T \in F, NEW x \in S \ T PROVE T \cup {x} \in F
  <2>1. CASE T = {}
    BY <2>1
  <2>2. CASE T # {}
    <3>1. PICK m \in T : \A y \in T : y <= m
      BY <2>2
    <3>2. CASE x <= m
      <4>1. \A y \in T \cup {x} : y <= m
        BY <3>1, <3>2
      <4> QED BY <4>1
    <3>3. CASE ~(x <= m)
      <4>1. \A y \in T \cup {x} : y <= x
        BY <3>1, <3>3
      <4> QED BY <4>1
    <3> QED BY <3>2, <3>3
  <2> QED BY <2>1, <2>2
<1> HIDE DEF F
<1>3. S \in F
  BY <1>1, <1>2, FiniteSetInduction
<1>4. \E m \in S : \A x \in S : x <= m
  BY <1>3 DEF F
<1>5. \E m \in S : \A x \in S : m >= x
  BY <1>4
<1> QED BY <1>5 DEF Max

LEMMA MinIsLeast ==
  ASSUME NEW S, S \subseteq Nat, S # {}
  PROVE  Min(S) \in S /\ \A x \in S : Min(S) <= x
BY LeastNat DEF Min

\* Signs are taken out of a sum.
LEMMA SumNegated ==
  ASSUME NEW S, IsFiniteSet(S), NEW g, NEW h, \A x \in S : g[x] \in Int /\ h[x] = -g[x]
  PROVE  SumOver(h, S) = -SumOver(g, S)
<1> DEFINE F == {T \in SUBSET S : SumOver(h, T) = -SumOver(g, T)}
<1>1. {} \in F
  BY SumOfNone
<1>2. ASSUME NEW T \in F, NEW x \in S \ T PROVE T \cup {x} \in F
  <2>1. /\ IsFiniteSet(T) /\ T \cup {x} \in SUBSET S /\ SumOver(h, T) = -SumOver(g, T)
        /\ x \notin T /\ g[x] \in Int /\ h[x] = -g[x] /\ h[x] \in Int
        /\ \A y \in T : g[y] \in Int /\ h[y] \in Int
    BY FS_Subset
  <2> HIDE DEF F
  <2>2. SumOver(h, T \cup {x}) = h[x] + SumOver(h, T) /\ SumOver(g, T \cup {x}) = g[x] + SumOver(g, T)
    BY <2>1, SumPlus
  <2>3. SumOver(g, T) \in Int
    BY <2>1, SumType
  <2> QED BY <2>1, <2>2, <2>3 DEF F
<1> HIDE DEF F
<1>3. S \in F
  BY <1>1, <1>2, FiniteSetInduction
<1> QED BY <1>3 DEF F

\* A list of numbers read from the other end has the same sum.
LEMMA SumReversed ==
  ASSUME NEW n \in Nat, NEW g, NEW h, \A i \in 1..n : g[i] \in Int /\ h[n + 1 - i] = g[i]
  PROVE  SumOver(h, 1..n) = SumOver(g, 1..n)
<1> DEFINE D == 1..n
           at == [i \in D |-> n + 1 - i]
<1>1. IsFiniteSet(D)
  BY FS_Interval
<1>2. \A i, j \in D : at[i] = at[j] => i = j
  OBVIOUS
<1>3. {at[i] : i \in D} = D
  <2>1. \A i \in D : at[i] \in D /\ at[n + 1 - i] = i /\ n + 1 - i \in D
    OBVIOUS
  <2> HIDE DEF at, D
  <2> QED BY <2>1
<1>4. \A i \in D : h[at[i]] = g[i] /\ g[i] \in Int
  OBVIOUS
<1> SUFFICES SumOver(h, D) = SumOver(g, D)
  OBVIOUS
<1> HIDE DEF at, D
<1>5. SumOver(h, {at[i] : i \in D}) = SumOver(g, D)
  BY <1>1, <1>2, <1>4, SumImage
<1> QED BY <1>3, <1>5

============================================================================
