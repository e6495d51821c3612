---------------------------- MODULE Series_proofs ----------------------------
(***************************************************************************)
(* What the proofs use of lists, sums and counts: induction over the       *)
(* naturals in the form of a set, sums element by element, what is kept of *)
(* a list, and the k-th value found by counting.                           *)
(***************************************************************************)
EXTENDS Series, FiniteSetTheorems, NaturalsInduction, WellFoundedInduction, SequenceTheorems,
        TLAPS

-----------------------------------------------------------------------------
(* Induction over the naturals in the form of a set, from the least-number *)
(* principle: what it says of lists and of sums.                           *)

\* Every set of naturals that is not empty has a least member.
LEMMA LeastMember ==
    ASSUME NEW T \in SUBSET Nat, NEW n \in T
    PROVE  \E x \in T : \A y \in T : x <= y
<1>1. PICK x \in T : \A y \in T : ~ (<<y, x>> \in OpToRel(<, Nat))
  BY NatLessThanWellFounded, WFMin, T # {}
<1>2. \A y \in T : ~ (y < x)
  BY <1>1 DEF OpToRel
<1> QED BY <1>2

\* A set with 0 and with the successor of each member has every natural.
LEMMA Induction ==
    ASSUME NEW S, 0 \in S, \A n \in Nat : n \in S => n + 1 \in S
    PROVE  \A n \in Nat : n \in S
<1> SUFFICES ASSUME NEW n \in Nat, n \notin S PROVE FALSE
  OBVIOUS
<1> DEFINE T == {k \in Nat : k \notin S}
<1>1. T \in SUBSET Nat /\ n \in T
  OBVIOUS
<1>2. PICK x \in T : \A y \in T : x <= y
  BY ONLY <1>1, LeastMember
<1>3. CASE x = 0
  BY <1>3, <1>2
<1>4. CASE x # 0
  <2>1. x - 1 \in Nat /\ x - 1 \notin T
    BY <1>2, <1>4
  <2> QED BY <2>1, <1>2, (x - 1) + 1 = x
<1> QED BY <1>3, <1>4

-----------------------------------------------------------------------------
(* Lists. *)

\* A function on 1 .. n is a list of length n.
LEMMA ListOfFunction ==
    ASSUME NEW S, NEW n \in Nat, NEW f \in [1..n -> S]
    PROVE  f \in Seq(S) /\ Len(f) = n
OBVIOUS

\* What it is to be a list with one member more.
LEMMA ListAppend ==
    ASSUME NEW S, NEW s \in Seq(S), NEW x \in S, NEW t, t = [i \in 1..Len(s) + 1 |-> t[i]],
           \A i \in 1..Len(s) : t[i] = s[i], t[Len(s) + 1] = x
    PROVE  t = Append(s, x)
<1>1. /\ Append(s, x) \in Seq(S) /\ Len(Append(s, x)) = Len(s) + 1 /\ Len(s) \in Nat
      /\ \A i \in 1..Len(s) : Append(s, x)[i] = s[i] /\ s[i] \in S
      /\ Append(s, x)[Len(s) + 1] = x
  OBVIOUS
<1>2. \A i \in 1..Len(s) + 1 : i \in 1..Len(s) \/ i = Len(s) + 1
  BY <1>1
<1>3. \A i \in 1..Len(s) + 1 : t[i] = Append(s, x)[i] /\ t[i] \in S
  BY <1>1, <1>2
<1>4. t \in Seq(S) /\ Len(t) = Len(s) + 1
  BY <1>1, <1>3, ListOfFunction
<1> QED BY <1>1, <1>3, <1>4, SeqEqual

-----------------------------------------------------------------------------
(* Sums. *)

\* f adds up s over 1 .. n.
AddsUp(f, s, n) == f = [i \in 0..n |-> IF i = 0 THEN 0 ELSE f[i - 1] + s[i]]

\* There are running sums of any length.
LEMMA RunningSums == ASSUME NEW s PROVE \A n \in Nat : \E f : AddsUp(f, s, n)
<1> DEFINE S == {n \in Nat : \E f : AddsUp(f, s, n)}
<1>1. 0 \in S
  <2>1. AddsUp([i \in 0..0 |-> 0], s, 0)
    BY DEF AddsUp
  <2> QED BY <2>1
<1>2. ASSUME NEW n \in Nat, n \in S PROVE n + 1 \in S
  <2>1. PICK f : AddsUp(f, s, n)
    BY <1>2
  <2> DEFINE g == [i \in 0..(n + 1) |-> IF i = n + 1 THEN f[n] + s[n + 1] ELSE f[i]]
  <2>2. AddsUp(g, s, n + 1)
    BY <2>1 DEF AddsUp
  <2> QED BY <2>2
<1> HIDE DEF S
<1>3. \A n \in Nat : n \in S
  BY <1>1, <1>2, Induction
<1> QED BY <1>3 DEF S

\* Total is the last of the running sums.
LEMMA TotalOfRun ==
    ASSUME NEW s, Len(s) \in Nat
    PROVE  \E f : AddsUp(f, s, Len(s)) /\ Total(s) = f[Len(s)]
<1>1. PICK f : AddsUp(f, s, Len(s))
  BY RunningSums
<1> DEFINE g == CHOOSE u : u = [i \in 0..Len(s) |-> IF i = 0 THEN 0 ELSE u[i - 1] + s[i]]
<1>2. AddsUp(g, s, Len(s))
  BY <1>1 DEF AddsUp
<1>3. Total(s) = g[Len(s)]
  BY DEF Total
<1> QED BY <1>2, <1>3

\* s and t are the same n numbers, but for the k-th of t, which is d more.
Differ(s, t, n, k, d) ==
    /\ n \in Nat /\ k \in 1..n /\ d \in Int
    /\ \A i \in 1..n : s[i] \in Int /\ t[i] = IF i = k THEN s[i] + d ELSE s[i]

\* Two runs over the same numbers, but for one that is d more, differ by d from there
\* on: with d = 0, the running sums are those numbers' own.
LEMMA RunsDiffer ==
    ASSUME NEW n, NEW s, NEW t, NEW f, NEW g, NEW k, NEW d,
           AddsUp(f, s, n), AddsUp(g, t, n), Differ(s, t, n, k, d)
    PROVE  f[n] \in Int /\ g[n] = f[n] + d
<1> USE DEF Differ
<1> DEFINE S == {m \in Nat : m <= n => f[m] \in Int /\ g[m] = f[m] + IF m < k THEN 0 ELSE d}
<1>1. 0 \in S
  BY DEF AddsUp
<1>2. ASSUME NEW m \in Nat, m \in S PROVE m + 1 \in S
  <2> SUFFICES ASSUME m + 1 <= n
               PROVE  f[m + 1] \in Int /\ g[m + 1] = f[m + 1] + IF m + 1 < k THEN 0 ELSE d
    OBVIOUS
  <2>1. f[m] \in Int /\ g[m] = f[m] + IF m < k THEN 0 ELSE d
    BY <1>2
  <2>2. f[m + 1] = f[m] + s[m + 1] /\ g[m + 1] = g[m] + t[m + 1]
    BY DEF AddsUp
  <2> QED BY <2>1, <2>2
<1> HIDE DEF S
<1>3. \A m \in Nat : m \in S
  BY <1>1, <1>2, Induction
<1> QED BY <1>3 DEF S

\* The running sums of integers are integers, each by its number more than the last.
LEMMA RunIsInt ==
    ASSUME NEW n \in Nat, NEW s, NEW f, AddsUp(f, s, n), \A i \in 1..n : s[i] \in Int
    PROVE  f[n] \in Int
<1>1. CASE n = 0
  BY <1>1 DEF AddsUp
<1>2. CASE n # 0
  <2>1. Differ(s, s, n, n, 0)
    BY <1>2 DEF Differ
  <2> QED BY <2>1, RunsDiffer
<1> QED BY <1>1, <1>2

\* Nothing adds up to 0.
LEMMA TotalOfNone == Total(<<>>) = 0
<1>1. PICK f : AddsUp(f, <<>>, 0) /\ Total(<<>>) = f[0]
  BY TotalOfRun, Len(<<>>) = 0
<1> QED BY <1>1 DEF AddsUp

\* A sum of integers is one.
LEMMA TotalIsInt == ASSUME NEW s \in Seq(Int) PROVE Total(s) \in Int
<1>1. PICK f : AddsUp(f, s, Len(s)) /\ Total(s) = f[Len(s)]
  BY TotalOfRun, Len(s) \in Nat
<1>2. \A i \in 1..Len(s) : s[i] \in Int
  OBVIOUS
<1> QED BY <1>1, <1>2, RunIsInt, Len(s) \in Nat

\* A number more at the end of the list is that much more.
LEMMA TotalAppend ==
    ASSUME NEW s \in Seq(Int), NEW x \in Int
    PROVE  Total(Append(s, x)) = Total(s) + x
<1> DEFINE n == Len(s)  t == Append(s, x)
<1>1. n \in Nat /\ Len(t) = n + 1 /\ t[n + 1] = x
      /\ \A i \in 1..n : t[i] = s[i] /\ s[i] \in Int
  OBVIOUS
<1>2. PICK f : AddsUp(f, s, n) /\ Total(s) = f[n]
  BY TotalOfRun, <1>1
<1>3. \E g : AddsUp(g, t, Len(t)) /\ Total(t) = g[Len(t)]
  <2> HIDE DEF t
  <2> QED BY TotalOfRun, <1>1
<1> HIDE DEF n, t
<1>4. PICK g : AddsUp(g, t, n + 1) /\ Total(t) = g[n + 1]
  BY <1>1, <1>3
<1> DEFINE h == [i \in 0..n |-> g[i]]
<1>5. AddsUp(h, t, n) /\ g[n + 1] = h[n] + x
  BY <1>1, <1>4 DEF AddsUp
<1> HIDE DEF h
<1>6. f[n] \in Int /\ h[n] = f[n]
  <2>1. CASE n = 0
    BY <1>2, <1>5, <2>1 DEF AddsUp
  <2>2. CASE n # 0
    <3>1. Differ(s, t, n, n, 0)
      BY <1>1, <2>2 DEF Differ
    <3>2. f[n] \in Int /\ h[n] = f[n] + 0
      BY <1>2, <1>5, <3>1, RunsDiffer
    <3> QED BY <3>2
  <2> QED BY <2>1, <2>2
<1> QED BY <1>2, <1>4, <1>5, <1>6 DEF t

\* A list that differs in one place has a sum that differs by that.
LEMMA TotalExcept ==
    ASSUME NEW s \in Seq(Int), NEW t \in Seq(Int), Len(s) = Len(t),
           NEW k \in 1..Len(s), NEW d \in Int,
           \A i \in 1..Len(s) : t[i] = IF i = k THEN s[i] + d ELSE s[i]
    PROVE  Total(t) = Total(s) + d
<1> DEFINE n == Len(s)
<1>1. n \in Nat /\ Differ(s, t, n, k, d)
  BY DEF Differ
<1>2. PICK f : AddsUp(f, s, n) /\ Total(s) = f[n]
  BY TotalOfRun, <1>1
<1>3. PICK g : AddsUp(g, t, n) /\ Total(t) = g[n]
  BY TotalOfRun, <1>1
<1> HIDE DEF n
<1>4. AddsUp(f, s, n) /\ AddsUp(g, t, n)
  BY <1>2, <1>3
<1>5. f[n] \in Int /\ g[n] = f[n] + d
  BY <1>1, <1>4, RunsDiffer
<1> QED BY <1>2, <1>3, <1>5

\* The sum of a list is reached element by element.
LEMMA TotalAddsUp ==
    ASSUME NEW s \in Seq(Int)
    PROVE  \E f : /\ Total(s) = f[Len(s)] /\ f[0] = 0
                  /\ \A n \in Nat : n + 1 <= Len(s) => f[n + 1] = f[n] + s[n + 1]
<1> DEFINE g == CHOOSE u : u = [i \in 0..Len(s) |-> IF i = 0 THEN 0 ELSE u[i - 1] + s[i]]
           All == {n \in Nat : \E f : AddsUp(f, s, n)}
<1>1. 0 \in All
  <2>1. AddsUp([i \in 0..0 |-> 0], s, 0)
    BY DEF AddsUp
  <2> QED BY <2>1
<1>2. ASSUME NEW n \in Nat, n \in All PROVE n + 1 \in All
  <2>1. PICK f : AddsUp(f, s, n)
    BY <1>2
  <2> DEFINE h == [i \in 0..(n + 1) |-> IF i = n + 1 THEN f[n] + s[n + 1] ELSE f[i]]
  <2>2. AddsUp(h, s, n + 1)
    BY <2>1 DEF AddsUp
  <2> QED BY <2>2
<1>3. \A n \in Nat : n \in All
  <2> HIDE DEF All
  <2> QED BY <1>1, <1>2, Induction
<1>4. Len(s) \in Nat
  OBVIOUS
<1>5. AddsUp(g, s, Len(s))
  BY <1>3, <1>4 DEF AddsUp
<1>6. Total(s) = g[Len(s)]
  BY DEF Total
<1> HIDE DEF g
<1>7. g[0] = 0 /\ \A n \in Nat : n + 1 <= Len(s) => g[n + 1] = g[n] + s[n + 1]
  BY <1>4, <1>5 DEF AddsUp
<1> QED BY <1>6, <1>7

\* The sum of whole numbers between two bounds is between as many times the bounds.
LEMMA TotalBetween ==
    ASSUME NEW s \in Seq(Int), NEW lo \in Int, NEW hi \in Int,
           \A i \in 1..Len(s) : s[i] \in lo..hi
    PROVE  Total(s) \in (Len(s) * lo)..(Len(s) * hi)
<1>1. PICK f : /\ Total(s) = f[Len(s)] /\ f[0] = 0
               /\ \A n \in Nat : n + 1 <= Len(s) => f[n + 1] = f[n] + s[n + 1]
  BY TotalAddsUp
<1> DEFINE T == {n \in Nat : n <= Len(s) => f[n] \in (n * lo)..(n * hi)}
<1>2. 0 \in T
  BY <1>1
<1>3. ASSUME NEW n \in Nat, n \in T PROVE n + 1 \in T
  <2> SUFFICES ASSUME n + 1 <= Len(s) PROVE f[n + 1] \in ((n + 1) * lo)..((n + 1) * hi)
    OBVIOUS
  <2>1. f[n] \in (n * lo)..(n * hi) /\ s[n + 1] \in lo..hi
    BY <1>3
  <2>2. f[n + 1] = f[n] + s[n + 1]
    BY <1>1
  <2>3. (n + 1) * lo = n * lo + lo /\ (n + 1) * hi = n * hi + hi /\ n * lo \in Int /\ n * hi \in Int
    OBVIOUS
  <2> QED BY <2>1, <2>2, <2>3
<1>4. \A n \in Nat : n \in T
  <2> HIDE DEF T
  <2> QED BY <1>2, <1>3, Induction
<1> QED BY <1>1, <1>4, Len(s) \in Nat

-----------------------------------------------------------------------------
(* What is kept of a list. *)

\* f keeps of the first n of s what is in S.
Keeps(f, s, S, n) ==
    f = [i \in 0..n |->
            IF i = 0 THEN <<>> ELSE IF s[i] \in S THEN Append(f[i - 1], s[i]) ELSE f[i - 1]]

\* f[n] is what is kept of the first n of the m elements of s.
KeepsAlong(f, s, S, m) ==
    /\ Kept(s, S) = f[m] /\ f[0] = <<>>
    /\ \A n \in Nat : n + 1 <= m =>
           f[n + 1] = IF s[n + 1] \in S THEN Append(f[n], s[n + 1]) ELSE f[n]

\* What is kept of a list is found element by element.
LEMMA KeptRolls ==
    ASSUME NEW s, NEW m \in Nat, m = Len(s), NEW S
    PROVE  \E f : KeepsAlong(f, s, S, m)
<1> DEFINE g == CHOOSE u : u = [i \in 0..Len(s) |->
                  IF i = 0 THEN <<>> ELSE IF s[i] \in S THEN Append(u[i - 1], s[i]) ELSE u[i - 1]]
           All == {n \in Nat : \E f : Keeps(f, s, S, n)}
<1>1. 0 \in All
  <2>1. Keeps([i \in 0..0 |-> <<>>], s, S, 0)
    BY DEF Keeps
  <2> QED BY <2>1
<1>2. ASSUME NEW n \in Nat, n \in All PROVE n + 1 \in All
  <2>1. PICK f : Keeps(f, s, S, n)
    BY <1>2
  <2> DEFINE y == IF s[n + 1] \in S THEN Append(f[n], s[n + 1]) ELSE f[n]
             h == [i \in 0..(n + 1) |-> IF i = n + 1 THEN y ELSE f[i]]
  <2>2. \A i \in 0..n : f[i] = IF i = 0 THEN <<>>
                               ELSE IF s[i] \in S THEN Append(f[i - 1], s[i]) ELSE f[i - 1]
    BY <2>1 DEF Keeps
  <2> HIDE DEF y
  <2>3. h[n + 1] = y /\ \A i \in 0..n : h[i] = f[i]
    OBVIOUS
  <2>4. h = [i \in 0..(n + 1) |-> h[i]]
    OBVIOUS
  <2> HIDE DEF h
  <2>5. ASSUME NEW i \in 0..(n + 1)
        PROVE  h[i] = IF i = 0 THEN <<>>
                      ELSE IF s[i] \in S THEN Append(h[i - 1], s[i]) ELSE h[i - 1]
    <3>1. CASE i = n + 1
      <4>1. i # 0 /\ i - 1 = n /\ h[n] = f[n]
        BY <2>3, <3>1
      <4> QED BY <2>3, <3>1, <4>1 DEF y
    <3>2. CASE i \in 0..n
      <4>1. i # 0 => i - 1 \in 0..n
        BY <3>2
      <4> QED BY <2>2, <2>3, <3>2, <4>1
    <3> QED BY <3>1, <3>2
  <2>6. Keeps(h, s, S, n + 1)
    BY <2>4, <2>5 DEF Keeps
  <2> QED BY <2>6
<1>3. \A n \in Nat : n \in All
  <2> HIDE DEF All
  <2> QED BY <1>1, <1>2, Induction
<1>4. Keeps(g, s, S, m)
  BY <1>3 DEF Keeps
<1>5. Kept(s, S) = g[m]
  BY DEF Kept
<1> HIDE DEF g
<1>6. g[0] = <<>>
  BY <1>4 DEF Keeps
<1>7. ASSUME NEW n \in Nat, n + 1 <= m
      PROVE  g[n + 1] = IF s[n + 1] \in S THEN Append(g[n], s[n + 1]) ELSE g[n]
  <2>1. n + 1 \in 0..m /\ n + 1 # 0 /\ (n + 1) - 1 = n
    BY <1>7
  <2> QED BY <1>4, <2>1 DEF Keeps
<1>8. KeepsAlong(g, s, S, m)
  BY <1>5, <1>6, <1>7 DEF KeepsAlong
<1> QED BY <1>8

\* y is in the list; the list has each member once.
Has(y, q) == \E i \in DOMAIN q : q[i] = y
EachOnce(q) == \A i, j \in DOMAIN q : q[i] = q[j] => i = j

\* One element more.
LEMMA AppendHas ==
    ASSUME NEW X, NEW q \in Seq(X), NEW x \in X
    PROVE  /\ Append(q, x) \in Seq(X)
           /\ \A y : Has(y, Append(q, x)) <=> Has(y, q) \/ y = x
           /\ EachOnce(q) /\ ~Has(x, q) => EachOnce(Append(q, x))
<1>1. PICK n \in Nat : n = Len(q) /\ DOMAIN q = 1..n
  OBVIOUS
<1>2. PICK t : t = Append(q, x)
  OBVIOUS
<1>3. t \in Seq(X) /\ DOMAIN t = 1..(n + 1) /\ t[n + 1] = x /\ \A i \in 1..n : t[i] = q[i]
  BY <1>1, <1>2
<1>4. ASSUME NEW y PROVE Has(y, t) <=> Has(y, q) \/ y = x
  <2>1. ASSUME Has(y, t) PROVE Has(y, q) \/ y = x
    <3>1. PICK i \in 1..(n + 1) : t[i] = y
      BY <1>3, <2>1 DEF Has
    <3>2. CASE i = n + 1
      BY <1>3, <3>1, <3>2
    <3>3. CASE i \in 1..n
      BY <1>1, <1>3, <3>1, <3>3 DEF Has
    <3>4. i = n + 1 \/ i \in 1..n
      BY <3>1
    <3> QED BY <3>2, <3>3, <3>4
  <2>2. ASSUME Has(y, q) PROVE Has(y, t)
    BY <1>1, <1>3, <2>2 DEF Has
  <2>3. ASSUME y = x PROVE Has(y, t)
    BY <1>3, <2>3, n + 1 \in 1..(n + 1) DEF Has
  <2> QED BY <2>1, <2>2, <2>3
<1>5. ASSUME EachOnce(q), ~Has(x, q), NEW i \in 1..(n + 1), NEW j \in 1..(n + 1), t[i] = t[j]
      PROVE  i = j
  <2>1. CASE i \in 1..n /\ j \in 1..n
    BY <1>1, <1>3, <1>5, <2>1 DEF EachOnce
  <2>2. CASE i = n + 1 /\ j \in 1..n
    BY <1>1, <1>3, <1>5, <2>2 DEF Has
  <2>3. CASE i \in 1..n /\ j = n + 1
    BY <1>1, <1>3, <1>5, <2>3 DEF Has
  <2>4. CASE i = n + 1 /\ j = n + 1
    BY <2>4
  <2>5. (i = n + 1 \/ i \in 1..n) /\ (j = n + 1 \/ j \in 1..n)
    BY <1>5
  <2> QED BY <2>1, <2>2, <2>3, <2>4, <2>5
<1> QED BY <1>2, <1>3, <1>4, <1>5 DEF EachOnce

\* What is kept is what was in the list and is in the set, each place once.
LEMMA KeptHas ==
    ASSUME NEW X, NEW s \in Seq(X), NEW S
    PROVE  /\ Kept(s, S) \in Seq(X)
           /\ \A y : Has(y, Kept(s, S)) <=> y \in S /\ Has(y, s)
           /\ EachOnce(s) => EachOnce(Kept(s, S))
<1>1. PICK m \in Nat : m = Len(s) /\ DOMAIN s = 1..m
  OBVIOUS
<1>2. PICK f : KeepsAlong(f, s, S, m)
  BY <1>1, KeptRolls
<1>3. /\ Kept(s, S) = f[m] /\ f[0] = <<>>
      /\ \A n \in Nat : n + 1 <= m =>
             f[n + 1] = IF s[n + 1] \in S THEN Append(f[n], s[n + 1]) ELSE f[n]
  BY <1>2 DEF KeepsAlong
<1> DEFINE Good(n) == /\ f[n] \in Seq(X)
                      /\ \A y : Has(y, f[n]) <=> y \in S /\ \E i \in 1..n : s[i] = y
                      /\ EachOnce(s) => EachOnce(f[n])
           All == {n \in Nat : n <= m => Good(n)}
<1>4. 0 \in All
  <2>1. f[0] = <<>> /\ <<>> \in Seq(X) /\ DOMAIN <<>> = {} /\ 1..0 = {}
    BY <1>3
  <2> QED BY <2>1 DEF Has, EachOnce
<1>5. ASSUME NEW n \in Nat, n \in All PROVE n + 1 \in All
  <2> SUFFICES ASSUME n + 1 <= m PROVE Good(n + 1)
    OBVIOUS
  <2>1. Good(n)
    BY <1>5
  <2> HIDE DEF All
  <2>2. PICK q \in Seq(X) : q = f[n]
    BY <2>1
  <2>3. PICK x \in X : x = s[n + 1] /\ n + 1 \in 1..m
    BY <1>1
  <2>4. f[n + 1] = IF x \in S THEN Append(q, x) ELSE q
    BY <1>3, <2>2, <2>3
  <2>5. ASSUME NEW y PROVE (\E i \in 1..(n + 1) : s[i] = y) <=> (\E i \in 1..n : s[i] = y) \/ y = x
    <3>1. 1..(n + 1) = 1..n \cup {n + 1}
      OBVIOUS
    <3> QED BY <2>3, <3>1
  <2>6. EachOnce(s) => ~ \E i \in 1..n : s[i] = x
    <3>1. \A i \in 1..n : i \in DOMAIN s /\ n + 1 \in DOMAIN s /\ i # n + 1
      BY <1>1, <2>3
    <3> QED BY <2>3, <3>1 DEF EachOnce
  <2>7. CASE x \in S
    <3>1. f[n + 1] = Append(q, x)
      BY <2>4, <2>7
    <3>2. /\ Append(q, x) \in Seq(X)
          /\ \A y : Has(y, Append(q, x)) <=> Has(y, q) \/ y = x
          /\ EachOnce(q) /\ ~Has(x, q) => EachOnce(Append(q, x))
      BY AppendHas
    <3>3. /\ \A y : Has(y, q) <=> y \in S /\ \E i \in 1..n : s[i] = y
          /\ EachOnce(s) => EachOnce(q)
      BY <2>1, <2>2
    <3>4. \A y : Has(y, f[n + 1]) <=> y \in S /\ \E i \in 1..(n + 1) : s[i] = y
      BY <2>5, <2>7, <3>1, <3>2, <3>3
    <3>5. EachOnce(s) => EachOnce(f[n + 1])
      BY <2>6, <3>1, <3>2, <3>3
    <3> QED BY <3>1, <3>2, <3>4, <3>5
  <2>8. CASE x \notin S
    <3>1. f[n + 1] = q
      BY <2>4, <2>8
    <3>2. \A y : Has(y, f[n + 1]) <=> y \in S /\ \E i \in 1..(n + 1) : s[i] = y
      BY <2>1, <2>2, <2>5, <2>8, <3>1
    <3> QED BY <2>1, <2>2, <3>1, <3>2
  <2> QED BY <2>7, <2>8
<1>6. m \in All
  <2> HIDE DEF All
  <2> QED BY <1>4, <1>5, Induction
<1>7. Good(m)
  BY <1>6
<1>8. Kept(s, S) = f[m] /\ \A y : Has(y, s) <=> \E i \in 1..m : s[i] = y
  BY <1>1, <1>3 DEF Has
<1> QED BY <1>7, <1>8

-----------------------------------------------------------------------------
(* Order statistics. *)

\* A list that is not empty has a least and a greatest element.
LEMMA Extremes ==
    ASSUME NEW s \in Seq(Int), Len(s) >= 1
    PROVE  \E l, h \in 1..Len(s) : \A i \in 1..Len(s) : s[l] <= s[i] /\ s[i] <= s[h]
<1> DEFINE All == {n \in Nat : n \in 1..Len(s) =>
                    \E l, h \in 1..n : \A i \in 1..n : s[l] <= s[i] /\ s[i] <= s[h]}
<1>1. Len(s) \in Nat /\ \A i \in 1..Len(s) : s[i] \in Int
  OBVIOUS
<1>2. 0 \in All
  OBVIOUS
<1>3. ASSUME NEW n \in Nat, n \in All PROVE n + 1 \in All
  <2> SUFFICES ASSUME n + 1 \in 1..Len(s)
               PROVE  \E l, h \in 1..(n + 1) : \A i \in 1..(n + 1) : s[l] <= s[i] /\ s[i] <= s[h]
    OBVIOUS
  <2>1. CASE n = 0
    <3>1. \A i \in 1..(n + 1) : i = 1
      BY <2>1
    <3>2. 1 \in 1..(n + 1) /\ s[1] \in Int
      BY <1>1, <2>1
    <3>3. \A i \in 1..(n + 1) : s[1] <= s[i] /\ s[i] <= s[1]
      BY <3>1, <3>2
    <3> QED BY <3>2, <3>3
  <2>2. CASE n # 0
    <3>1. PICK l \in 1..n, h \in 1..n : \A i \in 1..n : s[l] <= s[i] /\ s[i] <= s[h]
      BY <1>3, <2>2
    <3>2. PICK x \in Int : x = s[n + 1]
      BY <1>1
    <3>3. PICK u \in Int, v \in Int : u = s[l] /\ v = s[h]
      BY <1>1
    <3>4. PICK a \in 1..(n + 1) : s[a] <= u /\ s[a] <= x /\ s[a] \in Int
      <4>1. CASE u <= x
        BY <3>3, <4>1
      <4>2. CASE ~(u <= x)
        BY <3>2, <4>2
      <4> QED BY <4>1, <4>2
    <3>5. PICK b \in 1..(n + 1) : v <= s[b] /\ x <= s[b] /\ s[b] \in Int
      <4>1. CASE x <= v
        BY <3>3, <4>1
      <4>2. CASE ~(x <= v)
        BY <3>2, <4>2
      <4> QED BY <4>1, <4>2
    <3>6. ASSUME NEW i \in 1..(n + 1) PROVE s[a] <= s[i] /\ s[i] <= s[b]
      <4>1. CASE i = n + 1
        BY <4>1, <3>2, <3>4, <3>5
      <4>2. CASE i \in 1..n
        <5>1. s[l] <= s[i] /\ s[i] <= s[h]
          BY <3>1, <4>2
        <5>2. PICK y \in Int : y = s[i]
          BY <1>1, <4>2
        <5>3. PICK ya \in Int, yb \in Int : ya = s[a] /\ yb = s[b]
          BY <3>4, <3>5
        <5>4. ya <= u /\ u <= y /\ y <= v /\ v <= yb
          BY <3>3, <3>4, <3>5, <5>1, <5>2, <5>3
        <5>5. ya <= y /\ y <= yb
          BY <5>4
        <5> QED BY <5>2, <5>3, <5>5
      <4> QED BY <4>1, <4>2
    <3> QED BY <3>6
  <2> QED BY <2>1, <2>2
<1>4. \A n \in Nat : n \in All
  <2> HIDE DEF All
  <2> QED BY <1>2, <1>3, Induction
<1>5. Len(s) \in 1..Len(s)
  BY <1>1
<1>6. Len(s) \in All
  BY <1>1, <1>4
<1> QED BY <1>5, <1>6

\* A set of integers with a lower bound has a least member, one with an upper bound a
\* greatest.
LEMMA BoundedInts ==
    ASSUME NEW T \in SUBSET Int, NEW n \in T, NEW b \in Int
    PROVE  /\ (\A y \in T : b <= y) => \E x \in T : \A y \in T : x <= y
           /\ (\A y \in T : y <= b) => \E x \in T : \A y \in T : y <= x
<1>1. ASSUME \A y \in T : b <= y PROVE \E x \in T : \A y \in T : x <= y
  <2>1. PICK U : U = {y - b : y \in T}
    OBVIOUS
  <2>2. PICK u \in U : \A w \in U : u <= w
    <3>1. U \in SUBSET Nat
      BY <1>1, <2>1
    <3>2. PICK k \in U : TRUE
      BY <2>1
    <3> QED BY <3>1, <3>2, LeastMember
  <2>3. PICK x \in T : u = x - b
    BY <2>1, <2>2
  <2>4. ASSUME NEW y \in T PROVE x <= y
    <3>1. y - b \in U
      BY <2>1
    <3>2. x - b <= y - b
      BY <2>2, <2>3, <3>1
    <3> QED BY <3>2
  <2> QED BY <2>4
<1>2. ASSUME \A y \in T : y <= b PROVE \E x \in T : \A y \in T : y <= x
  <2>1. PICK U : U = {b - y : y \in T}
    OBVIOUS
  <2>2. PICK u \in U : \A w \in U : u <= w
    <3>1. U \in SUBSET Nat
      BY <1>2, <2>1
    <3>2. PICK k \in U : TRUE
      BY <2>1
    <3> QED BY <3>1, <3>2, LeastMember
  <2>3. PICK x \in T : u = b - x
    BY <2>1, <2>2
  <2>4. ASSUME NEW y \in T PROVE y <= x
    <3>1. b - y \in U
      BY <2>1
    <3>2. b - x <= b - y
      BY <2>2, <2>3, <3>1
    <3> QED BY <3>2
  <2> QED BY <2>4
<1> QED BY <1>1, <1>2

\* Places of a list are finitely many; those above a value are the rest.
LEMMA Places ==
    ASSUME NEW s \in Seq(Int)
    PROVE  /\ \A P \in SUBSET (DOMAIN s) : IsFiniteSet(P) /\ Cardinality(P) \in Nat
           /\ \A P, Q \in SUBSET (DOMAIN s) : P \subseteq Q => Cardinality(P) <= Cardinality(Q)
           /\ \A P \in SUBSET (DOMAIN s) : Cardinality(DOMAIN s \ P) = Len(s) - Cardinality(P)
           /\ Cardinality(DOMAIN s) = Len(s)
<1>1. Len(s) \in Nat /\ DOMAIN s = 1..Len(s)
  OBVIOUS
<1>2. IsFiniteSet(DOMAIN s) /\ Cardinality(DOMAIN s) = Len(s)
  <2>1. PICK n \in Nat : n = Len(s)
    BY <1>1
  <2>2. IsFiniteSet(1..n) /\ Cardinality(1..n) = IF 1 > n THEN 0 ELSE n - 1 + 1
    BY FS_Interval
  <2> QED BY <1>1, <2>1, <2>2
<1>3. ASSUME NEW P \in SUBSET (DOMAIN s) PROVE IsFiniteSet(P) /\ Cardinality(P) \in Nat
  BY <1>2, FS_Subset, FS_CardinalityType
<1>4. ASSUME NEW P \in SUBSET (DOMAIN s), NEW Q \in SUBSET (DOMAIN s), P \subseteq Q
      PROVE  Cardinality(P) <= Cardinality(Q)
  BY <1>3, <1>4, FS_Subset
<1>5. ASSUME NEW P \in SUBSET (DOMAIN s) PROVE Cardinality(DOMAIN s \ P) = Len(s) - Cardinality(P)
  <2>1. (DOMAIN s) \cap P = P
    OBVIOUS
  <2>2. Cardinality(DOMAIN s \ P) = Cardinality(DOMAIN s) - Cardinality((DOMAIN s) \cap P)
    BY <1>2, <1>3, FS_Difference
  <2> QED BY <1>2, <2>1, <2>2
<1> QED BY <1>2, <1>3, <1>4, <1>5

\* The places up to a value and below it are places of the list.
LEMMA CountsAre ==
    ASSUME NEW s \in Seq(Int)
    PROVE  \A v : UpTo(s, v) \in SUBSET (DOMAIN s) /\ Below(s, v) \in SUBSET (DOMAIN s)
BY DEF UpTo, Below

\* There is a k-th value.
LEMMA KthExists ==
    ASSUME NEW s \in Seq(Int), NEW k \in 1..Len(s)
    PROVE  \E v \in Range(s) : Cardinality(Below(s, v)) < k /\ k <= Cardinality(UpTo(s, v))
<1>1. Len(s) \in Nat /\ Len(s) >= 1 /\ DOMAIN s = 1..Len(s) /\ \A i \in DOMAIN s : s[i] \in Int
  OBVIOUS
<1>2. PICK l \in 1..Len(s), h \in 1..Len(s) : \A i \in 1..Len(s) : s[l] <= s[i] /\ s[i] <= s[h]
  BY <1>1, Extremes
<1>3. PICK lo, hi : lo = s[l] /\ hi = s[h]
  OBVIOUS
<1>4. /\ lo \in Int /\ hi \in Int
      /\ (\A i \in 1..Len(s) : s[i] \in lo..hi) /\ hi \in Range(s)
  BY <1>1, <1>2, <1>3 DEF Range
<1>5. Range(s) = {s[i] : i \in DOMAIN s}
  BY DEF Range
<1> DEFINE T == {v \in Range(s) : k <= Cardinality(UpTo(s, v))}
<1>6. hi \in T
  <2>1. UpTo(s, hi) = DOMAIN s
    BY <1>1, <1>4 DEF UpTo
  <2>2. Cardinality(UpTo(s, hi)) = Len(s)
    BY <2>1, Places
  <2> QED BY <1>1, <1>4, <2>2
<1>7. T \in SUBSET Int /\ \A y \in T : lo <= y
  <2>1. ASSUME NEW y \in T PROVE y \in Int /\ lo <= y
    <3>1. PICK i \in 1..Len(s) : y = s[i]
      BY <1>1, <1>5
    <3> QED BY <1>1, <1>4, <3>1
  <2> QED BY <2>1
<1>8. PICK v \in T : \A y \in T : v <= y
  <2> HIDE DEF T
  <2> QED BY <1>4, <1>6, <1>7, BoundedInts
<1>9. Cardinality(Below(s, v)) < k
  <2>1. CASE Below(s, v) = {}
    <3>1. Cardinality({}) = 0
      BY FS_EmptySet
    <3> QED BY <2>1, <3>1
  <2>2. CASE Below(s, v) # {}
    <3> DEFINE W == {s[i] : i \in Below(s, v)}
    <3>1. PICK n \in Below(s, v) : TRUE
      BY <2>2
    <3>2. W \in SUBSET Int /\ s[n] \in W /\ (\A y \in W : y <= v) /\ v \in Int /\ \A y \in W : y < v
      BY <1>1, <1>7, <3>1 DEF Below
    <3>3. PICK w \in W : \A y \in W : y <= w
      <4> HIDE DEF W
      <4> QED BY <3>2, BoundedInts
    <3>4. UpTo(s, w) = Below(s, v)
      <4>1. ASSUME NEW i \in DOMAIN s, s[i] <= w PROVE s[i] < v
        <5>1. w < v /\ w \in Int /\ s[i] \in Int
          BY <1>1, <3>2, <3>3
        <5> QED BY <3>2, <4>1, <5>1
      <4>2. ASSUME NEW i \in DOMAIN s, s[i] < v PROVE s[i] <= w
        <5>1. s[i] \in W
          BY <4>2 DEF Below
        <5> QED BY <3>3, <5>1
      <4> QED BY <4>1, <4>2 DEF UpTo, Below
    <3>5. w \in Range(s) /\ ~(v <= w)
      <4>1. w < v /\ w \in Int
        BY <3>2, <3>3
      <4>2. w \in Range(s)
        BY <1>5, <3>3 DEF Below
      <4> QED BY <3>2, <4>1, <4>2
    <3>6. ~(k <= Cardinality(UpTo(s, w)))
      BY <1>8, <3>5
    <3>7. Cardinality(UpTo(s, w)) \in Nat
      BY Places, CountsAre
    <3> QED BY <3>4, <3>6, <3>7
  <2> QED BY <2>1, <2>2
<1> QED BY <1>8, <1>9

\* The order statistics are values of the list, in order, and the k-th has k values up to it.
LEMMA OrderFacts ==
    ASSUME NEW s \in Seq(Int), NEW xs, xs = OrderStatistics(s)
    PROVE  /\ xs \in Seq(Int) /\ Len(xs) = Len(s)
           /\ \A k \in 1..Len(s) : /\ xs[k] \in Range(s) /\ k <= Cardinality(UpTo(s, xs[k]))
                                    /\ Cardinality(Below(s, xs[k])) < k
           /\ \A j, k \in 1..Len(s) : j <= k => xs[j] <= xs[k]
<1>1. Len(s) \in Nat /\ DOMAIN s = 1..Len(s) /\ \A i \in DOMAIN s : s[i] \in Int
  OBVIOUS
<1>2. Range(s) \subseteq Int
  BY <1>1 DEF Range
<1>3. ASSUME NEW k \in 1..Len(s)
      PROVE  /\ xs[k] \in Range(s) /\ k <= Cardinality(UpTo(s, xs[k]))
             /\ Cardinality(Below(s, xs[k])) < k
  <2>1. xs[k] = CHOOSE v \in Range(s) :
                    Cardinality(Below(s, v)) < k /\ k <= Cardinality(UpTo(s, v))
    BY <1>1 DEF OrderStatistics
  <2> QED BY <2>1, KthExists
<1>4. xs \in Seq(Int) /\ Len(xs) = Len(s)
  <2>1. xs = [k \in 1..Len(s) |-> xs[k]]
    BY <1>1 DEF OrderStatistics
  <2>2. \A k \in 1..Len(s) : xs[k] \in Int
    BY <1>2, <1>3
  <2> QED BY <1>1, <2>1, <2>2
<1>5. ASSUME NEW j \in 1..Len(s), NEW k \in 1..Len(s), j <= k PROVE xs[j] <= xs[k]
  <2>1. PICK a \in Int, b \in Int : a = xs[j] /\ b = xs[k]
    BY <1>2, <1>3
  <2> SUFFICES ASSUME b < a PROVE FALSE
    BY <2>1
  <2>2. UpTo(s, b) \subseteq Below(s, a)
    <3> SUFFICES ASSUME NEW i \in DOMAIN s, s[i] <= b PROVE s[i] < a
      BY DEF UpTo, Below
    <3>1. s[i] \in Int
      BY <1>1
    <3> QED BY <3>1
  <2>3. Cardinality(UpTo(s, b)) <= Cardinality(Below(s, a))
    BY <2>2, Places, CountsAre
  <2>4. Cardinality(UpTo(s, b)) \in Nat /\ Cardinality(Below(s, a)) \in Nat
    BY Places, CountsAre
  <2>5. k <= Cardinality(UpTo(s, b)) /\ Cardinality(Below(s, a)) < j
    BY <1>3, <2>1
  <2> QED BY <1>5, <2>3, <2>4, <2>5
<1> QED BY <1>3, <1>4, <1>5

-----------------------------------------------------------------------------
(* Counting: places of a list, pairs, and what is left of a list. *)

\* Sets a function pairs off one to one have as many members.
LEMMA SameCount ==
    ASSUME NEW S, NEW T, IsFiniteSet(S), NEW f \in [S -> T],
           \A x, y \in S : f[x] = f[y] => x = y, \A z \in T : \E x \in S : f[x] = z
    PROVE  IsFiniteSet(T) /\ Cardinality(T) = Cardinality(S)
<1>1. f \in Bijection(S, T)
  BY DEF Bijection, Injection, Surjection, IsInjective
<1>2. ExistsBijection(S, T)
  BY <1>1 DEF ExistsBijection
<1> QED BY <1>2, FS_Bijection

\* What is in one set or in another that share nothing is as many as in both.
LEMMA CountParts ==
    ASSUME NEW S, NEW T, IsFiniteSet(S), IsFiniteSet(T), S \cap T = {}
    PROVE  IsFiniteSet(S \cup T) /\ Cardinality(S \cup T) = Cardinality(S) + Cardinality(T)
<1>1. Cardinality(S \cap T) = 0
  BY FS_EmptySet
<1>2. PICK a \in Nat, b \in Nat : a = Cardinality(S) /\ b = Cardinality(T)
  BY FS_CardinalityType
<1>3. /\ IsFiniteSet(S \cup T)
      /\ Cardinality(S \cup T) = Cardinality(S) + Cardinality(T) - Cardinality(S \cap T)
  BY FS_Union
<1> QED BY <1>1, <1>2, <1>3

\* The relation T is P turned round.
Turned(P, T, A, B) ==
    /\ P \in SUBSET (A \X B) /\ T \in SUBSET (B \X A)
    /\ \A x \in A, y \in B : <<x, y>> \in P <=> <<y, x>> \in T

\* A finite relation has as many pairs when it is turned round.
LEMMA CountTurned ==
    ASSUME NEW A, NEW B, NEW P, NEW T, IsFiniteSet(P), Turned(P, T, A, B)
    PROVE  IsFiniteSet(T) /\ Cardinality(T) = Cardinality(P)
<1> USE DEF Turned
<1> DEFINE f == [p \in P |-> <<p[2], p[1]>>]
<1>1. \A p \in P : /\ p[1] \in A /\ p[2] \in B /\ p = <<p[1], p[2]>>
                   /\ f[p] = <<p[2], p[1]>>
  OBVIOUS
<1>2. f \in [P -> T]
  <2>1. ASSUME NEW p \in P PROVE <<p[2], p[1]>> \in T
    <3>1. PICK x \in A, y \in B : x = p[1] /\ y = p[2] /\ p = <<x, y>>
      BY <1>1
    <3> QED BY <3>1
  <2> QED BY <2>1
<1> HIDE DEF f
<1>3. \A p, q \in P : f[p] = f[q] => p = q
  BY <1>1
<1>4. \A z \in T : \E p \in P : f[p] = z
  <2> SUFFICES ASSUME NEW z \in T PROVE \E p \in P : f[p] = z
    OBVIOUS
  <2>1. z = <<z[1], z[2]>> /\ z[1] \in B /\ z[2] \in A
    OBVIOUS
  <2>2. <<z[2], z[1]>> \in P
    BY <2>1
  <2>3. f[<<z[2], z[1]>>] = <<z[1], z[2]>>
    BY <1>1, <2>2
  <2> QED BY <2>1, <2>2, <2>3
<1> QED BY <1>2, <1>3, <1>4, SameCount

\* The lists of n integers.
Ints(n) == [1..n -> Int]

\* TotalAddsUp of a list of n.
LEMMA TotalRun ==
    ASSUME NEW n \in Nat, NEW s \in Ints(n)
    PROVE  \E f : /\ Total(s) = f[n] /\ f[0] = 0
                  /\ \A k \in Nat : k + 1 <= n => f[k + 1] = f[k] + s[k + 1]
<1>1. s \in Seq(Int) /\ Len(s) = n
  BY ListOfFunction DEF Ints
<1>2. PICK f : /\ Total(s) = f[Len(s)] /\ f[0] = 0
               /\ \A k \in Nat : k + 1 <= Len(s) => f[k + 1] = f[k] + s[k + 1]
  BY <1>1, TotalAddsUp
<1> QED BY <1>1, <1>2

Row(P, B, i) == {j \in B : <<i, j>> \in P}

\* The pairs of a relation are counted row by row.
LEMMA CountByRows ==
    ASSUME NEW n \in Nat, NEW B, IsFiniteSet(B), NEW P \in SUBSET ((1..n) \X B),
           NEW s \in Ints(n), \A i \in 1..n : s[i] = Cardinality(Row(P, B, i))
    PROVE  IsFiniteSet(P) /\ Cardinality(P) = Total(s)
<1> DEFINE Up(k) == {p \in P : p[1] <= k}
<1>1. \A i \in 1..n : IsFiniteSet(Row(P, B, i)) /\ Cardinality(Row(P, B, i)) \in Nat
  <2> SUFFICES ASSUME NEW i \in 1..n
               PROVE  IsFiniteSet(Row(P, B, i)) /\ Cardinality(Row(P, B, i)) \in Nat
    OBVIOUS
  <2>1. Row(P, B, i) \in SUBSET B
    BY DEF Row
  <2> QED BY <2>1, FS_Subset, FS_CardinalityType
<1>2. PICK f : /\ Total(s) = f[n] /\ f[0] = 0
               /\ \A k \in Nat : k + 1 <= n => f[k + 1] = f[k] + s[k + 1]
  BY TotalRun
<1> DEFINE All == {k \in Nat : k <= n => IsFiniteSet(Up(k)) /\ Cardinality(Up(k)) = f[k]}
<1>3. 0 \in All
  <2>1. Up(0) = {}
    OBVIOUS
  <2> QED BY <1>2, <2>1, FS_EmptySet
<1>4. ASSUME NEW k \in Nat, k \in All PROVE k + 1 \in All
  <2> HIDE DEF Up
  <2> SUFFICES ASSUME k + 1 <= n
               PROVE  IsFiniteSet(Up(k + 1)) /\ Cardinality(Up(k + 1)) = f[k + 1]
    OBVIOUS
  <2>1. IsFiniteSet(Up(k)) /\ Cardinality(Up(k)) = f[k]
    BY <1>4
  <2> DEFINE R == Row(P, B, k + 1)
             Q == {p \in P : p[1] = k + 1}
             Pair(j) == <<k + 1, j>>
             g == [j \in R |-> Pair(j)]
  <2>2. \A j \in R : <<k + 1, j>> \in Q
    BY DEF Row
  <2>3. \A p \in Q : p[2] \in R /\ p = <<k + 1, p[2]>>
    BY DEF Row
  <2>4. IsFiniteSet(R) /\ R = Row(P, B, k + 1)
    BY <1>1, k + 1 \in 1..n
  <2> HIDE DEF R, Q
  <2>5. IsFiniteSet(Q) /\ Cardinality(Q) = Cardinality(R)
    <3>1. g \in [R -> Q] /\ \A j \in R : g[j] = <<k + 1, j>>
      BY <2>2
    <3>2. \A x, y \in R : g[x] = g[y] => x = y
      BY <3>1
    <3>3. \A z \in Q : \E x \in R : g[x] = z
      BY <2>3, <3>1
    <3> HIDE DEF g
    <3> QED BY <2>4, <3>1, <3>2, <3>3, SameCount
  <2>6. Up(k + 1) = Up(k) \cup Q /\ Up(k) \cap Q = {}
    <3>1. \A p \in P : p[1] \in Int
      OBVIOUS
    <3>2. \A p \in P : p[1] <= k + 1 <=> p[1] <= k \/ p[1] = k + 1
      BY <3>1
    <3>3. \A p \in P : ~(p[1] <= k /\ p[1] = k + 1)
      BY <3>1
    <3> QED BY <3>2, <3>3 DEF Up, Q
  <2>7. /\ IsFiniteSet(Up(k + 1))
        /\ Cardinality(Up(k + 1)) = Cardinality(Up(k)) + Cardinality(Q)
    <3>1. PICK A, C : A = Up(k) /\ C = Q
      OBVIOUS
    <3>2. IsFiniteSet(A) /\ IsFiniteSet(C) /\ A \cap C = {} /\ Up(k + 1) = A \cup C
      BY <2>1, <2>4, <2>5, <2>6, <3>1
    <3>3. IsFiniteSet(A \cup C) /\ Cardinality(A \cup C) = Cardinality(A) + Cardinality(C)
      BY ONLY <3>2, CountParts
    <3> QED BY <3>1, <3>2, <3>3
  <2>8. f[k + 1] = f[k] + Cardinality(R)
    BY <1>2, <2>4, k + 1 \in 1..n
  <2> QED BY <2>1, <2>5, <2>7, <2>8
<1>5. n \in All
  <2> HIDE DEF All
  <2> QED BY <1>3, <1>4, Induction
<1>6. Up(n) = P
  OBVIOUS
<1> HIDE DEF Up
<1> QED BY <1>2, <1>5, <1>6

\* Two lists added element by element, and a number each, add up to the sums.
LEMMA TotalOfSum ==
    ASSUME NEW n \in Nat, NEW s \in Ints(n), NEW t \in Ints(n), NEW c \in Int,
           NEW u \in Ints(n), \A i \in 1..n : u[i] = s[i] + t[i] + c
    PROVE  Total(u) = Total(s) + Total(t) + n * c
<1>1. PICK f : /\ Total(s) = f[n] /\ f[0] = 0
               /\ \A k \in Nat : k + 1 <= n => f[k + 1] = f[k] + s[k + 1]
  BY TotalRun
<1>2. PICK g : /\ Total(t) = g[n] /\ g[0] = 0
               /\ \A k \in Nat : k + 1 <= n => g[k + 1] = g[k] + t[k + 1]
  BY TotalRun
<1>3. PICK h : /\ Total(u) = h[n] /\ h[0] = 0
               /\ \A k \in Nat : k + 1 <= n => h[k + 1] = h[k] + u[k + 1]
  BY TotalRun
<1> DEFINE All == {k \in Nat : k <= n =>
                      f[k] \in Int /\ g[k] \in Int /\ h[k] = f[k] + g[k] + k * c}
<1>4. 0 \in All
  BY <1>1, <1>2, <1>3
<1>5. ASSUME NEW k \in Nat, k \in All PROVE k + 1 \in All
  <2> SUFFICES ASSUME k + 1 <= n
               PROVE  /\ f[k + 1] \in Int /\ g[k + 1] \in Int
                      /\ h[k + 1] = f[k + 1] + g[k + 1] + (k + 1) * c
    OBVIOUS
  <2>1. f[k] \in Int /\ g[k] \in Int /\ h[k] = f[k] + g[k] + k * c
    BY <1>5
  <2>2. /\ f[k + 1] = f[k] + s[k + 1] /\ g[k + 1] = g[k] + t[k + 1]
        /\ h[k + 1] = h[k] + (s[k + 1] + t[k + 1] + c)
        /\ s[k + 1] \in Int /\ t[k + 1] \in Int
    BY <1>1, <1>2, <1>3, k + 1 \in 1..n DEF Ints
  <2>3. PICK x \in Int : x = k * c
    OBVIOUS
  <2>4. (k + 1) * c = x + c
    BY <2>3
  <2>5. PICK a \in Int, b \in Int : a = f[k] /\ b = g[k] /\ h[k] = a + b + x
    BY <2>1, <2>3
  <2>6. PICK d \in Int, e \in Int : d = s[k + 1] /\ e = t[k + 1]
    BY <2>2
  <2>7. f[k + 1] = a + d /\ g[k + 1] = b + e /\ h[k + 1] = (a + b + x) + (d + e + c)
    BY <2>2, <2>5, <2>6
  <2>8. h[k + 1] = (a + d) + (b + e) + (x + c)
    BY <2>7
  <2> QED BY <2>4, <2>7, <2>8
<1>6. n \in All
  <2> HIDE DEF All
  <2> QED BY <1>4, <1>5, Induction
<1> QED BY <1>1, <1>2, <1>3, <1>6

\* The places of a list with a member of S.
Where(s, S) == {i \in DOMAIN s : s[i] \in S}

\* f finds the members of the list k in s, at the places P.
Finds(f, k, s, P) ==
    /\ f \in [1..Len(k) -> P]
    /\ \A i \in 1..Len(k) : k[i] = s[f[i]]
    /\ \A i, j \in 1..Len(k) : f[i] = f[j] => i = j
    /\ \A z \in P : \E i \in 1..Len(k) : f[i] = z

\* The places kept are those of the members in the set, in their order.
LEMMA KeptPlaces ==
    ASSUME NEW X, NEW s \in Seq(X), NEW S, NEW k, k = Kept(s, S)
    PROVE  \E f : Finds(f, k, s, Where(s, S))
<1>1. PICK m \in Nat : m = Len(s) /\ DOMAIN s = 1..m
  OBVIOUS
<1>2. PICK q : KeepsAlong(q, s, S, m)
  BY <1>1, KeptRolls
<1> DEFINE Of(n) == {i \in 1..n : s[i] \in S}
           Good(n) == q[n] \in Seq(X) /\ \E f : Finds(f, q[n], s, Of(n))
           All == {n \in Nat : n <= m => Good(n)}
<1>3. 0 \in All
  <2>1. q[0] = <<>> /\ Len(q[0]) = 0 /\ Of(0) = {} /\ q[0] \in Seq(X)
    BY <1>2 DEF KeepsAlong
  <2>2. Finds([i \in 1..0 |-> 0], q[0], s, Of(0))
    BY <2>1 DEF Finds
  <2> QED BY <2>1, <2>2
<1> HIDE DEF Of
<1>4. ASSUME NEW n \in Nat, n \in All PROVE n + 1 \in All
  <2> SUFFICES ASSUME n + 1 <= m PROVE Good(n + 1)
    OBVIOUS
  <2>1. Good(n)
    BY <1>4
  <2> HIDE DEF All
  <2>2. PICK p \in Seq(X) : p = q[n]
    BY <2>1
  <2>3. PICK l \in Nat : l = Len(p) /\ DOMAIN p = 1..l
    OBVIOUS
  <2>4. PICK f : Finds(f, p, s, Of(n))
    BY <2>1, <2>2
  <2>5. /\ f \in [1..l -> Of(n)]
        /\ \A i \in 1..l : p[i] = s[f[i]]
        /\ \A i, j \in 1..l : f[i] = f[j] => i = j
        /\ \A z \in Of(n) : \E i \in 1..l : f[i] = z
    BY <2>4, <2>3 DEF Finds
  <2>6. PICK x \in X : x = s[n + 1]
    BY <1>1
  <2>7. q[n + 1] = IF x \in S THEN Append(p, x) ELSE p
    BY <1>2, <2>2, <2>6 DEF KeepsAlong
  <2>8. CASE x \notin S
    <3>1. q[n + 1] = p
      BY <2>7, <2>8
    <3>2. Of(n + 1) = Of(n)
      <4>1. \A i \in 1..(n + 1) : i \in 1..n \/ i = n + 1
        OBVIOUS
      <4> QED BY <2>6, <2>8, <4>1 DEF Of
    <3> QED BY <2>2, <2>4, <3>1, <3>2
  <2>9. CASE x \in S
    <3>1. PICK t : t = Append(p, x)
      OBVIOUS
    <3>2. /\ q[n + 1] = t /\ t \in Seq(X) /\ Len(t) = l + 1
          /\ t[l + 1] = x /\ \A i \in 1..l : t[i] = p[i]
      BY <2>3, <2>7, <2>9, <3>1
    <3>3. /\ Of(n + 1) = Of(n) \cup {n + 1} /\ n + 1 \notin Of(n)
      <4>1. \A i \in 1..(n + 1) : i \in 1..n \/ i = n + 1
        OBVIOUS
      <4> QED BY <2>6, <2>9, <4>1 DEF Of
    <3> DEFINE g == [i \in 1..(l + 1) |-> IF i = l + 1 THEN n + 1 ELSE f[i]]
    <3>4. \A i \in 1..(l + 1) : i \in 1..l \/ i = l + 1
      OBVIOUS
    <3>5. g[l + 1] = n + 1 /\ \A i \in 1..l : g[i] = f[i] /\ f[i] \in Of(n)
      BY <2>5
    <3>6. g \in [1..(l + 1) -> Of(n + 1)]
      BY <3>3, <3>4, <3>5
    <3> HIDE DEF g
    <3>7. \A i \in 1..(l + 1) : t[i] = s[g[i]]
      BY <2>5, <2>6, <3>2, <3>4, <3>5
    <3>8. \A i, j \in 1..(l + 1) : g[i] = g[j] => i = j
      BY <2>5, <3>3, <3>4, <3>5
    <3>9. \A z \in Of(n + 1) : \E i \in 1..(l + 1) : g[i] = z
      <4>1. l + 1 \in 1..(l + 1) /\ 1..l \subseteq 1..(l + 1)
        OBVIOUS
      <4> QED BY <2>5, <3>3, <3>5, <4>1
    <3>10. Finds(g, t, s, Of(n + 1))
      BY <3>2, <3>6, <3>7, <3>8, <3>9 DEF Finds
    <3> QED BY <3>2, <3>10
  <2> QED BY <2>8, <2>9
<1>5. m \in All
  <2> HIDE DEF All
  <2> QED BY <1>3, <1>4, Induction
<1>6. Good(m)
  BY <1>5
<1>7. Of(m) = Where(s, S) /\ q[m] = k
  BY <1>1, <1>2 DEF KeepsAlong, Of, Where
<1> QED BY <1>6, <1>7

\* As many places of what is kept have a member of T as the list has places of members
\* of both sets.
LEMMA KeptCount ==
    ASSUME NEW X, NEW s \in Seq(X), NEW S, NEW k, k = Kept(s, S), NEW T
    PROVE  k \in Seq(X) /\ Cardinality(Where(k, T)) = Cardinality(Where(s, S \cap T))
<1>1. k \in Seq(X)
  BY KeptHas
<1>2. PICK l \in Nat : l = Len(k) /\ DOMAIN k = 1..l
  BY <1>1
<1>3. PICK f : Finds(f, k, s, Where(s, S))
  BY KeptPlaces
<1>4. /\ f \in [1..l -> {i \in DOMAIN s : s[i] \in S}]
      /\ \A i \in 1..l : k[i] = s[f[i]]
      /\ \A i, j \in 1..l : f[i] = f[j] => i = j
      /\ \A z \in {i \in DOMAIN s : s[i] \in S} : \E i \in 1..l : f[i] = z
  BY <1>2, <1>3 DEF Finds, Where
<1> DEFINE A == {i \in 1..l : k[i] \in T}
           B == {i \in DOMAIN s : s[i] \in S /\ s[i] \in T}
           g == [i \in A |-> f[i]]
<1>5. IsFiniteSet(A)
  <2>1. IsFiniteSet(1..l)
    BY FS_Interval
  <2> QED BY <2>1, FS_Subset
<1>6. g \in [A -> B] /\ \A i \in A : g[i] = f[i]
  BY <1>4
<1>7. \A i, j \in A : g[i] = g[j] => i = j
  BY <1>4, <1>6
<1>8. \A z \in B : \E i \in A : g[i] = z
  <2> SUFFICES ASSUME NEW z \in B PROVE \E i \in A : g[i] = z
    OBVIOUS
  <2>1. PICK i \in 1..l : f[i] = z
    BY <1>4
  <2>2. i \in A
    BY <1>4, <2>1
  <2> QED BY <1>6, <2>1, <2>2
<1> HIDE DEF A, B, g
<1>9. Cardinality(B) = Cardinality(A)
  BY <1>5, <1>6, <1>7, <1>8, SameCount
<1>10. A = Where(k, T) /\ B = Where(s, S \cap T)
  BY <1>2 DEF A, B, Where
<1> QED BY <1>1, <1>9, <1>10
=============================================================================
