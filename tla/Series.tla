------------------------------- MODULE Series -------------------------------
(***************************************************************************)
(* What the code takes of a list: its sum and what a comprehension leaves  *)
(* of it, as functions along the list, and the list sorted, by counting.   *)
(***************************************************************************)
EXTENDS Integers, Sequences, FiniteSets, Functions

Total(s) == LET upTo[i \in 0..Len(s)] == IF i = 0 THEN 0 ELSE upTo[i - 1] + s[i] IN upTo[Len(s)]

\* The members of s that are in S, in their order.
Kept(s, S) ==
    LET kept[i \in 0..Len(s)] ==
            IF i = 0 THEN <<>> ELSE IF s[i] \in S THEN Append(kept[i - 1], s[i]) ELSE kept[i - 1]
    IN  kept[Len(s)]

\* sorted(s): the k-th has less than k values below it, and k up to it.
UpTo(s, v) == {i \in DOMAIN s : s[i] <= v}
Below(s, v) == {i \in DOMAIN s : s[i] < v}
OrderStatistics(s) ==
    [k \in DOMAIN s |->
        CHOOSE v \in Range(s) :
            Cardinality(Below(s, v)) < k /\ k <= Cardinality(UpTo(s, v))]
=============================================================================
