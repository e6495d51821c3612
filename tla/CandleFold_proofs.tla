------------------------- MODULE CandleFold_proofs -------------------------
(***************************************************************************)
(* What holds of the candle chain for every number of slots and hours,     *)
(* every start and any loss of frames: types, the corpus, the 1H counts,   *)
(* and that every aligned hour and day is resolved once.                   *)
(*                                                                         *)
(* And what holds of the numbers that MarketView takes of the candles, for *)
(* every candle, seed, period and quantile: what is stepped candle by      *)
(* candle is what the whole series gives, and no average leaves the range  *)
(* of what it averages.                                                    *)
(***************************************************************************)
EXTENDS CandleFold, MarketView, Series_proofs


S == SlotsPerHour
H == HoursPerDay

\* An hour has several slots and a day several hours (CandleAssumption).
LEMMA Sizes ==
    S \in Nat \ {0} /\ H \in Nat \ {0} /\ S * H \in Nat \ {0} /\ S > 1 /\ H > 1
BY CandleAssumption DEF S, H

\* Division by n, as far as the proofs use it.
LEMMA DivBounds ==
    ASSUME NEW x \in Nat, NEW n \in Nat \ {0}
    PROVE  x \div n \in Nat /\ (x \div n) * n <= x /\ x < (x \div n) * n + n
BY SMT

\* A bucket whose end is past is before the bucket of the present.
LEMMA DivBelow ==
    ASSUME NEW x \in Nat, NEW n \in Nat \ {0}, NEW k \in Int, (k + 1) * n <= x
    PROVE  k < x \div n
<1> DEFINE d == x \div n
<1>1. d \in Nat /\ d * n <= x /\ x < d * n + n
  BY DivBounds
<1>2. SUFFICES ASSUME k >= d PROVE FALSE
  BY <1>1
<1> HIDE DEF d
<1>3. (k + 1) * n >= (d + 1) * n
  BY <1>1, <1>2, SMT
<1>4. (d + 1) * n = d * n + n
  BY <1>1, SMT
<1> QED BY <1>1, <1>3, <1>4, SMT

\* A later slot is in no earlier bucket.
LEMMA DivMonotone ==
    ASSUME NEW x \in Nat, NEW y \in Nat, x <= y, NEW n \in Nat \ {0}
    PROVE  x \div n <= y \div n
<1> DEFINE c == x \div n
<1> DEFINE d == y \div n
<1>1. c \in Nat /\ c * n <= x /\ d \in Nat /\ y < d * n + n
  BY DivBounds
<1>2. SUFFICES ASSUME c >= d + 1 PROVE FALSE
  BY <1>1
<1> HIDE DEF c, d
<1>3. c * n >= (d + 1) * n
  BY <1>1, <1>2, SMT
<1>4. (d + 1) * n = d * n + n
  BY <1>1, SMT
<1> QED BY <1>1, <1>3, <1>4, SMT

\* The first slot of a bucket is in it.
LEMMA DivExact ==
    ASSUME NEW k \in Nat, NEW n \in Nat \ {0}
    PROVE  (k * n) \div n = k
<1>1. k * n \in Nat /\ (k * n) \div n \in Nat
  BY SMT, DivBounds
<1>2. (k + 1) * n > k * n /\ ((k - 1) + 1) * n <= k * n
  BY SMT
<1>3. k - 1 < (k * n) \div n
  BY <1>1, <1>2, DivBelow
<1>4. ((k * n) \div n) * n <= k * n
  BY <1>1, DivBounds
<1>5. ~((k * n) \div n >= k + 1)
  <2> DEFINE d == (k * n) \div n
  <2>1. d \in Nat /\ d * n <= k * n
    BY <1>1, <1>4
  <2> HIDE DEF d
  <2>2. d >= k + 1 => d * n >= (k + 1) * n
    BY <2>1, SMT
  <2> QED BY <2>1, <2>2, <1>2, SMT DEF d
<1> QED BY <1>1, <1>3, <1>5

-----------------------------------------------------------------------------
(* Caches. *)

\* A cache that counts one more hour or day: its base stays, its latest is the new one.
LEMMA SteppedTypes ==
    ASSUME NEW x \in Caches, NEW n \in Nat
    PROVE  LET y == Stepped(x, n)
           IN  /\ y.base = x.base /\ x.base \in Int /\ x.steps \in Seq(Nat)
               /\ y.steps = Append(x.steps, n) /\ y \in Caches
               /\ Latest(y) = n
<1> DEFINE y == Stepped(x, n)
<1>1. x = [base |-> x.base, steps |-> x.steps] /\ x.base \in Int /\ x.steps \in Seq(Nat)
  BY DEF Caches
<1>2. /\ y.base = x.base /\ x.base \in Int /\ x.steps \in Seq(Nat)
      /\ y.steps = Append(x.steps, n) /\ y \in Caches
  <2>1. y = [x EXCEPT !.steps = Append(x.steps, n)]
    BY DEF Stepped
  <2>2. Append(x.steps, n) \in Seq(Nat)
    BY <1>1
  <2> HIDE DEF y
  <2>3. y \in Caches /\ y.base = x.base /\ y.steps = Append(x.steps, n)
    BY <2>1, <2>2 DEF Caches
  <2> QED BY <1>1, <2>3
<1>3. Latest(y) = n
  BY <1>2 DEF Latest
<1> QED BY <1>2, <1>3

\* Counting a later hour or day keeps the steps in order.
LEMMA SteppedAscends ==
    ASSUME NEW x \in Caches, Ascending(x), NEW n \in Nat, n > Latest(x)
    PROVE  Ascending(Stepped(x, n))
<1> DEFINE y == Stepped(x, n)
<1>1. /\ y.base = x.base /\ x.base \in Int /\ x.steps \in Seq(Nat)
      /\ y.steps = Append(x.steps, n)
  BY SteppedTypes
<1>2. x.base < n /\ \A i \in DOMAIN x.steps : x.steps[i] < n
  <2>1. CASE x.steps = <<>>
    BY <1>1, <2>1 DEF Latest
  <2>2. CASE x.steps # <<>>
    <3>1. Len(x.steps) \in DOMAIN x.steps /\ Latest(x) = x.steps[Len(x.steps)]
      BY <1>1, <2>2 DEF Latest
    <3>2. \A i \in DOMAIN x.steps : x.steps[i] <= x.steps[Len(x.steps)] /\ x.base < x.steps[i]
      <4> TAKE i \in DOMAIN x.steps
      <4>1. i \in 1 .. Len(x.steps) /\ x.steps[i] \in Nat /\ Len(x.steps) \in Nat
        BY <1>1
      <4>2. x.base < x.steps[i]
        BY DEF Ascending
      <4>3. i < Len(x.steps) => x.steps[i] < x.steps[Len(x.steps)]
        BY <3>1 DEF Ascending
      <4>4. CASE i = Len(x.steps)
        BY <4>1, <4>2, <4>4
      <4>5. CASE i # Len(x.steps)
        <5>1. i < Len(x.steps)
          BY <4>1, <4>5
        <5>2. x.steps[Len(x.steps)] \in Nat
          BY <1>1, <3>1
        <5> QED BY <4>1, <4>2, <4>3, <5>1, <5>2
      <4> QED BY <4>4, <4>5
    <3> QED BY <1>1, <3>1, <3>2
  <2> QED BY <2>1, <2>2
<1>3. Ascending(y)
  <2> SUFFICES ASSUME NEW i \in DOMAIN y.steps
               PROVE  /\ y.steps[i] > y.base
                      /\ \A j \in DOMAIN y.steps : i < j => y.steps[i] < y.steps[j]
    BY DEF Ascending
  <2>1. DOMAIN y.steps = 1 .. Len(x.steps) + 1 /\ DOMAIN x.steps = 1 .. Len(x.steps)
    BY <1>1
  <2>2. \A j \in DOMAIN y.steps : y.steps[j] = IF j \in DOMAIN x.steps THEN x.steps[j] ELSE n
    BY <1>1, <2>1
  <2> HIDE DEF y
  <2>3. y.steps[i] > y.base
    BY <1>1, <1>2, <2>1, <2>2 DEF Ascending
  <2>4. \A j \in DOMAIN y.steps : i < j => y.steps[i] < y.steps[j]
    BY <1>1, <1>2, <2>1, <2>2 DEF Ascending
  <2> QED BY <2>3, <2>4
<1> QED BY <1>3

-----------------------------------------------------------------------------
(* Fold. *)

Good(b) == b \in Buckets /\ b.at >= -1 /\ (b.at = -1 => b.emitted)

\* Fold yields a well-formed bucket; what it closes is the bucket in hand, its last slot
\* included, and nothing enters a bucket but the candle fed.
LEMMA FoldTypes ==
    ASSUME NEW b, Good(b), NEW c \in Candles, NEW n \in Nat \ {0}
    PROVE  LET f == Fold(b, c, n)
               x == f.out.candle.begin
           IN  /\ Good(f.bucket)
               /\ f.out.kind \in {"none", "gap", "closed"}
               /\ f.out.kind # "none" => x \in Nat /\ f.out.candle \in Candles
               /\ f.out.kind = "closed" => x = f.bucket.at /\ x * n + n - 1 \in Begins(f.bucket)
               /\ Begins(f.bucket) \subseteq Begins(b) \cup {c.begin}
<1> DEFINE at == c.begin \div n
<1> DEFINE grown == IF at > b.at
                      THEN [at |-> at, candles |-> <<c>>, emitted |-> FALSE]
                      ELSE [b EXCEPT !.candles = Append(@, c)]
<1> DEFINE f == Fold(b, c, n)
<1>1. at \in Nat /\ c.begin \in Nat
  BY DivBounds DEF Candles
<1>2. b.at \in Int /\ b.candles \in Seq(Candles) /\ b.emitted \in BOOLEAN
  BY DEF Good, Buckets
<1>3. CASE at < b.at
  <2>1. f = [bucket |-> b, out |-> Nothing]
    BY <1>3 DEF Fold
  <2> QED BY <2>1 DEF Nothing
<1>4. CASE at >= b.at
  <2>1. grown \in Buckets /\ grown.at = at
    <3>1. CASE at > b.at
      BY <1>1, <3>1 DEF Buckets
    <3>2. CASE ~(at > b.at)
      <4>1. at = b.at /\ b = [at |-> b.at, candles |-> b.candles, emitted |-> b.emitted]
        BY <1>1, <1>2, <1>4, <3>2 DEF Good, Buckets
      <4>2. Append(b.candles, c) \in Seq(Candles)
        BY <1>2
      <4>3. grown = [at |-> b.at, candles |-> Append(b.candles, c), emitted |-> b.emitted]
        BY <3>2, <4>1
      <4> HIDE DEF grown, at
      <4> QED BY <1>2, <4>1, <4>2, <4>3 DEF Buckets
    <3> QED BY <3>1, <3>2
  <2>2. Begins(grown) \subseteq Begins(b) \cup {c.begin}
    <3>1. CASE at > b.at
      <4>1. grown.candles = <<c>>
        BY <3>1
      <4> QED BY <4>1 DEF Begins
    <3>2. CASE ~(at > b.at)
      <4>1. grown.candles = Append(b.candles, c)
        BY <3>2, <1>2 DEF Good, Buckets
      <4>2. \A i \in DOMAIN Append(b.candles, c) :
                IF i \in DOMAIN b.candles THEN Append(b.candles, c)[i] = b.candles[i]
                                          ELSE Append(b.candles, c)[i] = c
        BY <1>2
      <4> QED BY <4>1, <4>2 DEF Begins
    <3> QED BY <3>1, <3>2
  <2>3. CASE ~grown.emitted /\ IsComplete(grown, n)
    <3>1. f = [bucket |-> [grown EXCEPT !.emitted = TRUE], out |-> Closed(grown)]
      BY <1>4, <1>1, <1>2, <2>3 DEF Fold
    <3>2. /\ f.bucket \in Buckets /\ f.bucket.at = at
          /\ f.bucket.candles = grown.candles
      <4> HIDE DEF grown, at
      <4>1. f.bucket = [grown EXCEPT !.emitted = TRUE]
        BY <3>1
      <4> HIDE DEF f
      <4> QED BY <2>1, <4>1 DEF Buckets
    <3>3. f.out.kind = "closed" /\ f.out.candle = Folded(grown)
      BY <3>1 DEF Closed
    <3>4. Folded(grown) \in Candles /\ Folded(grown).begin = at
      BY <1>1, <2>1 DEF Folded, Candles
    <3>5. at * n + n - 1 \in Begins(grown)
      BY <2>1, <2>3 DEF IsComplete
    <3>6. Begins(f.bucket) = Begins(grown)
      <4> HIDE DEF f, grown
      <4> QED BY <3>2 DEF Begins
    <3>7. Good(f.bucket)
      <4> HIDE DEF f, grown, at
      <4> QED BY <1>1, <3>2 DEF Good
    <3> HIDE DEF grown, at
    <3> QED BY <1>1, <2>2, <3>2, <3>3, <3>4, <3>5, <3>6, <3>7
  <2>4. CASE ~(~grown.emitted /\ IsComplete(grown, n))
    <3>1. f = [bucket |-> grown, out |-> IF at > b.at THEN GapOrNone(b, n) ELSE Nothing]
      BY <1>4, <1>1, <1>2, <2>4 DEF Fold
    <3>2. GapOrNone(b, n).kind \in {"none", "gap"}
      BY DEF GapOrNone, Gap, Nothing
    <3>3. GapOrNone(b, n).kind = "gap" =>
              GapOrNone(b, n).candle.begin \in Nat /\ GapOrNone(b, n).candle \in Candles
      BY <1>2 DEF GapOrNone, Gap, Nothing, Good, Candles
    <3>4. Nothing.kind = "none"
      BY DEF Nothing
    <3>5. f.bucket = grown /\ f.out = IF at > b.at THEN GapOrNone(b, n) ELSE Nothing
      BY <3>1
    <3>6. f.out.kind \in {"none", "gap"}
      BY <3>2, <3>4, <3>5
    <3>7. f.out.kind = "gap" => f.out.candle.begin \in Nat /\ f.out.candle \in Candles
      BY <3>3, <3>4, <3>5
    <3>8. Good(grown)
      BY <1>1, <2>1 DEF Good
    <3> HIDE DEF grown, at
    <3> QED BY <2>2, <3>5, <3>6, <3>7, <3>8
  <2> QED BY <2>3, <2>4
<1> QED BY <1>1, <1>2, <1>3, <1>4

\* A candle past the bucket starts a new one; the old one is surfaced as a gap or not.
\* A single candle never completes a bucket.
LEMMA FoldRolls ==
    ASSUME NEW b, Good(b), NEW c \in Candles, NEW n \in Nat, n > 1, c.begin \div n > b.at
    PROVE  Fold(b, c, n) =
             [bucket |-> [at |-> c.begin \div n, candles |-> <<c>>, emitted |-> FALSE],
              out |-> GapOrNone(b, n)]
<1> DEFINE at == c.begin \div n
<1> DEFINE grown == [at |-> at, candles |-> <<c>>, emitted |-> FALSE]
<1>1. at \in Nat /\ c.begin \in Nat /\ b.at \in Int
  BY DivBounds DEF Candles, Good, Buckets
<1>2. Begins(grown) = {c.begin}
  BY DEF Begins
<1>3. ~IsComplete(grown, n)
  <2>1. at * n \in Int /\ at * n + n - 1 # at * n
    BY <1>1, SMT
  <2> HIDE DEF at
  <2> QED BY <1>2, <2>1 DEF IsComplete
<1>4. ~(at < b.at)
  BY <1>1
<1> QED BY <1>3, <1>4 DEF Fold

\* A candle of the bucket joins it, and closes it at most once, if its first slot is there.
LEMMA FoldGrows ==
    ASSUME NEW b, Good(b), NEW c \in Candles, NEW n \in Nat, n > 1, c.begin \div n = b.at
    PROVE  LET f == Fold(b, c, n)
           IN  /\ f.bucket.at = b.at
               /\ Begins(f.bucket) = Begins(b) \cup {c.begin}
               /\ \/ /\ f.out = Nothing /\ f.bucket.emitted = b.emitted
                     /\ b.emitted \/ ~IsComplete(f.bucket, n)
                  \/ /\ f.out.kind = "closed" /\ f.out.candle.begin = b.at
                     /\ ~b.emitted /\ f.bucket.emitted
                     /\ b.at * n \in Begins(f.bucket) /\ IsComplete(f.bucket, n)
<1> DEFINE grown == [b EXCEPT !.candles = Append(@, c)]
<1> DEFINE f == Fold(b, c, n)
<1>1. b.at \in Nat /\ b.candles \in Seq(Candles) /\ b.emitted \in BOOLEAN
  BY DivBounds DEF Candles, Good, Buckets
<1>2. /\ grown.at = b.at /\ grown.emitted = b.emitted /\ grown \in Buckets
      /\ grown.candles = Append(b.candles, c)
  <2>1. Append(b.candles, c) \in Seq(Candles)
    BY <1>1
  <2>2. grown = [b EXCEPT !.candles = Append(b.candles, c)]
    OBVIOUS
  <2> HIDE DEF grown
  <2> QED BY <2>1, <2>2 DEF Good, Buckets
<1>3. Begins(grown) = Begins(b) \cup {c.begin}
  <2>1. /\ DOMAIN Append(b.candles, c) = 1 .. Len(b.candles) + 1
        /\ DOMAIN b.candles = 1 .. Len(b.candles) /\ Len(b.candles) \in Nat
    BY <1>1
  <2>2. \A i \in 1 .. Len(b.candles) + 1 :
            Append(b.candles, c)[i] = IF i \in 1 .. Len(b.candles) THEN b.candles[i] ELSE c
    BY <1>1
  <2>3. Len(b.candles) + 1 \in 1 .. Len(b.candles) + 1 /\ Len(b.candles) + 1 \notin 1 .. Len(b.candles)
        /\ 1 .. Len(b.candles) \subseteq 1 .. Len(b.candles) + 1
    BY <2>1
  <2> HIDE DEF grown
  <2> QED BY <1>2, <2>1, <2>2, <2>3 DEF Begins
<1>4. ~(c.begin \div n < b.at) /\ ~(c.begin \div n > b.at)
  BY <1>1
<1>5. CASE ~grown.emitted /\ IsComplete(grown, n)
  <2>1. f = [bucket |-> [grown EXCEPT !.emitted = TRUE], out |-> Closed(grown)]
    BY <1>4, <1>5 DEF Fold
  <2>2. f.out.kind = "closed" /\ f.out.candle.begin = b.at
    BY <1>2, <2>1 DEF Closed, Folded
  <2>3. f.bucket.at = b.at /\ f.bucket.emitted /\ f.bucket.candles = grown.candles
    <3> HIDE DEF grown
    <3>1. f.bucket = [grown EXCEPT !.emitted = TRUE]
      BY <2>1
    <3> HIDE DEF f
    <3> QED BY <1>2, <3>1 DEF Buckets
  <2>4. Begins(f.bucket) = Begins(grown)
    <3> HIDE DEF f, grown
    <3> QED BY <2>3 DEF Begins
  <2>5. b.at * n \in Begins(grown)
    BY <1>2, <1>5 DEF IsComplete
  <2>6. IsComplete(f.bucket, n)
    <3> HIDE DEF f, grown
    <3> QED BY <1>2, <1>5, <2>3, <2>4 DEF IsComplete
  <2> HIDE DEF grown
  <2> QED BY <1>2, <1>3, <1>5, <2>2, <2>3, <2>4, <2>5, <2>6
<1>6. CASE ~(~grown.emitted /\ IsComplete(grown, n))
  <2>1. f = [bucket |-> grown, out |-> Nothing]
    BY <1>4, <1>6 DEF Fold
  <2> HIDE DEF grown
  <2> QED BY <1>2, <1>3, <1>6, <2>1
<1> QED BY <1>5, <1>6

\* A level is resolved: what rolled over is closed or a gap, just when it began
\* at its boundary; what is to come is neither.
Resolved(b, n, fed, closed, gaps) ==
    /\ \A k \in Nat : k < b.at =>
          IF k * n \in fed THEN (k \in closed) # (k \in gaps) ELSE k \notin closed \cup gaps
    /\ \A k \in Nat : k > b.at => k \notin closed \cup gaps
    /\ b.at \in Nat =>
          /\ b.at \notin gaps /\ (b.at \in closed <=> b.emitted)
          /\ (b.at * n \in fed <=> b.at * n \in Begins(b))
          /\ b.emitted => b.at * n \in fed
    /\ \A x \in fed : x \in Nat /\ x \div n <= b.at

If(cond, set) == IF cond THEN set ELSE {}

\* A candle that is not older than the bucket keeps its level resolved.
LEMMA FoldResolves ==
    ASSUME NEW b, Good(b), NEW c \in Candles, NEW n \in Nat, n > 1,
           NEW fed, NEW closed, NEW gaps, Resolved(b, n, fed, closed, gaps),
           c.begin \div n >= b.at
    PROVE  LET f == Fold(b, c, n)
           IN  Resolved(f.bucket, n, fed \cup {c.begin},
                        closed \cup If(f.out.kind = "closed", {f.out.candle.begin}),
                        gaps \cup If(f.out.kind = "gap", {f.out.candle.begin}))
<1> DEFINE at == c.begin \div n
<1> DEFINE f == Fold(b, c, n)
<1> DEFINE fed1 == fed \cup {c.begin}
<1> DEFINE closed1 == closed \cup If(f.out.kind = "closed", {f.out.candle.begin})
<1> DEFINE gaps1 == gaps \cup If(f.out.kind = "gap", {f.out.candle.begin})
<1>1. at \in Nat /\ c.begin \in Nat /\ b.at \in Int /\ b.at >= -1 /\ (b.at = -1 => b.emitted)
      /\ b.emitted \in BOOLEAN
  BY DivBounds DEF Candles, Good, Buckets
<1>2. \A k \in Nat : k # at => k * n # c.begin
  BY DivExact
<1>3. \A k \in Nat : k > b.at => k * n \notin fed
  <2> TAKE k \in Nat
  <2> HAVE k > b.at
  <2>1. (k * n) \div n = k
    BY DivExact
  <2> QED BY <1>1, <2>1 DEF Resolved
<1>4. at * n \in fed1 \/ at * n \notin fed1
  OBVIOUS
<1>5. CASE at > b.at
  <2> DEFINE g == GapOrNone(b, n)
  <2>1. f.bucket = [at |-> at, candles |-> <<c>>, emitted |-> FALSE] /\ f.out = g
    <3>1. f = [bucket |-> [at |-> at, candles |-> <<c>>, emitted |-> FALSE], out |-> g]
      BY <1>5, FoldRolls, Zenon
    <3> HIDE DEF f, g, at
    <3> QED BY <3>1
  <2>2. f.bucket.at = at /\ ~f.bucket.emitted /\ Begins(f.bucket) = {c.begin}
    BY <2>1 DEF Begins
  <2>3. g.kind # "closed"
    BY DEF GapOrNone, Gap, Nothing
  <2>4. g.kind = "gap" <=> ~b.emitted /\ b.at * n \in Begins(b)
    BY DEF GapOrNone, Gap, Nothing
  <2>5. g.kind = "gap" => g.candle.begin = b.at
    BY DEF GapOrNone, Gap, Nothing
  <2>6. closed1 = closed /\ gaps1 = gaps \cup If(g.kind = "gap", {b.at})
    BY <2>1, <2>3, <2>5 DEF If
  <2> HIDE DEF f, g, at, closed1, gaps1
  <2>7. \A k \in Nat : k < at =>
          IF k * n \in fed1 THEN (k \in closed1) # (k \in gaps1) ELSE k \notin closed1 \cup gaps1
    <3> TAKE k \in Nat
    <3> HAVE k < at
    <3>1. k * n \in fed1 <=> k * n \in fed
      BY <1>1, <1>2
    <3>2. CASE k < b.at
      BY <1>1, <2>6, <3>1, <3>2 DEF Resolved, If
    <3>3. CASE k = b.at
      BY <1>1, <2>4, <2>6, <3>1, <3>3 DEF Resolved, If
    <3>4. CASE k > b.at
      BY <1>1, <1>3, <2>6, <3>1, <3>4 DEF Resolved, If
    <3> QED BY <1>1, <3>2, <3>3, <3>4
  <2>8. \A k \in Nat : k > at => k \notin closed1 \cup gaps1
    BY <1>1, <1>5, <2>6 DEF Resolved, If
  <2>9. at \notin gaps1 /\ at \notin closed1 /\ (at * n \in fed1 <=> at * n = c.begin)
    BY <1>1, <1>3, <1>5, <2>6 DEF Resolved, If
  <2>10. \A x \in fed1 : x \in Nat /\ x \div n <= at
    <3> TAKE x \in fed1
    <3>1. CASE x = c.begin
      BY <1>1, <3>1 DEF at
    <3>2. CASE x \in fed
      <4>1. x \in Nat /\ x \div n <= b.at
        BY <3>2 DEF Resolved
      <4>2. x \div n \in Nat
        BY <4>1, DivBounds
      <4> QED BY <1>1, <1>5, <4>1, <4>2
    <3> QED BY <3>1, <3>2
  <2> HIDE DEF fed1
  <2>11. Resolved(f.bucket, n, fed1, closed1, gaps1)
    BY <2>2, <2>7, <2>8, <2>9, <2>10 DEF Resolved
  <2> QED BY <2>11 DEF fed1, closed1, gaps1, f
<1>6. CASE at = b.at
  <2>1. /\ f.bucket.at = b.at
        /\ Begins(f.bucket) = Begins(b) \cup {c.begin}
        /\ \/ f.out = Nothing /\ f.bucket.emitted = b.emitted
           \/ /\ f.out.kind = "closed" /\ f.out.candle.begin = b.at
              /\ ~b.emitted /\ f.bucket.emitted
              /\ b.at * n \in Begins(f.bucket)
    BY <1>6, FoldGrows
  <2>2. gaps1 = gaps
    BY <2>1 DEF If, Nothing
  <2>3. \/ closed1 = closed /\ f.bucket.emitted = b.emitted
        \/ /\ closed1 = closed \cup {b.at} /\ ~b.emitted /\ f.bucket.emitted
           /\ b.at * n \in Begins(f.bucket)
    BY <2>1 DEF If, Nothing
  <2>4. \A k \in Nat : k # at => (k * n \in fed1 <=> k * n \in fed) /\ (k \in closed1 <=> k \in closed)
    BY <1>2, <1>6, <2>3
  <2>5. b.at * n \in fed1 <=> b.at * n \in Begins(f.bucket)
    BY <1>1, <1>6, <2>1 DEF Resolved
  <2> HIDE DEF f, at, closed1, gaps1
  <2>6. \A k \in Nat : k < b.at =>
          IF k * n \in fed1 THEN (k \in closed1) # (k \in gaps1) ELSE k \notin closed1 \cup gaps1
    BY <1>1, <1>6, <2>2, <2>4 DEF Resolved
  <2>7. \A k \in Nat : k > b.at => k \notin closed1 \cup gaps1
    BY <1>1, <1>6, <2>2, <2>4 DEF Resolved
  <2>8. b.at \notin gaps1 /\ (b.at \in closed1 <=> f.bucket.emitted)
    BY <1>1, <1>6, <2>2, <2>3 DEF Resolved
  <2>9. f.bucket.emitted => b.at * n \in fed1
    <3>1. b.emitted => b.at * n \in fed
      BY <1>1, <1>6 DEF Resolved
    <3> QED BY <2>3, <2>5, <3>1
  <2>10. \A x \in fed1 : x \in Nat /\ x \div n <= b.at
    BY <1>1, <1>6 DEF Resolved, at
  <2> HIDE DEF fed1
  <2>11. Resolved(f.bucket, n, fed1, closed1, gaps1)
    BY <2>1, <2>2, <2>5, <2>6, <2>7, <2>8, <2>9, <2>10 DEF Resolved
  <2> QED BY <2>11 DEF fed1, closed1, gaps1, f
<1> QED BY <1>1, <1>5, <1>6

-----------------------------------------------------------------------------
(* Which slots a bucket holds. *)

Slots(k, n) == k * n .. k * n + n - 1

\* A slot is in a bucket just when division says so.
LEMMA SlotOf ==
    ASSUME NEW x \in Nat, NEW k \in Nat, NEW n \in Nat \ {0}
    PROVE  x \in Slots(k, n) <=> x \div n = k
<1> DEFINE d == x \div n
<1>1. d \in Nat /\ d * n <= x /\ x < d * n + n /\ d * n \in Nat /\ k * n \in Nat
  <2>1. d \in Nat /\ d * n <= x /\ x < d * n + n
    BY DivBounds
  <2> HIDE DEF d
  <2> QED BY <2>1, SMT
<1> HIDE DEF d
<1>2. ASSUME d = k PROVE x \in Slots(k, n)
  BY <1>1, <1>2 DEF Slots
<1>3. ASSUME x \in Slots(k, n) PROVE d = k
  <2>1. k * n <= x /\ x < k * n + n
    BY <1>1, <1>3 DEF Slots
  <2>2. ~(d > k)
    <3>1. d > k => d * n >= (k + 1) * n
      BY <1>1, SMT
    <3>2. (k + 1) * n = k * n + n
      BY SMT
    <3> QED BY <1>1, <2>1, <3>1, <3>2
  <2>3. ~(k > d)
    <3>1. k > d => k * n >= (d + 1) * n
      BY <1>1, SMT
    <3>2. (d + 1) * n = d * n + n
      BY <1>1, SMT
    <3> QED BY <1>1, <2>1, <3>1, <3>2
  <2> QED BY <1>1, <2>2, <2>3
<1> QED BY <1>2, <1>3 DEF d

\* The day of an hour of a slot is the day of the slot.
LEMMA DivDiv ==
    ASSUME NEW x \in Nat, NEW m \in Nat \ {0}, NEW n \in Nat \ {0}
    PROVE  (x \div m) \div n = x \div (m * n)
<1> DEFINE h == x \div m
<1> DEFINE d == h \div n
<1>1. h \in Nat /\ h * m <= x /\ x < h * m + m
  BY DivBounds
<1>2. d \in Nat /\ d * n <= h /\ h < d * n + n
  <2> HIDE DEF h
  <2> QED BY <1>1, DivBounds
<1> HIDE DEF h, d
<1>3. m * n \in Nat \ {0} /\ d * n \in Nat /\ h * m \in Nat /\ d * (m * n) \in Nat
  BY <1>1, <1>2, SMT
<1>4. d * (m * n) <= x
  <2>1. (d * n) * m <= h * m
    BY <1>1, <1>2, <1>3, SMT
  <2>2. (d * n) * m = d * (m * n)
    BY <1>2, SMT
  <2> QED BY <1>1, <1>3, <2>1, <2>2
<1>5. x < d * (m * n) + m * n
  <2>1. (h + 1) * m <= (d * n + n) * m
    <3>1. h + 1 <= d * n + n /\ h + 1 \in Nat /\ d * n + n \in Nat
      BY <1>1, <1>2, <1>3
    <3> DEFINE a == h + 1
    <3> DEFINE b == d * n + n
    <3> HIDE DEF a, b
    <3>2. a <= b /\ a \in Nat /\ b \in Nat
      BY <3>1 DEF a, b
    <3>3. a * m <= b * m
      BY <3>2, SMT
    <3> QED BY <3>3 DEF a, b
  <2>2. (h + 1) * m = h * m + m
    BY <1>1, SMT
  <2>3. (d * n + n) * m = d * (m * n) + m * n
    BY <1>2, SMT
  <2>4. h * m + m <= d * (m * n) + m * n
    BY <2>1, <2>2, <2>3
  <2> QED BY <1>1, <1>3, <2>4
<1>6. x \in Slots(d, m * n)
  BY <1>3, <1>4, <1>5 DEF Slots
<1>7. x \div (m * n) = d
  <2> DEFINE w == m * n
  <2> HIDE DEF w
  <2>1. w \in Nat \ {0} /\ x \in Slots(d, w)
    BY <1>3, <1>6 DEF w
  <2>2. x \div w = d
    BY <1>2, <2>1, SlotOf
  <2> QED BY <2>2 DEF w
<1> QED BY <1>7 DEF h, d

\* A bucket that holds none but its own slots is complete just when it holds them all.
LEMMA CompleteIsWhole ==
    ASSUME NEW b, b.at \in Nat, NEW n \in Nat, n > 1, Begins(b) \subseteq Slots(b.at, n)
    PROVE  IsComplete(b, n) <=> Slots(b.at, n) \subseteq Begins(b)
<1> DEFINE first == b.at * n
<1>1. first \in Nat
  BY SMT
<1> HIDE DEF first
<1> DEFINE slots == first .. first + n - 1
<1>2. IsFiniteSet(slots) /\ Cardinality(slots) = n
  <2>1. first + n - 1 \in Int /\ first <= first + n - 1
    BY <1>1
  <2>2. /\ IsFiniteSet(slots)
        /\ Cardinality(slots) = IF first > first + n - 1 THEN 0 ELSE (first + n - 1) - first + 1
    BY <1>1, <2>1, FS_Interval
  <2> HIDE DEF slots
  <2> QED BY <1>1, <2>1, <2>2
<1>3. slots = Slots(b.at, n) /\ first \in slots /\ first + n - 1 \in slots
  BY <1>1 DEF Slots, first
<1> HIDE DEF slots
<1>4. ASSUME IsComplete(b, n) PROVE Slots(b.at, n) \subseteq Begins(b)
  <2>1. Cardinality(Begins(b)) = n
    BY <1>4 DEF IsComplete
  <2>2. Begins(b) = slots
    BY <1>2, <1>3, <2>1, FS_Subset
  <2> QED BY <1>3, <2>2
<1>5. ASSUME Slots(b.at, n) \subseteq Begins(b) PROVE IsComplete(b, n)
  <2>1. Begins(b) = slots
    BY <1>3, <1>5
  <2> QED BY <1>2, <1>3, <2>1 DEF IsComplete, first
<1> QED BY <1>4, <1>5

\* A bucket holds just what it was fed of its slots, and is emitted just when it
\* holds them all.
Filled(b, n, fed) ==
    b.at \in Nat =>
        /\ Begins(b) = {x \in fed : x \div n = b.at}
        /\ b.emitted <=> Slots(b.at, n) \subseteq Begins(b)

\* What fold says of the buckets that c makes whole or leaves behind.
FoldTells(b, c, n, fed) ==
    LET f == Fold(b, c, n)
        at == c.begin \div n
    IN  /\ f.bucket.at = at
        /\ Filled(f.bucket, n, fed \cup {c.begin})
        /\ f.out.kind = "closed" => b.at = at /\ ~b.emitted /\ f.out.candle.begin = at
        /\ f.out.kind = "gap" => b.at < at
        /\ \A k \in Nat :
              Slots(k, n) \subseteq fed \cup {c.begin} /\ ~(Slots(k, n) \subseteq fed)
                => f.out.kind = "closed" /\ k = at

\* Fold closes a bucket with the candle that makes it whole, and only then.
LEMMA FoldFills ==
    ASSUME NEW b, Good(b), NEW c \in Candles, NEW n \in Nat, n > 1, NEW fed,
           \A x \in fed : x \in Nat /\ x \div n <= b.at,
           Filled(b, n, fed), c.begin \div n >= b.at
    PROVE  FoldTells(b, c, n, fed)
<1> DEFINE at == c.begin \div n
<1> DEFINE f == Fold(b, c, n)
<1> DEFINE now == fed \cup {c.begin}
<1>1. at \in Nat /\ c.begin \in Nat /\ b.at \in Int /\ b.emitted \in BOOLEAN /\ n \in Nat \ {0}
  BY DivBounds DEF Candles, Good, Buckets
<1>2. c.begin \in Slots(at, n) /\ \A k \in Nat : c.begin \in Slots(k, n) => k = at
  BY <1>1, SlotOf
<1>3. \A x \in now : x \in Nat
  BY <1>1
<1>4. ASSUME NEW k \in Nat, Slots(k, n) \subseteq now, ~(Slots(k, n) \subseteq fed)
      PROVE  k = at
  BY <1>2, <1>4
<1>5. CASE at > b.at
  <2>1. f.bucket.at = at /\ ~f.bucket.emitted /\ Begins(f.bucket) = {c.begin} /\ f.out = GapOrNone(b, n)
    <3>1. f = [bucket |-> [at |-> at, candles |-> <<c>>, emitted |-> FALSE], out |-> GapOrNone(b, n)]
      BY <1>5, FoldRolls, Zenon
    <3> HIDE DEF f, at
    <3> QED BY <3>1 DEF Begins
  <2>2. f.out.kind # "closed"
    BY <2>1 DEF GapOrNone, Gap, Nothing
  <2>3. \A x \in fed : x \div n # at
    BY <1>1, <1>5, DivBounds
  <2>4. {c.begin} = {x \in now : x \div n = at}
    BY <2>3
  <2>5. ~(Slots(at, n) \subseteq {c.begin})
    <3>1. at * n \in Nat
      BY <1>1, SMT
    <3> HIDE DEF at
    <3>2. at * n \in Slots(at, n) /\ at * n + 1 \in Slots(at, n)
      BY <3>1 DEF Slots
    <3> QED BY <3>1, <3>2
  <2>6. ~(Slots(at, n) \subseteq now)
    <3>1. \A y \in Slots(at, n) : y \in now => y = c.begin
      <4>1. \A y \in Slots(at, n) : y \in now => y \div n = at
        BY <1>1, <1>3, SlotOf
      <4> QED BY <2>3, <4>1
    <3> QED BY <2>5, <3>1
  <2> HIDE DEF f, at
  <2>7. Filled(f.bucket, n, now)
    BY <1>1, <2>1, <2>4, <2>5 DEF Filled
  <2>8. \A k \in Nat : ~(Slots(k, n) \subseteq now /\ ~(Slots(k, n) \subseteq fed))
    BY <1>4, <2>6
  <2> QED BY <1>1, <1>5, <2>1, <2>2, <2>7, <2>8 DEF FoldTells, f, at
<1>6. CASE at = b.at
  <2>1. /\ f.bucket.at = b.at
        /\ Begins(f.bucket) = Begins(b) \cup {c.begin}
        /\ \/ /\ f.out = Nothing /\ f.bucket.emitted = b.emitted
              /\ b.emitted \/ ~IsComplete(f.bucket, n)
           \/ /\ f.out.kind = "closed" /\ f.out.candle.begin = b.at
              /\ ~b.emitted /\ f.bucket.emitted
              /\ b.at * n \in Begins(f.bucket) /\ IsComplete(f.bucket, n)
    BY <1>6, FoldGrows
  <2>2. /\ Begins(b) = {x \in fed : x \div n = at}
        /\ b.emitted <=> Slots(at, n) \subseteq Begins(b)
    BY <1>1, <1>6 DEF Filled
  <2>3. Begins(f.bucket) = {x \in now : x \div n = at}
    BY <2>1, <2>2
  <2> HIDE DEF f
  <2>4. Begins(f.bucket) \subseteq Slots(at, n)
    BY <1>1, <1>3, <2>3, SlotOf
  <2>5. IsComplete(f.bucket, n) <=> Slots(at, n) \subseteq Begins(f.bucket)
    BY <1>1, <1>6, <2>1, <2>4, CompleteIsWhole
  <2>6. Slots(at, n) \subseteq now => Slots(at, n) \subseteq Begins(f.bucket)
    <3>1. \A y \in Slots(at, n) : y \in now => y \div n = at
      BY <1>1, <1>3, SlotOf
    <3> QED BY <2>3, <3>1
  <2>7. Nothing.kind = "none"
    BY DEF Nothing
  <2> HIDE DEF at, now
  <2>8. Filled(f.bucket, n, now)
    BY <1>6, <2>1, <2>2, <2>3, <2>5 DEF Filled
  <2>9. Slots(at, n) \subseteq now /\ ~(Slots(at, n) \subseteq fed) => f.out.kind = "closed"
    BY <2>1, <2>2, <2>5, <2>6
  <2> QED BY <1>4, <1>6, <2>1, <2>7, <2>8, <2>9 DEF FoldTells, f, at, now
<1> QED BY <1>1, <1>5, <1>6

-----------------------------------------------------------------------------
(* What the log says. *)

In(L, level, kind) == {e.candle.begin : e \in {e \in L : e.level = level /\ e.kind = kind}}

\* What is logged of a union.
LEMMA LogGrows ==
    ASSUME NEW L, NEW M, NEW level, NEW kind
    PROVE  In(L \cup M, level, kind) = In(L, level, kind) \cup In(M, level, kind)
BY DEF In

\* What one result of fold adds to the log.
LEMMA EventSays ==
    ASSUME NEW l, NEW out, NEW level, NEW kind \in {"closed", "gap"}
    PROVE  In(Event(l, out), level, kind)
             = If(l = level /\ out.kind = kind, {out.candle.begin})
<1>1. CASE out.kind = "none"
  <2>1. Event(l, out) = {} /\ out.kind # kind
    BY <1>1 DEF Event
  <2> QED BY <2>1 DEF In, If
<1>2. CASE out.kind # "none"
  <2> DEFINE e == [level |-> l, kind |-> out.kind, candle |-> out.candle]
  <2>1. Event(l, out) = {e}
    BY <1>2 DEF Event
  <2>2. e.level = l /\ e.kind = out.kind /\ e.candle.begin = out.candle.begin
    OBVIOUS
  <2> HIDE DEF e
  <2> QED BY <2>1, <2>2 DEF In, If
<1> QED BY <1>1, <1>2

\* A result of fold is logged as an event.
LEMMA EventTypes ==
    ASSUME NEW l \in {"hour", "day"}, NEW out, out.kind \in {"none", "gap", "closed"},
           out.kind # "none" => out.candle \in Candles
    PROVE  Event(l, out) \subseteq
             [level : {"hour", "day"}, kind : {"closed", "gap"}, candle : Candles]
BY DEF Event

-----------------------------------------------------------------------------
(* The inductive invariant. *)

\* The candles and hours folded so far have ended.
FoldedHaveEnded ==
    /\ \A x \in Begins(hour) : x < clock
    /\ \A h \in Begins(day) : (h + 1) * S <= clock

\* Buckets do not run ahead of what they are fed.
BucketsFollow == hour.at <= detector.begin \div S /\ day.at * H <= hour.at

\* The detector is past what has been stepped, but for the warm-up's candle.
DetectorAhead ==
    /\ warmed <= stepped5 /\ stepped5 <= detector.begin
    /\ detector.begin = stepped5 => stepped5 = warmed
    /\ \A i \in DOMAIN corpus : corpus[i].begin <= stepped5

LevelsResolved ==
    /\ Resolved(hour, S, Fed, In(log, "hour", "closed"), In(log, "hour", "gap"))
    /\ Resolved(day, H, In(log, "hour", "closed"), In(log, "day", "closed"), In(log, "day", "gap"))

IInv ==
    /\ TypeOK
    /\ stepped60 = Latest(htf) /\ Ascending(htf)
    /\ Good(hour) /\ Good(day)
    /\ FoldedHaveEnded /\ BucketsFollow /\ DetectorAhead
    /\ CorpusIsTheStream /\ LevelsResolved
    /\ \A heal \in heals : heal.asked <= clock

\* What a REST answer at slot t makes of a cache: it ends before the bar in progress.
LEMMA CompleteTypes ==
    ASSUME NEW t \in Nat
    PROVE  /\ [base |-> CompleteHours(t), steps |-> <<>>] \in Caches
           /\ [base |-> CompleteDays(t), steps |-> <<>>] \in Caches
           /\ Latest([base |-> CompleteHours(t), steps |-> <<>>]) = t \div S - 1
           /\ Latest([base |-> CompleteDays(t), steps |-> <<>>]) = t \div (S * H) - 1
           /\ Ascending([base |-> CompleteHours(t), steps |-> <<>>])
<1>1. t \div S \in Nat /\ t \div (S * H) \in Nat
  BY Sizes, DivBounds
<1>2. CompleteHours(t) = t \div S - 1 /\ CompleteDays(t) = t \div (S * H) - 1
  BY DEF CompleteHours, CompleteDays, S, H
<1>3. <<>> \in Seq(Nat) /\ DOMAIN <<>> = {}
  OBVIOUS
<1> QED BY <1>1, <1>2, <1>3 DEF Caches, Latest, Ascending

\* The warm-up leaves the chain in the invariant.
LEMMA InitInv == Init => IInv
<1> SUFFICES ASSUME Init PROVE IInv
  OBVIOUS
<1>1. warmed \in Nat /\ clock \in Nat /\ warmed < clock /\ S * H <= warmed
  BY CandleAssumption DEF Init, S, H
<1>2. /\ htf \in Caches /\ Ascending(htf) /\ Latest(htf) < clock \div S /\ stepped60 = Latest(htf)
      /\ stepped60 \in Int
  <2>1. PICK t \in (warmed + 1) .. clock : htf = [base |-> CompleteHours(t), steps |-> <<>>]
    BY DEF Init
  <2>2. t \in Nat /\ t <= clock /\ t \div S \in Nat /\ clock \div S \in Nat
    BY <1>1, <2>1, Sizes, DivBounds
  <2>3. t \div S <= clock \div S
    BY <1>1, <2>2, Sizes, DivMonotone
  <2>4. stepped60 = htf.base /\ htf.base = Latest(htf)
    BY <2>1 DEF Init, Latest
  <2>5. htf \in Caches /\ Latest(htf) = t \div S - 1 /\ Ascending(htf)
    BY <2>1, <2>2, CompleteTypes, Zenon
  <2>6. Latest(htf) < clock \div S /\ Latest(htf) \in Int
    BY <2>2, <2>3, <2>5
  <2> QED BY <2>4, <2>5, <2>6
<1>3. decision \in Caches /\ Latest(decision) < clock \div (S * H)
  <2>1. clock \div (S * H) \in Nat
    BY <1>1, Sizes, DivBounds
  <2>2. CASE decision = NoCache
    <3>1. <<>> \in Seq(Nat)
      OBVIOUS
    <3> QED BY <2>1, <2>2, <3>1 DEF NoCache, Caches, Latest
  <2>3. CASE \E t \in (warmed + 1) .. clock : decision = [base |-> CompleteDays(t), steps |-> <<>>]
    <3>1. PICK t \in (warmed + 1) .. clock : decision = [base |-> CompleteDays(t), steps |-> <<>>]
      BY <2>3
    <3>2. t \in Nat /\ t <= clock /\ t \div (S * H) \in Nat
      BY <1>1, <3>1, Sizes, DivBounds
    <3>3. t \div (S * H) <= clock \div (S * H)
      BY <1>1, <3>2, Sizes, DivMonotone
    <3>4. decision \in Caches /\ Latest(decision) = t \div (S * H) - 1
      BY <3>1, <3>2, CompleteTypes, Zenon
    <3> QED BY <2>1, <3>2, <3>3, <3>4
  <2> QED BY <2>2, <2>3 DEF Init
<1>4. /\ NoBucket \in Buckets /\ NoBucket.at = -1 /\ NoBucket.emitted /\ Begins(NoBucket) = {}
  <2>1. <<>> \in Seq(Candles) /\ DOMAIN <<>> = {}
    OBVIOUS
  <2> QED BY <2>1 DEF NoBucket, Buckets, Begins
<1>5. hour = NoBucket /\ day = NoBucket /\ corpus = <<>> /\ log = {} /\ heals = {} /\ entries = {}
      /\ detector = [begin |-> warmed, whole |-> TRUE] /\ stepped5 = warmed
  BY DEF Init
<1>6. Fed = {} /\ \A l, k : In(log, l, k) = {}
  BY <1>5 DEF Fed, In
<1>7. TypeOK
  <2>1. /\ published = "nothing" /\ down = FALSE /\ missed = 0
    BY DEF Init
  <2>2. detector \in Candles /\ detector.begin <= clock
    BY <1>1, <1>5 DEF Candles
  <2>3. <<>> \in Seq(Candles)
    OBVIOUS
  <2> QED BY <1>1, <1>2, <1>3, <1>4, <1>5, <2>1, <2>2, <2>3 DEF TypeOK, S, H
<1>8. Good(hour) /\ Good(day) /\ FoldedHaveEnded /\ BucketsFollow /\ DetectorAhead
  <2>1. detector.begin = warmed /\ warmed \div S \in Nat
    BY <1>1, <1>5, Sizes, DivBounds
  <2>2. (-1) * H <= -1
    BY Sizes, SMT
  <2>3. DOMAIN corpus = {}
    BY <1>5
  <2> QED BY <1>1, <1>4, <1>5, <2>1, <2>2, <2>3 DEF Good, FoldedHaveEnded, BucketsFollow, DetectorAhead
<1>9. CorpusIsTheStream /\ LevelsResolved
  <2>1. DOMAIN corpus = {}
    BY <1>5
  <2>2. CorpusIsTheStream
    BY <2>1 DEF CorpusIsTheStream
  <2>3. \A b : b.at = -1 => \A n : Resolved(b, n, {}, {}, {})
    BY DEF Resolved
  <2> QED BY <1>4, <1>5, <1>6, <2>2, <2>3 DEF LevelsResolved
<1> QED BY <1>2, <1>5, <1>7, <1>8, <1>9 DEF IInv

-----------------------------------------------------------------------------
(* A 5m close. *)

\* What the first stage does: the indicators, the corpus and the hour.
LEMMA HourStage ==
    ASSUME IInv, clock' = clock, warmed' = warmed,
           detector' \in Candles, detector'.begin = clock, detector.begin < clock,
           StepIndicators(detector), hour' = Fold(hour, detector, SlotsPerHour).bucket
    PROVE  LET out == Fold(hour, detector, SlotsPerHour).out
           IN  /\ corpus' \in Seq(Candles) /\ stepped5' \in Nat
               /\ CorpusIsTheStream' /\ DetectorAhead'
               /\ Good(hour') /\ \A x \in Begins(hour') : x < clock
               /\ hour'.at <= detector'.begin \div S /\ hour.at <= hour'.at
               /\ hour'.at = detector.begin \div S /\ Fed' = Fed \cup {detector.begin}
               /\ out.kind \in {"none", "gap", "closed"}
               /\ out.kind # "none" => out.candle.begin \in Nat /\ out.candle \in Candles
               /\ out.kind = "closed" =>
                     out.candle.begin = hour'.at /\ (out.candle.begin + 1) * S <= clock
               /\ Resolved(hour', S, Fed',
                     In(log, "hour", "closed") \cup If(out.kind = "closed", {out.candle.begin}),
                     In(log, "hour", "gap") \cup If(out.kind = "gap", {out.candle.begin}))
<1> DEFINE out == Fold(hour, detector, SlotsPerHour).out
<1>1. /\ detector \in Candles /\ detector.begin \in Nat /\ clock \in Nat /\ warmed \in Nat
      /\ stepped5 \in Nat /\ corpus \in Seq(Candles) /\ Good(hour)
  BY DEF IInv, TypeOK, Candles
<1>2. /\ warmed <= stepped5 /\ stepped5 <= detector.begin
      /\ detector.begin = stepped5 => stepped5 = warmed
      /\ \A i \in DOMAIN corpus : corpus[i].begin <= stepped5
  BY DEF IInv, DetectorAhead
<1>3. ASSUME IsNew(detector)
      PROVE  /\ corpus' \in Seq(Candles) /\ stepped5' \in Nat
             /\ CorpusIsTheStream' /\ DetectorAhead' /\ Fed' = Fed \cup {detector.begin}
  <2>1. corpus' = Append(corpus, detector) /\ stepped5' = detector.begin
    BY <1>3 DEF StepIndicators
  <2>2. detector.begin > stepped5 /\ detector.begin # warmed
    BY <1>1, <1>2, <1>3 DEF IsNew
  <2>3. /\ DOMAIN corpus = 1 .. Len(corpus) /\ Len(corpus) \in Nat
        /\ DOMAIN corpus' = 1 .. Len(corpus) + 1
        /\ \A i \in DOMAIN corpus' :
              corpus'[i] = IF i \in DOMAIN corpus THEN corpus[i] ELSE detector
        /\ corpus' \in Seq(Candles)
    BY <1>1, <2>1
  <2>4. \A i \in DOMAIN corpus : corpus[i].begin \in Nat
    <3>1. \A i \in DOMAIN corpus : corpus[i] \in Candles
      BY <1>1
    <3> QED BY <3>1 DEF Candles
  <2>5. CorpusIsTheStream'
    <3>1. \A i \in DOMAIN corpus : corpus[i].begin > warmed
                /\ \A j \in DOMAIN corpus : i < j => corpus[i].begin < corpus[j].begin
      BY DEF IInv, CorpusIsTheStream
    <3> SUFFICES ASSUME NEW i \in DOMAIN corpus'
                 PROVE  /\ corpus'[i].begin > warmed
                        /\ \A j \in DOMAIN corpus' : i < j => corpus'[i].begin < corpus'[j].begin
      BY DEF CorpusIsTheStream
    <3>2. corpus'[i].begin > warmed
      BY <1>1, <1>2, <2>2, <2>3, <3>1
    <3>3. \A j \in DOMAIN corpus' : i < j => corpus'[i].begin < corpus'[j].begin
      <4> TAKE j \in DOMAIN corpus'
      <4> HAVE i < j
      <4>1. i \in DOMAIN corpus
        BY <2>3
      <4>2. CASE j \in DOMAIN corpus
        BY <2>3, <3>1, <4>1, <4>2
      <4>3. CASE j \notin DOMAIN corpus
        BY <1>1, <1>2, <2>2, <2>3, <2>4, <4>1, <4>3
      <4> QED BY <4>2, <4>3
    <3> QED BY <3>2, <3>3
  <2>6. DetectorAhead'
    <3>1. \A i \in DOMAIN corpus' : corpus'[i].begin <= stepped5'
      BY <1>1, <1>2, <2>1, <2>2, <2>3, <2>4
    <3> QED BY <1>1, <1>2, <2>1, <2>2, <3>1 DEF DetectorAhead
  <2>7. Fed' = Fed \cup {detector.begin}
    <3>1. {corpus'[i].begin : i \in DOMAIN corpus'}
            = {corpus[i].begin : i \in DOMAIN corpus} \cup {detector.begin}
      <4>1. Len(corpus) + 1 \in DOMAIN corpus' /\ Len(corpus) + 1 \notin DOMAIN corpus
            /\ DOMAIN corpus \subseteq DOMAIN corpus'
        BY <2>3
      <4> QED BY <2>3, <4>1
    <3>2. detector'.begin # warmed
      BY <1>1, <1>2
    <3> QED BY <2>2, <3>1, <3>2 DEF Fed
  <2> QED BY <1>1, <2>1, <2>3, <2>5, <2>6, <2>7
<1>4. ASSUME ~IsNew(detector)
      PROVE  /\ corpus' \in Seq(Candles) /\ stepped5' \in Nat
             /\ CorpusIsTheStream' /\ DetectorAhead' /\ Fed' = Fed \cup {detector.begin}
  <2>1. corpus' = corpus /\ stepped5' = stepped5
    BY <1>4 DEF StepIndicators
  <2>2. detector.begin = warmed /\ stepped5 = warmed
    BY <1>1, <1>2, <1>4 DEF IsNew
  <2>3. CorpusIsTheStream' /\ DetectorAhead'
    BY <1>1, <1>2, <2>1, <2>2 DEF IInv, CorpusIsTheStream, DetectorAhead
  <2>4. Fed' = Fed \cup {detector.begin}
    BY <1>1, <2>1, <2>2 DEF Fed
  <2> QED BY <1>1, <2>1, <2>3, <2>4
<1>5. /\ corpus' \in Seq(Candles) /\ stepped5' \in Nat
      /\ CorpusIsTheStream' /\ DetectorAhead' /\ Fed' = Fed \cup {detector.begin}
  BY <1>3, <1>4
<1>6. hour.at <= detector.begin \div S /\ detector.begin \div S \in Nat /\ S = SlotsPerHour
      /\ hour.at \in Int
  BY <1>1, Sizes, DivBounds DEF IInv, BucketsFollow, S, Good, Buckets
<1>7. /\ Good(hour') /\ out.kind \in {"none", "gap", "closed"}
      /\ out.kind # "none" => out.candle.begin \in Nat /\ out.candle \in Candles
      /\ out.kind = "closed" =>
            out.candle.begin = hour'.at /\ out.candle.begin * S + S - 1 \in Begins(hour')
      /\ Begins(hour') \subseteq Begins(hour) \cup {detector.begin}
  <2> DEFINE f == Fold(hour, detector, S)
  <2>1. /\ Good(f.bucket) /\ f.out.kind \in {"none", "gap", "closed"}
        /\ f.out.kind # "none" => f.out.candle.begin \in Nat /\ f.out.candle \in Candles
        /\ f.out.kind = "closed" => f.out.candle.begin = f.bucket.at
             /\ f.out.candle.begin * S + S - 1 \in Begins(f.bucket)
        /\ Begins(f.bucket) \subseteq Begins(hour) \cup {detector.begin}
    <3>1. S \in Nat \ {0}
      BY Sizes
    <3> QED BY <1>1, <3>1, FoldTypes, Zenon
  <2>2. hour' = f.bucket /\ out = f.out
    BY <1>6
  <2> HIDE DEF f, out
  <2> QED BY <2>1, <2>2
<1>8. hour'.at = detector.begin \div S
  <2>1. CASE detector.begin \div S > hour.at
    <3>1. Fold(hour, detector, S) = [bucket |-> [at |-> detector.begin \div S, candles |-> <<detector>>, emitted |-> FALSE], out |-> GapOrNone(hour, S)]
      BY <1>1, <2>1, Sizes, FoldRolls, Zenon
    <3> QED BY <1>6, <3>1
  <2>2. CASE detector.begin \div S = hour.at
    BY <1>1, <1>6, <2>2, Sizes, FoldGrows
  <2> QED BY <1>6, <2>1, <2>2
<1>9. \A x \in Begins(hour') : x < clock
  BY <1>1, <1>7 DEF IInv, FoldedHaveEnded
<1>10. hour'.at <= detector'.begin \div S /\ hour.at <= hour'.at
  <2>1. detector.begin \div S <= clock \div S
    BY <1>1, Sizes, DivMonotone
  <2> QED BY <1>6, <1>8, <2>1
<1>11. out.kind = "closed" => (out.candle.begin + 1) * S <= clock
  <2> SUFFICES ASSUME out.kind = "closed" PROVE (out.candle.begin + 1) * S <= clock
    OBVIOUS
  <2> DEFINE k == out.candle.begin
  <2>1. k \in Nat /\ k * S + S - 1 < clock
    BY <1>7, <1>9
  <2> HIDE DEF k
  <2>2. (k + 1) * S = k * S + S
    BY <2>1, Sizes, SMT
  <2>3. k * S \in Nat
    BY <2>1, Sizes, SMT
  <2>4. (k + 1) * S <= clock
    BY <1>1, <2>1, <2>2, <2>3, Sizes
  <2> QED BY <2>4 DEF k
<1>12. Resolved(hour', S, Fed',
                In(log, "hour", "closed") \cup If(out.kind = "closed", {out.candle.begin}),
                In(log, "hour", "gap") \cup If(out.kind = "gap", {out.candle.begin}))
  <2>1. Resolved(hour, S, Fed, In(log, "hour", "closed"), In(log, "hour", "gap"))
    BY DEF IInv, LevelsResolved
  <2> QED BY <1>1, <1>5, <1>6, <2>1, Sizes, FoldResolves
<1> QED BY <1>5, <1>7, <1>8, <1>9, <1>10, <1>11, <1>12

\* A heal is asked for in the present.
LEMMA AskTypes ==
    ASSUME IInv, clock' = clock, NEW what \in {"hour", "day"}, Ask(what) \/ UNCHANGED heals
    PROVE  /\ heals' \subseteq [what : {"hour", "day"}, asked : Nat]
           /\ \A heal \in heals' : heal.asked <= clock
<1>1. heals \subseteq [what : {"hour", "day"}, asked : Nat] /\ clock \in Nat
      /\ \A heal \in heals : heal.asked <= clock
  BY DEF IInv, TypeOK
<1> QED BY <1>1 DEF Ask

\* What the second stage does with a closed hour: the day and its decision.
LEMMA DayStage ==
    ASSUME IInv, clock' = clock, NEW h \in Candles, hour.at <= h.begin,
           (h.begin + 1) * S <= clock, AdvanceDecision(h)
    PROVE  /\ Good(day') /\ day'.at * H <= h.begin
           /\ \A x \in Begins(day') : (x + 1) * S <= clock
           /\ decision' \in Caches /\ Latest(decision') < clock \div (S * H)
           /\ entries' \subseteq Nat
           /\ heals' \subseteq [what : {"hour", "day"}, asked : Nat]
           /\ \A heal \in heals' : heal.asked <= clock
           /\ log' \subseteq [level : {"hour", "day"}, kind : {"closed", "gap"}, candle : Candles]
           /\ In(log', "hour", "closed") = In(log, "hour", "closed") \cup {h.begin}
           /\ In(log', "hour", "gap") = In(log, "hour", "gap")
           /\ In(log', "day", "closed") = In(log, "day", "closed")
                \cup If(Fold(day, h, H).out.kind = "closed", {Fold(day, h, H).out.candle.begin})
           /\ Resolved(day', H, In(log', "hour", "closed"),
                       In(log', "day", "closed"), In(log', "day", "gap"))
<1> DEFINE f == Fold(day, h, H)
<1> DEFINE out == f.out
<1> DEFINE this == [kind |-> "closed", candle |-> h]
<1>1. /\ h.begin \in Nat /\ clock \in Nat /\ Good(day) /\ day.at * H <= hour.at
      /\ day.at \in Int /\ day.at >= -1 /\ hour.at \in Int /\ hour.at >= -1
  BY DEF IInv, TypeOK, Candles, Good, Buckets, BucketsFollow
<1>2. /\ day' = f.bucket
      /\ log' = log \cup Event("hour", this) \cup Event("day", out)
      /\ IF out.kind = "closed" THEN Decide(out.candle.begin) ELSE UNCHANGED <<decision, entries>>
      /\ IF out.kind = "gap" THEN Ask("day") ELSE UNCHANGED heals
  BY DEF AdvanceDecision, H
<1>3. /\ Good(f.bucket) /\ out.kind \in {"none", "gap", "closed"}
      /\ out.kind # "none" => out.candle.begin \in Nat /\ out.candle \in Candles
      /\ out.kind = "closed" => out.candle.begin = f.bucket.at
           /\ out.candle.begin * H + H - 1 \in Begins(f.bucket)
      /\ Begins(f.bucket) \subseteq Begins(day) \cup {h.begin}
  <2>1. H \in Nat \ {0}
    BY Sizes
  <2> QED BY <1>1, <2>1, FoldTypes, Zenon
<1>4. h.begin \div H >= day.at /\ h.begin \div H \in Nat /\ (h.begin \div H) * H <= h.begin
  <2>1. (day.at - 1) + 1 = day.at
    BY <1>1
  <2>2. ((day.at - 1) + 1) * H <= h.begin
    BY <1>1, <2>1, Sizes
  <2>3. day.at - 1 < h.begin \div H
    BY <1>1, <2>2, Sizes, DivBelow
  <2>4. h.begin \div H \in Nat /\ (h.begin \div H) * H <= h.begin
    BY <1>1, Sizes, DivBounds
  <2> QED BY <1>1, <2>3, <2>4
<1>5. f.bucket.at = h.begin \div H
  <2>1. CASE h.begin \div H > day.at
    <3>1. f = [bucket |-> [at |-> h.begin \div H, candles |-> <<h>>, emitted |-> FALSE], out |-> GapOrNone(day, H)]
      BY <1>1, <2>1, Sizes, FoldRolls, Zenon
    <3> HIDE DEF f
    <3> QED BY <3>1
  <2>2. CASE h.begin \div H = day.at
    BY <1>1, <2>2, Sizes, FoldGrows
  <2> QED BY <1>1, <1>4, <2>1, <2>2
<1>6. Good(day') /\ day'.at * H <= h.begin
  BY <1>2, <1>3, <1>4, <1>5
<1>7. \A x \in Begins(day') : (x + 1) * S <= clock
  <2>1. \A x \in Begins(day) : (x + 1) * S <= clock
    BY DEF IInv, FoldedHaveEnded
  <2> HIDE DEF f
  <2> QED BY <1>2, <1>3, <2>1
<1>8. decision' \in Caches /\ Latest(decision') < clock \div (S * H) /\ entries' \subseteq Nat
  <2>1. decision \in Caches /\ Latest(decision) < clock \div (S * H) /\ entries \subseteq Nat
    BY DEF IInv, TypeOK, S, H
  <2>2. CASE out.kind # "closed" \/ decision = NoCache
    <3>1. UNCHANGED <<decision, entries>>
      BY <1>2, <2>2 DEF Decide
    <3> QED BY <2>1, <3>1
  <2>3. CASE out.kind = "closed" /\ decision # NoCache
    <3> DEFINE d == out.candle.begin
    <3>1. d \in Nat /\ d * H + H - 1 \in Begins(day')
      BY <1>2, <1>3, <2>3
    <3>2. decision' = Stepped(decision, d) /\ entries' \subseteq entries \cup {d}
      BY <1>2, <2>3 DEF Decide
    <3> HIDE DEF d
    <3>3. (d * H + H - 1 + 1) * S <= clock
      BY <1>7, <3>1
    <3>4. (d + 1) * (S * H) = (d * H + H - 1 + 1) * S
      <4>1. d * H \in Nat /\ (d + 1) * H = d * H + H
        BY <3>1, Sizes, SMT
      <4>2. d * H + H - 1 + 1 = (d + 1) * H
        BY <4>1, Sizes
      <4>3. (d + 1) * (S * H) = ((d + 1) * H) * S
        BY <3>1, Sizes, SMT
      <4> QED BY <4>2, <4>3
    <3>5. d < clock \div (S * H)
      <4>1. (d + 1) * (S * H) <= clock
        BY <3>3, <3>4
      <4>2. S * H \in Nat \ {0} /\ d \in Int
        BY <3>1, Sizes
      <4> QED BY <1>1, <4>1, <4>2, DivBelow
    <3>6. Stepped(decision, d) \in Caches /\ Latest(Stepped(decision, d)) = d
      BY <2>1, <3>1, SteppedTypes
    <3> QED BY <2>1, <3>1, <3>2, <3>5, <3>6
  <2> QED BY <2>2, <2>3
<1>9. /\ heals' \subseteq [what : {"hour", "day"}, asked : Nat]
      /\ \A heal \in heals' : heal.asked <= clock
  <2>1. Ask("day") \/ UNCHANGED heals
    BY <1>2
  <2> QED BY <2>1, AskTypes
<1> HIDE DEF f, out
<1>10. log' \subseteq [level : {"hour", "day"}, kind : {"closed", "gap"}, candle : Candles]
  <2>1. log \subseteq [level : {"hour", "day"}, kind : {"closed", "gap"}, candle : Candles]
    BY DEF IInv, TypeOK
  <2>2. Event("hour", this) \subseteq [level : {"hour", "day"}, kind : {"closed", "gap"}, candle : Candles]
    BY EventTypes
  <2>3. Event("day", out) \subseteq [level : {"hour", "day"}, kind : {"closed", "gap"}, candle : Candles]
    BY <1>3, EventTypes DEF out
  <2> QED BY <1>2, <2>1, <2>2, <2>3
<1> DEFINE first == Event("hour", this)
<1> DEFINE second == Event("day", out)
<1>11. ASSUME NEW l \in {"hour", "day"}, NEW k \in {"closed", "gap"}
       PROVE  In(log', l, k) = In(log, l, k)
                \cup If(l = "hour" /\ k = "closed", {h.begin})
                \cup If(l = "day" /\ out.kind = k, {out.candle.begin})
  <2>1. log' = (log \cup first) \cup second
    BY <1>2
  <2>2. this.kind = "closed" /\ this.candle.begin = h.begin
    OBVIOUS
  <2> HIDE DEF this
  <2>3. In(first, l, k) = If("hour" = l /\ this.kind = k, {this.candle.begin})
    BY EventSays
  <2>4. In(second, l, k) = If("day" = l /\ out.kind = k, {out.candle.begin})
    BY EventSays
  <2> HIDE DEF first, second
  <2>5. In((log \cup first) \cup second, l, k) = In(log \cup first, l, k) \cup In(second, l, k)
    BY LogGrows
  <2>6. In(log \cup first, l, k) = In(log, l, k) \cup In(first, l, k)
    BY LogGrows
  <2>7. In(log', l, k) = In((log \cup first) \cup second, l, k)
    BY <2>1
  <2> QED BY <2>2, <2>3, <2>4, <2>5, <2>6, <2>7 DEF If
<1>12. /\ In(log', "hour", "closed") = In(log, "hour", "closed") \cup {h.begin}
       /\ In(log', "hour", "gap") = In(log, "hour", "gap")
       /\ In(log', "day", "closed") = In(log, "day", "closed") \cup If(out.kind = "closed", {out.candle.begin})
       /\ In(log', "day", "gap") = In(log, "day", "gap") \cup If(out.kind = "gap", {out.candle.begin})
  BY <1>11 DEF If
<1>13. Resolved(day', H, In(log', "hour", "closed"), In(log', "day", "closed"), In(log', "day", "gap"))
  <2>1. Resolved(day, H, In(log, "hour", "closed"), In(log, "day", "closed"), In(log, "day", "gap"))
    BY DEF IInv, LevelsResolved
  <2>2. Resolved(Fold(day, h, H).bucket, H, In(log, "hour", "closed") \cup {h.begin},
          In(log, "day", "closed") \cup If(Fold(day, h, H).out.kind = "closed", {Fold(day, h, H).out.candle.begin}),
          In(log, "day", "gap") \cup If(Fold(day, h, H).out.kind = "gap", {Fold(day, h, H).out.candle.begin}))
    BY <1>1, <1>4, <2>1, Sizes, FoldResolves
  <2> QED BY <1>2, <1>12, <2>2 DEF f, out
<1>14. In(log', "day", "closed") = In(log, "day", "closed")
         \cup If(Fold(day, h, H).out.kind = "closed", {Fold(day, h, H).out.candle.begin})
  BY <1>12 DEF f, out
<1> QED BY <1>6, <1>7, <1>8, <1>9, <1>10, <1>12, <1>13, <1>14

\* The 1H cache after an hour that has ended: ordered, and behind the hour in progress.
LEMMA HtfStage ==
    ASSUME IInv, clock' = clock, NEW n \in Nat, (n + 1) * S <= clock,
           StepHtf(n) \/ UNCHANGED <<htf, stepped60>>
    PROVE  /\ htf' \in Caches /\ Latest(htf') < clock \div S /\ stepped60' \in Int
           /\ stepped60' = Latest(htf') /\ Ascending(htf')
<1>1. /\ htf \in Caches /\ Latest(htf) < clock \div S /\ stepped60 \in Int
      /\ stepped60 = Latest(htf) /\ Ascending(htf) /\ clock \in Nat
  BY DEF IInv, TypeOK, S
<1>2. CASE UNCHANGED <<htf, stepped60>>
  BY <1>1, <1>2
<1>3. CASE n > stepped60 /\ htf' = Stepped(htf, n) /\ stepped60' = n
  <2>1. n < clock \div S
    BY <1>1, Sizes, DivBelow
  <2>2. Stepped(htf, n) \in Caches /\ Latest(Stepped(htf, n)) = n
    BY <1>1, SteppedTypes
  <2>3. Ascending(Stepped(htf, n))
    BY <1>1, <1>3, SteppedAscends
  <2> QED BY <1>3, <2>1, <2>2, <2>3
<1> QED BY <1>2, <1>3 DEF StepHtf

\* A closed 5m candle, with all that on_ohlc_5m does, keeps the invariant.
LEMMA CloseStep ==
    ASSUME IInv, clock' = clock, warmed' = warmed,
           published' \in {"nothing", "part", "whole"}, down' \in BOOLEAN, missed' \in Nat,
           detector' \in Candles, detector'.begin = clock, detector.begin < clock,
           OnClose(detector)
    PROVE  IInv'
<1> DEFINE out == Fold(hour, detector, SlotsPerHour).out
<1>1. /\ StepIndicators(detector) /\ hour' = Fold(hour, detector, SlotsPerHour).bucket
  BY DEF OnClose
<1>2. /\ corpus' \in Seq(Candles) /\ stepped5' \in Nat
      /\ CorpusIsTheStream' /\ DetectorAhead'
      /\ Good(hour') /\ \A x \in Begins(hour') : x < clock
      /\ hour'.at <= detector'.begin \div S /\ hour.at <= hour'.at
      /\ out.kind \in {"none", "gap", "closed"}
      /\ out.kind # "none" => out.candle.begin \in Nat /\ out.candle \in Candles
      /\ out.kind = "closed" =>
            out.candle.begin = hour'.at /\ (out.candle.begin + 1) * S <= clock
      /\ Resolved(hour', S, Fed',
            In(log, "hour", "closed") \cup If(out.kind = "closed", {out.candle.begin}),
            In(log, "hour", "gap") \cup If(out.kind = "gap", {out.candle.begin}))
  BY <1>1, HourStage, Zenon
<1>3. \/ out.kind = "closed" /\ StepHtf(out.candle.begin) /\ AdvanceDecision(out.candle)
      \/ /\ out.kind = "gap" /\ log' = log \cup Event("hour", out) /\ Ask("hour")
         /\ UNCHANGED <<htf, stepped60, day, decision, entries>>
      \/ /\ out.kind = "none"
         /\ UNCHANGED <<htf, stepped60, day, decision, entries, log, heals>>
  BY DEF OnClose
<1> HIDE DEF out
<1> DEFINE Events == [level : {"hour", "day"}, kind : {"closed", "gap"}, candle : Candles]
<1>4. /\ htf \in Caches /\ Latest(htf) < clock \div S /\ stepped60 \in Int
      /\ stepped60 = Latest(htf) /\ Ascending(htf) /\ clock \in Nat /\ warmed \in Nat
      /\ decision \in Caches /\ Latest(decision) < clock \div (S * H)
      /\ Good(day) /\ day.at * H <= hour.at /\ \A x \in Begins(day) : (x + 1) * S <= clock
      /\ entries \subseteq Nat /\ log \subseteq Events
      /\ heals \subseteq [what : {"hour", "day"}, asked : Nat]
      /\ \A heal \in heals : heal.asked <= clock
      /\ Resolved(day, H, In(log, "hour", "closed"), In(log, "day", "closed"), In(log, "day", "gap"))
  BY DEF IInv, TypeOK, BucketsFollow, FoldedHaveEnded, LevelsResolved, S, H
<1>5. hour.at \in Int /\ hour'.at \in Int /\ day.at \in Int /\ H \in Nat
  BY <1>2, <1>4, Sizes DEF IInv, Good, Buckets
<1>6. /\ htf' \in Caches /\ Latest(htf') < clock \div S /\ stepped60' \in Int
      /\ stepped60' = Latest(htf') /\ Ascending(htf')
      /\ Good(day') /\ day'.at * H <= hour'.at
      /\ \A x \in Begins(day') : (x + 1) * S <= clock
      /\ decision' \in Caches /\ Latest(decision') < clock \div (S * H)
      /\ entries' \subseteq Nat /\ log' \subseteq Events
      /\ heals' \subseteq [what : {"hour", "day"}, asked : Nat]
      /\ \A heal \in heals' : heal.asked <= clock
      /\ Resolved(hour', S, Fed', In(log', "hour", "closed"), In(log', "hour", "gap"))
      /\ Resolved(day', H, In(log', "hour", "closed"), In(log', "day", "closed"), In(log', "day", "gap"))
  <2>1. CASE out.kind = "closed" /\ StepHtf(out.candle.begin) /\ AdvanceDecision(out.candle)
    <3> DEFINE h == out.candle
    <3>1. h \in Candles /\ h.begin \in Nat /\ h.begin = hour'.at /\ (h.begin + 1) * S <= clock
          /\ hour.at <= h.begin
      BY <1>2, <2>1
    <3>2. StepHtf(h.begin) /\ AdvanceDecision(h)
      BY <2>1
    <3>3. If(out.kind = "closed", {out.candle.begin}) = {h.begin}
          /\ If(out.kind = "gap", {out.candle.begin}) = {}
      BY <2>1 DEF If
    <3> HIDE DEF h
    <3>4. /\ htf' \in Caches /\ Latest(htf') < clock \div S /\ stepped60' \in Int
          /\ stepped60' = Latest(htf') /\ Ascending(htf')
      BY <3>1, <3>2, HtfStage
    <3>5. /\ Good(day') /\ day'.at * H <= h.begin
          /\ \A x \in Begins(day') : (x + 1) * S <= clock
          /\ decision' \in Caches /\ Latest(decision') < clock \div (S * H)
          /\ entries' \subseteq Nat
          /\ heals' \subseteq [what : {"hour", "day"}, asked : Nat]
          /\ \A heal \in heals' : heal.asked <= clock
          /\ log' \subseteq Events
          /\ In(log', "hour", "closed") = In(log, "hour", "closed") \cup {h.begin}
          /\ In(log', "hour", "gap") = In(log, "hour", "gap")
          /\ Resolved(day', H, In(log', "hour", "closed"),
                      In(log', "day", "closed"), In(log', "day", "gap"))
      BY <3>1, <3>2, DayStage, Zenon
    <3>6. Resolved(hour', S, Fed', In(log', "hour", "closed"), In(log', "hour", "gap"))
      <4>1. In(log, "hour", "gap") \cup {} = In(log', "hour", "gap")
        BY <3>5
      <4> QED BY <1>2, <3>3, <3>5, <4>1
    <3>7. day'.at * H <= hour'.at
      BY <3>1, <3>5
    <3> QED BY <3>4, <3>5, <3>6, <3>7
  <2>2. CASE /\ out.kind = "gap" /\ log' = log \cup Event("hour", out) /\ Ask("hour")
             /\ UNCHANGED <<htf, stepped60, day, decision, entries>>
    <3>1. /\ heals' \subseteq [what : {"hour", "day"}, asked : Nat]
          /\ \A heal \in heals' : heal.asked <= clock
      BY <2>2, AskTypes
    <3>2. log' \subseteq Events
      <4>1. Event("hour", out) \subseteq Events
        BY <1>2, EventTypes
      <4> QED BY <1>4, <2>2, <4>1
    <3>3. ASSUME NEW l \in {"hour", "day"}, NEW k \in {"closed", "gap"}
          PROVE  In(log', l, k) = In(log, l, k) \cup If(l = "hour" /\ k = "gap", {out.candle.begin})
      <4> DEFINE event == Event("hour", out)
      <4>1. In(event, l, k) = If("hour" = l /\ out.kind = k, {out.candle.begin})
        BY EventSays
      <4> HIDE DEF event
      <4>2. In(log \cup event, l, k) = In(log, l, k) \cup In(event, l, k)
        BY LogGrows
      <4>3. log' = log \cup event
        BY <2>2 DEF event
      <4> QED BY <2>2, <4>1, <4>2, <4>3 DEF If
    <3>4. /\ In(log', "hour", "closed") = In(log, "hour", "closed")
          /\ In(log', "day", "closed") = In(log, "day", "closed")
          /\ In(log', "day", "gap") = In(log, "day", "gap")
          /\ In(log', "hour", "gap") = In(log, "hour", "gap") \cup {out.candle.begin}
      BY <3>3 DEF If
    <3>5. Resolved(hour', S, Fed', In(log', "hour", "closed"), In(log', "hour", "gap"))
      <4>1. /\ In(log, "hour", "closed") \cup If(out.kind = "closed", {out.candle.begin})
                 = In(log', "hour", "closed")
            /\ In(log, "hour", "gap") \cup If(out.kind = "gap", {out.candle.begin})
                 = In(log', "hour", "gap")
        BY <2>2, <3>4 DEF If
      <4> QED BY <1>2, <4>1
    <3>6. day'.at * H <= hour'.at
      <4>1. day.at * H \in Int
        BY <1>5, SMT
      <4> QED BY <1>2, <1>4, <1>5, <2>2, <4>1
    <3> QED BY <1>4, <2>2, <3>1, <3>2, <3>4, <3>5, <3>6
  <2>3. CASE /\ out.kind = "none"
             /\ UNCHANGED <<htf, stepped60, day, decision, entries, log, heals>>
    <3>1. Resolved(hour', S, Fed', In(log, "hour", "closed"), In(log, "hour", "gap"))
      <4>1. /\ In(log, "hour", "closed") \cup If(out.kind = "closed", {out.candle.begin})
                 = In(log, "hour", "closed")
            /\ In(log, "hour", "gap") \cup If(out.kind = "gap", {out.candle.begin})
                 = In(log, "hour", "gap")
        BY <2>3 DEF If
      <4> QED BY <1>2, <4>1
    <3>2. day'.at * H <= hour'.at
      <4>1. day.at * H \in Int
        BY <1>5, SMT
      <4> QED BY <1>2, <1>4, <1>5, <2>3, <4>1
    <3> QED BY <1>4, <2>3, <3>1, <3>2
  <2> QED BY <1>3, <2>1, <2>2, <2>3
<1>7. TypeOK'
  BY <1>2, <1>4, <1>6 DEF TypeOK, Good, S, H
<1>8. FoldedHaveEnded' /\ BucketsFollow' /\ LevelsResolved'
  BY <1>2, <1>6 DEF FoldedHaveEnded, BucketsFollow, LevelsResolved
<1> QED BY <1>2, <1>6, <1>7, <1>8 DEF IInv

-----------------------------------------------------------------------------
(* Every step. *)

\* Nothing of the chain but the detector changes.
LEMMA StillInv ==
    ASSUME IInv,
           UNCHANGED <<warmed, stepped5, corpus, hour, day, entries, log, htf, stepped60,
                       decision, heals>>,
           clock' \in Nat, clock <= clock',
           published' \in {"nothing", "part", "whole"}, down' \in BOOLEAN, missed' \in Nat,
           detector' \in Candles, detector'.begin = detector.begin
    PROVE  IInv'
<1>1. clock \in Nat /\ detector.begin \in Nat /\ detector.begin <= clock
  BY DEF IInv, TypeOK, Candles
<1>2. /\ clock \div S \in Nat /\ clock' \div S \in Nat /\ clock \div S <= clock' \div S
      /\ clock \div (S * H) \in Nat /\ clock' \div (S * H) \in Nat
      /\ clock \div (S * H) <= clock' \div (S * H)
  BY <1>1, Sizes, DivBounds, DivMonotone
<1>3. Latest(htf) \in Int /\ Latest(decision) \in Int
  <2>1. ASSUME NEW x \in Caches PROVE Latest(x) \in Int
    <3>1. x.base \in Int /\ x.steps \in Seq(Nat)
      BY DEF Caches
    <3>2. x.steps # <<>> => x.steps[Len(x.steps)] \in Nat
      BY <3>1
    <3> QED BY <3>1, <3>2 DEF Latest
  <2> QED BY <2>1 DEF IInv, TypeOK
<1>4. Latest(htf') < clock' \div S /\ Latest(decision') < clock' \div (S * H)
  BY <1>2, <1>3 DEF IInv, TypeOK, S, H
<1>5. TypeOK'
  BY <1>1, <1>4 DEF IInv, TypeOK, S, H
<1>6. FoldedHaveEnded'
  <2>1. \A x \in Begins(hour) : x < clock /\ x \in Int
    <3>1. hour.candles \in Seq(Candles)
      BY DEF IInv, Good, Buckets
    <3>2. \A j \in DOMAIN hour.candles : hour.candles[j] \in Candles
      BY <3>1
    <3> QED BY <3>2 DEF IInv, FoldedHaveEnded, Begins, Candles
  <2>2. \A x \in Begins(day) : (x + 1) * S <= clock /\ (x + 1) * S \in Int
    <3>1. day.candles \in Seq(Candles)
      BY DEF IInv, Good, Buckets
    <3>2. \A j \in DOMAIN day.candles : day.candles[j] \in Candles
      BY <3>1
    <3>3. \A x \in Begins(day) : x \in Nat
      BY <3>2 DEF Begins, Candles
    <3>4. \A x \in Nat : (x + 1) * S \in Int
      BY Sizes, SMT
    <3> QED BY <3>3, <3>4 DEF IInv, FoldedHaveEnded
  <2>3. hour' = hour /\ day' = day
    OBVIOUS
  <2> QED BY <1>1, <2>1, <2>2, <2>3 DEF FoldedHaveEnded
<1>7. BucketsFollow' /\ DetectorAhead' /\ CorpusIsTheStream' /\ LevelsResolved'
  <2>1. Fed' = Fed
    BY DEF Fed
  <2> QED BY <2>1 DEF IInv, BucketsFollow, DetectorAhead, CorpusIsTheStream, LevelsResolved
<1>8. \A heal \in heals' : heal.asked <= clock'
  BY <1>1 DEF IInv, TypeOK
<1> QED BY <1>5, <1>6, <1>7, <1>8 DEF IInv

\* A frame, handled or lost, keeps the invariant.
LEMMA FrameStep ==
    ASSUME IInv, NEW whole \in BOOLEAN, Frame(whole)
    PROVE  IInv'
<1>1. /\ clock' = clock /\ down' = down /\ missed' = missed /\ warmed' = warmed
      /\ published' \in {"part", "whole"}
  BY DEF Frame
<1>2. clock \in Nat /\ down \in BOOLEAN /\ missed \in Nat /\ detector \in Candles
      /\ detector.begin \in Nat /\ detector.begin <= clock
  BY DEF IInv, TypeOK, Candles
<1> DEFINE c == [begin |-> clock, whole |-> whole]
<1>3. c \in Candles /\ c.begin = clock
  BY <1>2 DEF Candles
<1>4. CASE down
  <2>1. UNCHANGED <<chain, heals>>
    BY <1>4 DEF Frame
  <2> QED BY <1>1, <1>2, <2>1, StillInv DEF chain
<1>5. CASE ~down
  <2>1. Observe(c)
    BY <1>5 DEF Frame
  <2>2. detector' = c
    BY <2>1 DEF Observe
  <2> HIDE DEF c
  <2>3. CASE c.begin = detector.begin
    <3>1. UNCHANGED <<stepped5, corpus, hour, day, htf, stepped60, decision, entries, log, heals>>
      BY <2>1, <2>3 DEF Observe
    <3> QED BY <1>1, <1>2, <1>3, <2>2, <2>3, <3>1, StillInv
  <2>4. CASE c.begin # detector.begin
    <3>1. OnClose(detector)
      BY <2>1, <2>4 DEF Observe
    <3>2. detector.begin < clock
      BY <1>2, <1>3, <2>4
    <3> QED BY <1>1, <1>2, <1>3, <2>2, <3>1, <3>2, CloseStep
  <2> QED BY <2>3, <2>4
<1> QED BY <1>2, <1>4, <1>5

\* A heal that answers, or fails, keeps the invariant.
LEMMA HealStep ==
    ASSUME IInv, NEW heal \in heals, HealHtf(heal) \/ HealDecision(heal)
    PROVE  IInv'
<1>1. /\ heals' = heals \ {heal}
      /\ UNCHANGED <<clock, published, down, missed, warmed, detector, stepped5, corpus,
                     hour, day, entries, log>>
  BY DEF HealHtf, HealDecision, Answer
<1>2. clock \in Nat /\ heal.asked \in Nat
  BY DEF IInv, TypeOK
<1>3. /\ htf \in Caches /\ Latest(htf) < clock \div S /\ stepped60 \in Int
      /\ stepped60 = Latest(htf) /\ Ascending(htf)
      /\ decision \in Caches /\ Latest(decision) < clock \div (S * H)
  BY DEF IInv, TypeOK, S, H
<1>4. \A t \in heal.asked .. clock :
         /\ [base |-> CompleteHours(t), steps |-> <<>>] \in Caches
         /\ [base |-> CompleteDays(t), steps |-> <<>>] \in Caches
         /\ Latest([base |-> CompleteHours(t), steps |-> <<>>]) = t \div S - 1
         /\ Latest([base |-> CompleteDays(t), steps |-> <<>>]) = t \div (S * H) - 1
         /\ Ascending([base |-> CompleteHours(t), steps |-> <<>>])
         /\ t \div S - 1 < clock \div S /\ t \div (S * H) - 1 < clock \div (S * H)
         /\ CompleteHours(t) = t \div S - 1 /\ t \div S - 1 \in Int
  <2> TAKE t \in heal.asked .. clock
  <2>1. t \in Nat /\ t <= clock
    BY <1>2
  <2>2. /\ t \div S \in Nat /\ clock \div S \in Nat /\ t \div S <= clock \div S
        /\ t \div (S * H) \in Nat /\ clock \div (S * H) \in Nat
        /\ t \div (S * H) <= clock \div (S * H)
    BY <1>2, <2>1, Sizes, DivBounds, DivMonotone
  <2>3. CompleteHours(t) = t \div S - 1
    BY DEF CompleteHours, S
  <2>4. t \div S - 1 < clock \div S /\ t \div (S * H) - 1 < clock \div (S * H) /\ t \div S - 1 \in Int
    BY <2>2
  <2> QED BY <2>1, <2>3, <2>4, CompleteTypes, Zenon
<1>5. /\ htf' \in Caches /\ Latest(htf') < clock \div S /\ stepped60' \in Int
      /\ stepped60' = Latest(htf') /\ Ascending(htf')
      /\ decision' \in Caches /\ Latest(decision') < clock \div (S * H)
  <2>1. CASE HealHtf(heal)
    <3>1. decision' = decision
      BY <2>1 DEF HealHtf
    <3>2. CASE UNCHANGED <<htf, stepped60>>
      BY <1>3, <3>1, <3>2
    <3>3. ASSUME NEW t \in heal.asked .. clock,
                 htf' = [base |-> CompleteHours(t), steps |-> <<>>],
                 stepped60' = CompleteHours(t)
          PROVE  /\ htf' \in Caches /\ Latest(htf') < clock \div S /\ stepped60' \in Int
                 /\ stepped60' = Latest(htf') /\ Ascending(htf')
      BY <1>4, <3>3
    <3> QED BY <1>3, <2>1, <3>1, <3>2, <3>3 DEF HealHtf
  <2>2. CASE HealDecision(heal)
    <3>1. UNCHANGED <<htf, stepped60>>
      BY <2>2 DEF HealDecision
    <3>2. CASE UNCHANGED decision
      BY <1>3, <3>1, <3>2
    <3>3. ASSUME NEW t \in heal.asked .. clock,
                 decision' = [base |-> CompleteDays(t), steps |-> <<>>]
          PROVE  decision' \in Caches /\ Latest(decision') < clock \div (S * H)
      BY <1>4, <3>3
    <3> QED BY <1>3, <2>2, <3>1, <3>2, <3>3 DEF HealDecision
  <2> QED BY <2>1, <2>2
<1>6. TypeOK'
  BY <1>1, <1>5 DEF IInv, TypeOK, S, H
<1>7. FoldedHaveEnded' /\ BucketsFollow' /\ DetectorAhead' /\ CorpusIsTheStream' /\ LevelsResolved'
  <2>1. Fed' = Fed
    BY <1>1 DEF Fed
  <2> QED BY <1>1, <2>1
      DEF IInv, FoldedHaveEnded, BucketsFollow, DetectorAhead, CorpusIsTheStream, LevelsResolved
<1> QED BY <1>1, <1>5, <1>6, <1>7 DEF IInv

\* Every step keeps the invariant.
LEMMA StepInv == IInv /\ [Next]_vars => IInv'
<1> SUFFICES ASSUME IInv, [Next]_vars PROVE IInv'
  OBVIOUS
<1>1. /\ clock \in Nat /\ published \in {"nothing", "part", "whole"} /\ down \in BOOLEAN
      /\ missed \in Nat /\ detector \in Candles
  BY DEF IInv, TypeOK
<1>2. ASSUME NEW whole \in BOOLEAN, Frame(whole) PROVE IInv'
  BY <1>2, FrameStep
<1>3. ASSUME NEW heal \in heals, HealHtf(heal) \/ HealDecision(heal) PROVE IInv'
  BY <1>3, HealStep
<1>4. CASE Tick
  <2>1. /\ clock' = clock + 1 /\ published' = "nothing" /\ missed' \in {missed, missed + 1}
        /\ UNCHANGED <<down, heals, warmed, chain>>
    BY <1>4 DEF Tick
  <2>2. clock' \in Nat /\ clock <= clock' /\ missed' \in Nat
    BY <1>1, <2>1
  <2> QED BY <1>1, <2>1, <2>2, StillInv DEF chain
<1>5. CASE Drop
  BY <1>1, <1>5, StillInv DEF Drop, chain
<1>6. CASE Restore
  <2>1. /\ down' = FALSE
        /\ UNCHANGED <<clock, published, missed, heals, warmed, chain>>
    BY <1>6 DEF Restore
  <2>2. down' \in BOOLEAN
    BY <2>1
  <2>3. clock' = clock
    BY <2>1
  <2>4. clock <= clock'
    BY <1>1, <2>3
  <2> QED BY <1>1, <2>1, <2>2, <2>4, StillInv DEF chain
<1>7. CASE UNCHANGED vars
  BY <1>1, <1>7, StillInv DEF vars, chain
<1> QED BY <1>2, <1>3, <1>4, <1>5, <1>6, <1>7 DEF Next

-----------------------------------------------------------------------------
(* The bars that were seen whole. *)

HoursClosed == In(log, "hour", "closed")

\* What was closed is over.
ClosedHaveEnded == \A h \in HoursClosed : (h + 1) * S <= clock

\* A bar is counted from the candle that makes it whole on.
HoursSeen == \A h \in Nat : Slots(h, S) \subseteq Fed => Counts(htf, h)
DaysSeen == decision # NoCache => \A d \in Nat : Slots(d, H) \subseteq HoursClosed => Counts(decision, d)

StepsClosed == \A i \in DOMAIN htf.steps : htf.steps[i] \in HoursClosed

\* No day in progress is counted while its last hour can still close.
DecisionBehind == Latest(decision) < detector.begin \div (S * H) \/ hour.at < detector.begin \div S

\* A REST answer comes within a slot of its question, and the bar that was
\* closing then is one that was not seen whole.
HealInTime(heal) ==
    /\ clock <= heal.asked + 1 /\ heal.asked <= detector.begin
    /\ heal.what = "hour" =>
         \A h \in Nat : (h + 1) * S = heal.asked + 1 => ~(Slots(h, S) \ {heal.asked} \subseteq Fed)
    /\ heal.what = "day" =>
         /\ hour.at < detector.begin \div S \/ (heal.asked < clock /\ detector.begin = clock)
         /\ \A h \in HoursClosed : (h + 1) * S <= heal.asked

EntriesClosed == entries \subseteq In(log, "day", "closed")

BucketsFilled == Filled(hour, S, Fed) /\ Filled(day, H, HoursClosed)

JInv ==
    /\ BucketsFilled /\ ClosedHaveEnded
    /\ HoursSeen /\ StepsClosed
    /\ DaysSeen /\ Ascending(decision) /\ DecisionBehind
    /\ \A heal \in heals : HealInTime(heal)
    /\ EntriesClosed /\ EntersOnTheCross

\* The steps of a cache in order: it counts nothing past its latest.
LEMMA CountsUpToLatest ==
    ASSUME NEW x \in Caches, Ascending(x), NEW n \in Int, Counts(x, n)
    PROVE  n <= Latest(x)
<1>1. x.base \in Int /\ x.steps \in Seq(Nat) /\ DOMAIN x.steps = 1 .. Len(x.steps) /\ Len(x.steps) \in Nat
  BY DEF Caches
<1>2. CASE x.steps = <<>>
  <2>1. DOMAIN x.steps = {}
    BY <1>2
  <2> QED BY <1>2, <2>1 DEF Counts, Latest
<1>3. CASE x.steps # <<>>
  <2> DEFINE k == Len(x.steps)
  <2>1. k \in DOMAIN x.steps /\ x.steps[k] \in Nat /\ Latest(x) = x.steps[k] /\ x.base < x.steps[k]
    BY <1>1, <1>3 DEF Latest, Ascending
  <2>2. ASSUME NEW i \in DOMAIN x.steps PROVE x.steps[i] <= x.steps[k]
    <3>1. i \in 1 .. Len(x.steps) /\ x.steps[i] \in Nat
      BY <1>1
    <3>2. CASE i = k
      BY <2>1, <3>2
    <3>3. CASE i # k
      <4>1. i < k
        BY <1>1, <3>1, <3>3
      <4>2. x.steps[i] < x.steps[k]
        BY <2>1, <4>1 DEF Ascending
      <4> QED BY <2>1, <3>1, <4>2
    <3> QED BY <3>2, <3>3
  <2> HIDE DEF k
  <2> QED BY <1>1, <2>1, <2>2 DEF Counts
<1> QED BY <1>2, <1>3

\* What a stepped cache counts.
LEMMA SteppedCounts ==
    ASSUME NEW x \in Caches, NEW n \in Nat, NEW k
    PROVE  Counts(Stepped(x, n), k) <=> Counts(x, k) \/ k = n
<1> DEFINE y == Stepped(x, n)
<1>1. y.base = x.base /\ y.steps = Append(x.steps, n) /\ x.steps \in Seq(Nat)
  BY SteppedTypes
<1> HIDE DEF y
<1>2. /\ DOMAIN y.steps = 1 .. Len(x.steps) + 1 /\ DOMAIN x.steps = 1 .. Len(x.steps)
      /\ Len(x.steps) \in Nat
  BY <1>1
<1>3. \A i \in DOMAIN y.steps : y.steps[i] = IF i \in DOMAIN x.steps THEN x.steps[i] ELSE n
  BY <1>1, <1>2
<1>4. Len(x.steps) + 1 \in DOMAIN y.steps /\ Len(x.steps) + 1 \notin DOMAIN x.steps
      /\ DOMAIN x.steps \subseteq DOMAIN y.steps
  BY <1>2
<1>5. (\E i \in DOMAIN y.steps : y.steps[i] = k) <=> (\E i \in DOMAIN x.steps : x.steps[i] = k) \/ k = n
  BY <1>3, <1>4
<1> QED BY <1>1, <1>5 DEF Counts, y

\* What has been fed is behind the candle in progress.
LEMMA FedBehind ==
    ASSUME IInv
    PROVE  \A x \in Fed : x \in Nat /\ x < detector.begin /\ x \div S <= hour.at
<1>1. \A x \in Fed : x \in Nat /\ x \div S <= hour.at
  BY DEF IInv, LevelsResolved, Resolved
<1>2. stepped5 \in Nat /\ detector.begin \in Nat /\ warmed \in Nat
  BY DEF IInv, TypeOK, Candles
<1>3. \A i \in DOMAIN corpus : corpus[i].begin > warmed /\ corpus[i].begin <= stepped5
  BY DEF IInv, CorpusIsTheStream, DetectorAhead
<1>4. warmed <= stepped5 /\ stepped5 <= detector.begin
      /\ (detector.begin = stepped5 => stepped5 = warmed)
  BY DEF IInv, DetectorAhead
<1>5. ASSUME NEW x \in Fed PROVE x < detector.begin
  <2>1. x \in Nat
    BY <1>1
  <2>2. CASE x = warmed /\ detector.begin # warmed
    BY <1>2, <1>4, <2>2
  <2>3. CASE \E i \in DOMAIN corpus : x = corpus[i].begin
    <3>1. x > warmed /\ x <= stepped5
      BY <1>3, <2>3
    <3> QED BY <1>2, <1>4, <2>1, <3>1
  <2> QED BY <2>2, <2>3 DEF Fed
<1> QED BY <1>1, <1>5

\* The start: nothing is seen yet.
LEMMA InitSeen == Init => JInv
<1> SUFFICES ASSUME Init PROVE JInv
  OBVIOUS
<1>1. /\ hour = NoBucket /\ day = NoBucket /\ corpus = <<>> /\ log = {} /\ heals = {} /\ entries = {}
      /\ detector = [begin |-> warmed, whole |-> TRUE]
  BY DEF Init
<1>2. Fed = {} /\ \A l, k : In(log, l, k) = {}
  <2>1. DOMAIN corpus = {}
    BY <1>1
  <2> QED BY <1>1, <2>1 DEF Fed, In
<1>3. hour.at = -1 /\ day.at = -1 /\ -1 \notin Nat
  BY <1>1 DEF NoBucket
<1>4. DOMAIN htf.steps = {} /\ DOMAIN decision.steps = {}
  <2>1. htf.steps = <<>> /\ decision.steps = <<>>
    BY DEF Init, NoCache
  <2> QED BY <2>1
<1>5. detector.begin \div S \in Nat
  <2>1. warmed \in Nat
    BY CandleAssumption DEF Init
  <2> QED BY <1>1, <2>1, Sizes, DivBounds
<1>6. ASSUME NEW k \in Nat, NEW n \in Nat \ {0} PROVE ~(Slots(k, n) \subseteq {})
  <2>1. k * n \in Nat
    BY SMT
  <2>2. k * n \in Slots(k, n)
    BY <2>1 DEF Slots
  <2> QED BY <2>2
<1>7. BucketsFilled /\ ClosedHaveEnded
  BY <1>2, <1>3 DEF BucketsFilled, Filled, ClosedHaveEnded, HoursClosed
<1>8. HoursSeen /\ DaysSeen
  <2>1. S \in Nat \ {0} /\ H \in Nat \ {0}
    BY Sizes
  <2> QED BY <1>2, <1>6, <2>1 DEF HoursSeen, DaysSeen, HoursClosed
<1>9. StepsClosed /\ Ascending(decision) /\ EntersOnTheCross
  BY <1>4 DEF StepsClosed, Ascending, EntersOnTheCross
<1>10. DecisionBehind /\ EntriesClosed
  BY <1>1, <1>3, <1>5 DEF DecisionBehind, EntriesClosed
<1> QED BY <1>1, <1>7, <1>8, <1>9, <1>10 DEF JInv

\* Time passes, or nothing does.
LEMMA StillSeen ==
    ASSUME IInv, JInv,
           UNCHANGED <<warmed, corpus, hour, day, entries, log, htf, decision, trend>>,
           heals' \subseteq heals,
           clock' = clock \/ (clock' = clock + 1 /\ \A heal \in heals : heal.asked = clock),
           detector'.begin = detector.begin
    PROVE  JInv'
<1>1. clock \in Nat /\ clock <= clock' /\ clock' \in Nat /\ detector.begin <= clock
  BY DEF IInv, TypeOK
<1>2. Fed' = Fed /\ HoursClosed' = HoursClosed
  BY DEF Fed, HoursClosed
<1>3. BucketsFilled' /\ HoursSeen' /\ StepsClosed' /\ DaysSeen' /\ Ascending(decision')
      /\ DecisionBehind' /\ EntriesClosed' /\ EntersOnTheCross'
  BY <1>2 DEF JInv, BucketsFilled, HoursSeen, StepsClosed, DaysSeen, DecisionBehind, EntriesClosed,
              EntersOnTheCross
<1>4. ClosedHaveEnded'
  <2>1. \A h \in HoursClosed : h \in Nat
    <3>1. \A e \in log : e.candle.begin \in Nat
      BY DEF IInv, TypeOK, Candles
    <3> QED BY <3>1 DEF HoursClosed, In
  <2>2. \A h \in Nat : (h + 1) * S \in Nat
    BY Sizes, SMT
  <2> QED BY <1>1, <1>2, <2>1, <2>2 DEF JInv, ClosedHaveEnded
<1>5. ASSUME NEW heal \in heals' PROVE HealInTime(heal)'
  <2>1. heal \in heals /\ heal.asked \in Nat /\ heal.asked <= clock
    BY DEF IInv, TypeOK
  <2>2. HealInTime(heal)
    BY <2>1 DEF JInv
  <2>3. clock' <= heal.asked + 1
    BY <1>1, <2>1, <2>2 DEF HealInTime
  <2>4. (heal.asked < clock /\ detector.begin = clock) =>
            (heal.asked < clock' /\ detector.begin = clock')
    BY <1>1, <2>1
  <2> QED BY <1>2, <2>2, <2>3, <2>4 DEF HealInTime
<1> QED BY <1>3, <1>4, <1>5 DEF JInv

\* A heal seeds the cache with every bar that was seen whole.
LEMMA HealSeen ==
    ASSUME IInv, JInv, NEW heal \in heals, HealHtf(heal) \/ HealDecision(heal)
    PROVE  JInv'
<1>1. /\ heals' \subseteq heals
      /\ UNCHANGED <<clock, warmed, detector, corpus, hour, day, entries, log, trend>>
  BY DEF HealHtf, HealDecision, Answer
<1>2. /\ clock \in Nat /\ heal.asked \in Nat /\ heal.asked <= clock /\ detector.begin \in Nat
      /\ detector.begin <= clock
  BY DEF IInv, TypeOK, Candles
<1>3. HealInTime(heal) /\ clock <= heal.asked + 1 /\ heal.asked <= detector.begin
  BY DEF JInv, HealInTime
<1>4. Fed' = Fed /\ HoursClosed' = HoursClosed
  BY <1>1 DEF Fed, HoursClosed
<1>5. BucketsFilled' /\ ClosedHaveEnded' /\ EntriesClosed' /\ \A other \in heals' : HealInTime(other)'
  BY <1>1, <1>4 DEF JInv, BucketsFilled, ClosedHaveEnded, EntriesClosed, HealInTime
<1>6. CASE HealHtf(heal)
  <2>1. decision' = decision /\ heal.what = "hour"
    BY <1>6 DEF HealHtf
  <2>2. DaysSeen' /\ Ascending(decision') /\ DecisionBehind' /\ EntersOnTheCross'
    BY <1>1, <1>4, <2>1 DEF JInv, DaysSeen, DecisionBehind, EntersOnTheCross
  <2>3. CASE htf' = htf
    BY <1>4, <1>5, <2>2, <2>3 DEF JInv, HoursSeen, StepsClosed
  <2>4. ASSUME NEW t \in heal.asked .. clock, htf' = [base |-> CompleteHours(t), steps |-> <<>>]
        PROVE  JInv'
    <3>1. t \in Nat /\ heal.asked <= t
      BY <1>2
    <3>2. htf'.base = t \div S - 1 /\ htf'.steps = <<>> /\ t \div S \in Nat
      BY <2>4, <3>1, Sizes, DivBounds DEF CompleteHours, S
    <3>3. ASSUME NEW h \in Nat, Slots(h, S) \subseteq Fed
          PROVE  h < t \div S
      <4>1. h * S \in Nat /\ (h + 1) * S = h * S + S /\ (h + 1) * S \in Nat /\ S \in Nat /\ S > 1
        BY Sizes, SMT
      <4>2. h * S + S - 1 \in Fed
        BY <3>3, <4>1 DEF Slots
      <4>3. (h + 1) * S <= heal.asked + 1
        BY <1>2, <1>3, <4>1, <4>2, FedBehind
      <4>4. (h + 1) * S # heal.asked + 1
        BY <1>3, <2>1, <3>3 DEF HealInTime
      <4>5. (h + 1) * S <= t
        BY <1>2, <3>1, <4>1, <4>3, <4>4
      <4> QED BY <3>1, <4>5, Sizes, DivBelow
    <3>4. HoursSeen'
      <4> SUFFICES ASSUME NEW h \in Nat, Slots(h, S) \subseteq Fed' PROVE Counts(htf', h)
        BY DEF HoursSeen
      <4>1. h < t \div S
        BY <1>4, <3>3
      <4> QED BY <3>2, <4>1 DEF Counts
    <3>5. StepsClosed'
      <4>1. DOMAIN htf'.steps = {}
        BY <3>2
      <4> QED BY <4>1 DEF StepsClosed
    <3> QED BY <1>5, <2>2, <3>4, <3>5 DEF JInv
  <2> QED BY <1>6, <2>3, <2>4 DEF HealHtf
<1>7. CASE HealDecision(heal)
  <2>1. htf' = htf /\ heal.what = "day"
    BY <1>7 DEF HealDecision
  <2>2. HoursSeen' /\ StepsClosed'
    BY <1>4, <2>1 DEF JInv, HoursSeen, StepsClosed
  <2>3. CASE decision' = decision
    BY <1>1, <1>4, <1>5, <2>2, <2>3 DEF JInv, DaysSeen, DecisionBehind, EntersOnTheCross
  <2>4. ASSUME NEW t \in heal.asked .. clock, decision' = [base |-> CompleteDays(t), steps |-> <<>>]
        PROVE  JInv'
    <3>1. t \in Nat /\ heal.asked <= t /\ t <= clock
      BY <1>2
    <3>2. /\ decision'.base = t \div (S * H) - 1 /\ decision'.steps = <<>> /\ t \div (S * H) \in Nat
          /\ Latest(decision') = t \div (S * H) - 1
      BY <2>4, <3>1, Sizes, DivBounds DEF CompleteDays, Latest, S, H
    <3>3. DOMAIN decision'.steps = {}
      BY <3>2
    <3>4. ASSUME NEW d \in Nat, Slots(d, H) \subseteq HoursClosed
          PROVE  d < t \div (S * H)
      <4> DEFINE x == d * H + H - 1
      <4>1. x \in Nat /\ x \in Slots(d, H) /\ x + 1 = (d + 1) * H
        <5>1. d * H \in Nat /\ (d + 1) * H = d * H + H /\ H \in Nat /\ H > 1
          BY Sizes, SMT
        <5> QED BY <5>1 DEF Slots
      <4> HIDE DEF x
      <4>2. (x + 1) * S <= heal.asked
        BY <1>3, <2>1, <3>4, <4>1 DEF HealInTime
      <4>3. (d + 1) * (S * H) = ((d + 1) * H) * S
        BY Sizes, SMT
      <4>4. (d + 1) * (S * H) <= t
        <5>1. (d + 1) * (S * H) \in Nat
          BY Sizes, SMT
        <5> QED BY <1>2, <3>1, <4>1, <4>2, <4>3, <5>1
      <4> QED BY <3>1, <4>4, Sizes, DivBelow
    <3>5. DaysSeen'
      <4> SUFFICES ASSUME NEW d \in Nat, Slots(d, H) \subseteq HoursClosed' PROVE Counts(decision', d)
        BY DEF DaysSeen
      <4>1. d < t \div (S * H)
        BY <1>4, <3>4
      <4> QED BY <3>2, <4>1 DEF Counts
    <3>6. Ascending(decision') /\ EntersOnTheCross'
      BY <3>3 DEF Ascending, EntersOnTheCross
    <3>7. DecisionBehind'
      <4>1. CASE hour.at < detector.begin \div S
        BY <1>1, <4>1 DEF DecisionBehind
      <4>2. CASE detector.begin = clock
        <5>1. t \div (S * H) <= clock \div (S * H) /\ clock \div (S * H) \in Nat
          BY <1>2, <3>1, Sizes, DivMonotone, DivBounds
        <5>2. Latest(decision') < clock \div (S * H)
          BY <3>2, <5>1
        <5> QED BY <1>1, <4>2, <5>2 DEF DecisionBehind
      <4> QED BY <1>3, <2>1, <4>1, <4>2 DEF HealInTime
    <3> QED BY <1>5, <2>2, <3>5, <3>6, <3>7 DEF JInv
  <2> QED BY <1>7, <2>3, <2>4 DEF HealDecision
<1> QED BY <1>6, <1>7

\* The decision after a day that has closed live: one more day, in order, and
\* the gates run on its cross.
LEMMA DecideSeen ==
    ASSUME IInv, JInv, trend' = trend, NEW d \in Nat, decision # NoCache, Decide(d),
           d > Latest(decision), d \notin entries
    PROVE  /\ decision' = Stepped(decision, d) /\ entries' \subseteq entries \cup {d}
           /\ Ascending(decision') /\ EntersOnTheCross'
<1>1. /\ decision' = Stepped(decision, d)
      /\ entries' = IF Crosses(decision, Stepped(decision, d)) THEN entries \cup {d} ELSE entries
  BY DEF Decide
<1>2. decision \in Caches /\ Ascending(decision)
  BY DEF IInv, TypeOK, JInv
<1>3. Ascending(decision') /\ Latest(decision') = d
  BY <1>1, <1>2, SteppedAscends, SteppedTypes
<1>4. Latest(decision) \in Int
  <2>1. decision.base \in Int /\ decision.steps \in Seq(Nat)
    BY <1>2 DEF Caches
  <2>2. decision.steps # <<>> => decision.steps[Len(decision.steps)] \in Nat
    BY <2>1
  <2> QED BY <2>1, <2>2 DEF Latest
<1>5. d \in entries' <=> (trend[d] /\ ~trend[Latest(decision)])
  BY <1>1, <1>3 DEF Crosses
<1>6. \A k : Counts(decision', k) <=> Counts(decision, k) \/ k = d
  BY <1>1, <1>2, SteppedCounts
<1>7. EntersOnTheCross'
  <2> SUFFICES ASSUME NEW i \in DOMAIN decision'.steps, Counts(decision', decision'.steps[i] - 1)
               PROVE  decision'.steps[i] \in entries' <=>
                        trend[decision'.steps[i]] /\ ~trend[decision'.steps[i] - 1]
    BY DEF EntersOnTheCross
  <2>1. decision'.steps = Append(decision.steps, d) /\ decision.steps \in Seq(Nat)
    BY <1>1, <1>2, SteppedTypes
  <2> DEFINE e == decision'.steps[i]
  <2>2. CASE i \in DOMAIN decision.steps
    <3>1. e = decision.steps[i] /\ e \in Nat
      BY <2>1, <2>2
    <3>2. e <= Latest(decision)
      <4>1. Counts(decision, e)
        BY <2>2, <3>1 DEF Counts
      <4> HIDE DEF e
      <4> QED BY <1>2, <3>1, <4>1, CountsUpToLatest
    <3>3. e # d /\ e - 1 # d
      BY <1>4, <3>1, <3>2
    <3>4. Counts(decision, e - 1)
      BY <1>6, <3>3
    <3>5. e \in entries <=> trend[e] /\ ~trend[e - 1]
      BY <2>2, <3>1, <3>4 DEF JInv, EntersOnTheCross
    <3>6. e \in entries' <=> e \in entries
      BY <1>1, <3>3
    <3> QED BY <3>5, <3>6
  <2>3. CASE i \notin DOMAIN decision.steps
    <3>1. e = d
      BY <2>1, <2>3
    <3>2. Counts(decision, d - 1)
      <4>1. d - 1 # d
        OBVIOUS
      <4> QED BY <1>6, <3>1, <4>1
    <3>3. d - 1 <= Latest(decision)
      <4>1. d - 1 \in Int
        OBVIOUS
      <4> QED BY <1>2, <3>2, <4>1, CountsUpToLatest
    <3>4. Latest(decision) = d - 1
      BY <1>4, <3>3
    <3> HIDE DEF e
    <3>5. e \in entries' <=> trend[e] /\ ~trend[e - 1]
      BY <1>5, <3>1, <3>4
    <3> QED BY <3>5 DEF e
  <2> QED BY <2>2, <2>3
<1> QED BY <1>1, <1>3, <1>7

\* A bucket that starts at or before a slot is at or before the slot's own.
LEMMA DivAtLeast ==
    ASSUME NEW x \in Nat, NEW n \in Nat \ {0}, NEW k \in Int, k * n <= x
    PROVE  k <= x \div n
<1>1. (k - 1) + 1 = k /\ k - 1 \in Int
  OBVIOUS
<1>2. k - 1 < x \div n
  BY <1>1, DivBelow
<1>3. x \div n \in Nat
  BY DivBounds
<1> QED BY <1>2, <1>3

\* A question that is pending when a candle closes was asked as it began.
LEMMA PendingHeals ==
    ASSUME IInv, JInv, clock' = clock, detector'.begin = clock, detector.begin < clock,
           Fed' = Fed \cup {detector.begin}, NEW heal \in heals,
           heal.what = "day" => HoursClosed' = HoursClosed
    PROVE  HealInTime(heal)'
<1>1. /\ clock \in Nat /\ heal.asked \in Nat /\ detector.begin \in Nat
  BY DEF IInv, TypeOK, Candles
<1>2. HealInTime(heal)
  BY DEF JInv
<1>3. heal.asked = detector.begin /\ heal.asked < clock /\ clock <= heal.asked + 1
  BY <1>1, <1>2 DEF HealInTime
<1>4. ASSUME heal.what = "hour", NEW h \in Nat, (h + 1) * S = heal.asked + 1
      PROVE  ~(Slots(h, S) \ {heal.asked} \subseteq Fed')
  BY <1>2, <1>3, <1>4 DEF HealInTime
<1>5. heal.what = "day" => \A h \in HoursClosed' : (h + 1) * S <= heal.asked
  BY <1>2 DEF HealInTime
<1>6. clock' <= heal.asked + 1 /\ heal.asked <= detector'.begin
      /\ heal.asked < clock' /\ detector'.begin = clock'
  BY <1>1, <1>3
<1> QED BY <1>4, <1>5, <1>6 DEF HealInTime

\* The hour that ends with the slot of a 1H question was not seen whole: an
\* hour has more than two slots, and one of its first was missed.
LEMMA NewHourHeal ==
    ASSUME IInv, detector.begin < clock, hour.at < detector.begin \div S,
           NEW h \in Nat, (h + 1) * S = clock + 1
    PROVE  ~(Slots(h, S) \ {clock} \subseteq Fed \cup {detector.begin})
<1>1. clock \in Nat /\ detector.begin \in Nat /\ hour.at \in Int /\ S \in Nat /\ S > 2
  BY CandleAssumption DEF IInv, TypeOK, Candles, Good, Buckets, S
<1>2. h * S \in Nat /\ h * S + S = clock + 1
  <2>1. h * S \in Nat /\ (h + 1) * S = h * S + S
    BY <1>1, SMT
  <2> QED BY <2>1
<1>3. clock - 1 \in Slots(h, S) \ {clock} /\ clock - 2 \in Slots(h, S) \ {clock}
      /\ clock - 1 \in Nat /\ clock - 2 \in Nat
  BY <1>1, <1>2 DEF Slots
<1>4. (clock - 1) \div S = h /\ (clock - 2) \div S = h
  <2> DEFINE a == clock - 1
  <2> DEFINE b == clock - 2
  <2>1. a \in Nat /\ b \in Nat /\ a \in Slots(h, S) /\ b \in Slots(h, S) /\ S \in Nat \ {0}
    BY <1>1, <1>3
  <2> HIDE DEF a, b
  <2>2. a \div S = h /\ b \div S = h
    BY <2>1, SlotOf
  <2> QED BY <2>2 DEF a, b
<1>5. SUFFICES ASSUME Slots(h, S) \ {clock} \subseteq Fed \cup {detector.begin} PROVE FALSE
  OBVIOUS
<1>6. clock - 1 \in Fed \/ clock - 2 \in Fed
  BY <1>1, <1>3, <1>5
<1>7. h <= hour.at
  BY <1>4, <1>6, FedBehind
<1>8. detector.begin \div S <= h
  <2> DEFINE a == clock - 1
  <2>1. a \in Nat /\ detector.begin <= a /\ S \in Nat \ {0} /\ a \div S = h
    BY <1>1, <1>3, <1>4
  <2> HIDE DEF a
  <2> QED BY <1>1, <2>1, DivMonotone
<1>9. detector.begin \div S \in Nat
  BY <1>1, Sizes, DivBounds
<1> QED BY <1>1, <1>7, <1>8, <1>9

\* What the hour fold tells of a 5m close.
HourTold ==
    LET g == detector.begin
        out == Fold(hour, detector, S).out
    IN  /\ Fed' = Fed \cup {g} /\ hour'.at = g \div S
        /\ Filled(hour', S, Fed')
        /\ out.kind = "closed" =>
              /\ hour.at = g \div S /\ ~hour.emitted /\ out.candle \in Candles
              /\ out.candle.begin = g \div S /\ (out.candle.begin + 1) * S <= clock
        /\ out.kind = "gap" => hour.at < g \div S
        /\ \A h \in Nat : Slots(h, S) \subseteq Fed' /\ ~(Slots(h, S) \subseteq Fed)
              => out.kind = "closed" /\ h = g \div S

LEMMA HourTells ==
    ASSUME IInv, JInv, clock' = clock, warmed' = warmed,
           detector' \in Candles, detector'.begin = clock, detector.begin < clock,
           OnClose(detector)
    PROVE  HourTold
<1> DEFINE out == Fold(hour, detector, SlotsPerHour).out
<1>1. StepIndicators(detector) /\ hour' = Fold(hour, detector, SlotsPerHour).bucket
  BY DEF OnClose
<1>2. /\ hour'.at = detector.begin \div S /\ Fed' = Fed \cup {detector.begin}
      /\ out.kind # "none" => out.candle.begin \in Nat /\ out.candle \in Candles
      /\ out.kind = "closed" => out.candle.begin = hour'.at /\ (out.candle.begin + 1) * S <= clock
  BY <1>1, HourStage, Zenon
<1>3. FoldTells(hour, detector, S, Fed)
  <2>1. \A x \in Fed : x \in Nat /\ x \div S <= hour.at
    BY FedBehind
  <2>2. Good(hour) /\ detector \in Candles /\ hour.at <= detector.begin \div S
    BY DEF IInv, TypeOK, BucketsFollow
  <2>3. Filled(hour, S, Fed)
    BY DEF JInv, BucketsFilled
  <2>4. detector.begin \div S >= hour.at
    <3>1. hour.at \in Int /\ detector.begin \div S \in Nat
      BY <2>2, Sizes, DivBounds DEF Good, Buckets, Candles
    <3> QED BY <2>2, <3>1
  <2>5. S \in Nat /\ S > 1
    BY Sizes
  <2> QED BY <2>1, <2>2, <2>3, <2>4, <2>5, FoldFills
<1>4. S = SlotsPerHour
  BY DEF S
<1> QED BY <1>1, <1>2, <1>3, <1>4 DEF HourTold, FoldTells

\* A close that closes no hour.
LEMMA QuietClose ==
    ASSUME IInv, IInv', JInv, HourTold, clock' = clock, trend' = trend,
           detector'.begin = clock, detector.begin < clock,
           UNCHANGED <<htf, day, decision, entries>>,
           HoursClosed' = HoursClosed, In(log', "day", "closed") = In(log, "day", "closed"),
           Fold(hour, detector, S).out.kind # "closed",
           heals' = heals \/ (Ask("hour") /\ Fold(hour, detector, S).out.kind = "gap")
    PROVE  JInv'
<1>1. Fed' = Fed \cup {detector.begin} /\ Filled(hour', S, Fed')
      /\ \A h \in Nat : Slots(h, S) \subseteq Fed' => Slots(h, S) \subseteq Fed
  BY DEF HourTold
<1>2. BucketsFilled' /\ ClosedHaveEnded' /\ HoursSeen' /\ StepsClosed' /\ DaysSeen'
      /\ Ascending(decision') /\ EntriesClosed' /\ EntersOnTheCross'
  BY <1>1 DEF JInv, BucketsFilled, ClosedHaveEnded, HoursSeen, StepsClosed, DaysSeen, EntriesClosed,
              EntersOnTheCross
<1>3. DecisionBehind'
  BY DEF IInv, TypeOK, DecisionBehind, S, H
<1>4. ASSUME NEW heal \in heals' PROVE HealInTime(heal)'
  <2>1. CASE heal \in heals
    BY <1>1, <2>1, PendingHeals
  <2>2. CASE heal \notin heals
    <3>1. heal = [what |-> "hour", asked |-> clock] /\ hour.at < detector.begin \div S
      BY <2>2 DEF Ask, HourTold
    <3>2. heal.what = "hour" /\ heal.asked = clock /\ clock \in Nat
      BY <3>1 DEF IInv, TypeOK
    <3>3. \A h \in Nat : (h + 1) * S = clock + 1 => ~(Slots(h, S) \ {clock} \subseteq Fed')
      BY <1>1, <3>1, NewHourHeal
    <3>4. clock' <= heal.asked + 1 /\ heal.asked <= detector'.begin
      BY <3>2
    <3> QED BY <3>2, <3>3, <3>4 DEF HealInTime
  <2> QED BY <2>1, <2>2
<1> QED BY <1>2, <1>3, <1>4 DEF JInv

\* A close that closes an hour.
LEMMA HourClose ==
    ASSUME IInv, IInv', JInv, HourTold, clock' = clock, trend' = trend,
           detector'.begin = clock, detector.begin < clock,
           NEW h, h = Fold(hour, detector, S).out.candle,
           Fold(hour, detector, S).out.kind = "closed",
           StepHtf(h.begin), AdvanceDecision(h)
    PROVE  JInv'
<1> DEFINE n == h.begin
<1>1. /\ h \in Candles /\ n \in Nat /\ n = detector.begin \div S /\ hour.at = n /\ ~hour.emitted
      /\ (n + 1) * S <= clock /\ hour'.at = n
      /\ Fed' = Fed \cup {detector.begin} /\ Filled(hour', S, Fed')
      /\ \A k \in Nat : Slots(k, S) \subseteq Fed' /\ ~(Slots(k, S) \subseteq Fed) => k = n
  BY DEF HourTold, Candles
<1> DEFINE f == Fold(day, h, H)
<1>2. /\ HoursClosed' = HoursClosed \cup {n}
      /\ In(log', "day", "closed") = In(log, "day", "closed")
           \cup If(f.out.kind = "closed", {f.out.candle.begin})
  <2>1. hour.at <= h.begin
    BY <1>1
  <2>2. /\ In(log', "hour", "closed") = In(log, "hour", "closed") \cup {h.begin}
        /\ In(log', "day", "closed") = In(log, "day", "closed")
             \cup If(Fold(day, h, H).out.kind = "closed", {Fold(day, h, H).out.candle.begin})
    BY <1>1, <2>1, DayStage, Zenon
  <2> QED BY <2>2 DEF HoursClosed
<1>3. /\ day' = f.bucket
      /\ IF f.out.kind = "closed" THEN Decide(f.out.candle.begin) ELSE UNCHANGED <<decision, entries>>
      /\ IF f.out.kind = "gap" THEN Ask("day") ELSE UNCHANGED heals
  BY DEF AdvanceDecision, H
<1>4. clock \in Nat /\ detector.begin \in Nat /\ htf \in Caches /\ Ascending(htf)
      /\ stepped60 = Latest(htf) /\ decision \in Caches
  BY DEF IInv, TypeOK, Candles
<1>5. n \notin HoursClosed /\ \A k \in HoursClosed : k \in Nat /\ k <= n /\ k \div H <= day.at
  <2>1. Resolved(hour, S, Fed, HoursClosed, In(log, "hour", "gap"))
    BY DEF IInv, LevelsResolved, HoursClosed
  <2>2. \A k \in HoursClosed : k \in Nat /\ k \div H <= day.at
    BY DEF IInv, LevelsResolved, Resolved, HoursClosed
  <2>3. n \notin HoursClosed /\ \A k \in Nat : k > n => k \notin HoursClosed
    BY <1>1, <2>1 DEF Resolved
  <2> QED BY <1>1, <2>2, <2>3
<1>6. FoldTells(day, h, H, HoursClosed)
  <2>1. Good(day) /\ day.at * H <= n /\ day.at \in Int
    BY <1>1 DEF IInv, BucketsFollow, Good, Buckets
  <2>2. n \div H >= day.at
    <3>1. day.at <= n \div H /\ n \div H \in Nat
      BY <1>1, <2>1, Sizes, DivAtLeast, DivBounds
    <3> QED BY <2>1, <3>1
  <2>3. Filled(day, H, HoursClosed) /\ H \in Nat /\ H > 1
    BY Sizes DEF JInv, BucketsFilled
  <2>4. \A k \in HoursClosed : k \in Nat /\ k \div H <= day.at
    BY <1>5
  <2> QED BY <1>1, <2>1, <2>2, <2>3, <2>4, FoldFills
<1> DEFINE d == n \div H
<1>7. d \in Nat /\ d = detector.begin \div (S * H)
  <2>1. S \in Nat \ {0} /\ H \in Nat \ {0}
    BY Sizes
  <2>2. (detector.begin \div S) \div H = detector.begin \div (S * H)
    BY <1>4, <2>1, DivDiv
  <2>3. n \div H = detector.begin \div (S * H)
    BY <1>1, <2>2
  <2>4. n \div H \in Nat
    BY <1>1, <2>1, DivBounds
  <2> QED BY <2>3, <2>4
<1>8. /\ Filled(day', H, HoursClosed')
      /\ f.out.kind = "closed" => day.at = d /\ ~day.emitted /\ f.out.candle.begin = d
      /\ \A k \in Nat : Slots(k, H) \subseteq HoursClosed' /\ ~(Slots(k, H) \subseteq HoursClosed)
            => f.out.kind = "closed" /\ k = d
  BY <1>2, <1>3, <1>6 DEF FoldTells
<1> HIDE DEF f, d
<1>9. BucketsFilled'
  BY <1>1, <1>8 DEF BucketsFilled
<1>10. ClosedHaveEnded'
  BY <1>1, <1>2 DEF JInv, ClosedHaveEnded
<1>11. HoursSeen' /\ StepsClosed'
  <2>1. CASE n > stepped60 /\ htf' = Stepped(htf, n)
    <3>1. \A k : Counts(htf', k) <=> Counts(htf, k) \/ k = n
      BY <1>1, <1>4, <2>1, SteppedCounts
    <3>2. HoursSeen'
      BY <1>1, <3>1 DEF JInv, HoursSeen
    <3>3. htf'.steps = Append(htf.steps, n) /\ htf.steps \in Seq(Nat)
      BY <1>1, <1>4, <2>1, SteppedTypes
    <3>4. \A i \in DOMAIN htf'.steps : htf'.steps[i] = n \/ (i \in DOMAIN htf.steps /\ htf'.steps[i] = htf.steps[i])
      BY <1>1, <3>3
    <3>5. StepsClosed'
      BY <1>2, <3>4 DEF JInv, StepsClosed
    <3> QED BY <3>2, <3>5
  <2>2. CASE ~(n > stepped60) /\ htf' = htf
    <3>1. Counts(htf, n)
      <4>1. htf.base \in Int /\ htf.steps \in Seq(Nat)
        BY <1>4 DEF Caches
      <4>2. CASE htf.steps = <<>>
        BY <1>1, <1>4, <2>2, <4>1, <4>2 DEF Latest, Counts
      <4>3. CASE htf.steps # <<>>
        <5>1. Len(htf.steps) \in DOMAIN htf.steps /\ Latest(htf) = htf.steps[Len(htf.steps)]
          BY <4>1, <4>3 DEF Latest
        <5>2. Latest(htf) \in HoursClosed
          BY <5>1 DEF JInv, StepsClosed
        <5>3. Latest(htf) = n
          BY <1>1, <1>4, <1>5, <2>2, <5>2
        <5> QED BY <5>1, <5>3 DEF Counts
      <4> QED BY <4>2, <4>3
    <3>2. HoursSeen'
      BY <1>1, <2>2, <3>1 DEF JInv, HoursSeen
    <3>3. StepsClosed'
      BY <1>2, <2>2 DEF JInv, StepsClosed
    <3> QED BY <3>2, <3>3
  <2> QED BY <2>1, <2>2 DEF StepHtf
<1>12. /\ DaysSeen' /\ Ascending(decision') /\ EntriesClosed' /\ EntersOnTheCross'
  <2>1. CASE f.out.kind = "closed" /\ decision # NoCache
    <3>1. Decide(d) /\ day.at = d /\ ~day.emitted
      BY <1>3, <1>8, <2>1
    <3>2. d > Latest(decision)
      <4>1. Latest(decision) < d
        BY <1>1, <1>4, <1>7, Sizes DEF JInv, DecisionBehind
      <4>2. Latest(decision) \in Int
        <5>1. decision.base \in Int /\ decision.steps \in Seq(Nat)
          BY <1>4 DEF Caches
        <5>2. decision.steps # <<>> => decision.steps[Len(decision.steps)] \in Nat
          BY <5>1
        <5> QED BY <5>1, <5>2 DEF Latest
      <4> QED BY <1>7, <4>1, <4>2
    <3>3. d \notin entries
      <4>1. d \notin In(log, "day", "closed")
        BY <1>7, <3>1 DEF IInv, LevelsResolved, Resolved
      <4> QED BY <4>1 DEF JInv, EntriesClosed
    <3>4. /\ decision' = Stepped(decision, d) /\ entries' \subseteq entries \cup {d}
          /\ Ascending(decision') /\ EntersOnTheCross'
      BY <1>7, <2>1, <3>1, <3>2, <3>3, DecideSeen
    <3>5. EntriesClosed'
      <4>1. In(log', "day", "closed") = In(log, "day", "closed") \cup {d}
        BY <1>2, <1>8, <2>1 DEF If
      <4> QED BY <3>4, <4>1 DEF JInv, EntriesClosed
    <3>6. \A k : Counts(decision', k) <=> Counts(decision, k) \/ k = d
      BY <1>4, <1>7, <3>4, SteppedCounts
    <3>7. DaysSeen'
      BY <1>8, <2>1, <3>6 DEF JInv, DaysSeen
    <3> QED BY <3>4, <3>5, <3>7
  <2>2. CASE ~(f.out.kind = "closed" /\ decision # NoCache)
    <3>1. UNCHANGED <<decision, entries>>
      BY <1>3, <2>2 DEF Decide
    <3>2. DaysSeen'
      BY <1>8, <2>2, <3>1 DEF JInv, DaysSeen
    <3>3. EntriesClosed'
      BY <1>2, <3>1 DEF JInv, EntriesClosed, If
    <3>4. Ascending(decision') /\ EntersOnTheCross'
      BY <3>1 DEF JInv, EntersOnTheCross
    <3> QED BY <3>2, <3>3, <3>4
  <2> QED BY <2>1, <2>2
<1>13. DecisionBehind'
  BY DEF IInv, TypeOK, DecisionBehind, S, H
<1>14. ASSUME NEW heal \in heals' PROVE HealInTime(heal)'
  <2>1. CASE heal \in heals
    <3>1. heal.what # "day"
      <4>1. HealInTime(heal)
        BY <2>1 DEF JInv
      <4> QED BY <1>1, <1>4, <4>1 DEF HealInTime
    <3> QED BY <1>1, <2>1, <3>1, PendingHeals
  <2>2. CASE heal \notin heals
    <3>1. heal = [what |-> "day", asked |-> clock]
      BY <1>3, <2>2 DEF Ask
    <3>2. heal.what = "day" /\ heal.asked = clock
      BY <3>1
    <3>3. \A k \in HoursClosed' : (k + 1) * S <= heal.asked
      BY <1>10, <3>2 DEF ClosedHaveEnded
    <3>4. n < clock \div S
      BY <1>1, <1>4, Sizes, DivBelow
    <3>5. hour'.at < detector'.begin \div S
      BY <1>1, <3>4
    <3>6. clock' <= heal.asked + 1 /\ heal.asked <= detector'.begin
      BY <1>4, <3>2
    <3> QED BY <3>2, <3>3, <3>5, <3>6 DEF HealInTime
  <2> QED BY <2>1, <2>2
<1> QED BY <1>9, <1>10, <1>11, <1>12, <1>13, <1>14 DEF JInv

\* A closed 5m candle keeps what was seen counted.
LEMMA CloseSeen ==
    ASSUME IInv, IInv', JInv, clock' = clock, warmed' = warmed, trend' = trend,
           detector' \in Candles, detector'.begin = clock, detector.begin < clock,
           OnClose(detector)
    PROVE  JInv'
<1> DEFINE out == Fold(hour, detector, SlotsPerHour).out
<1>1. HourTold
  BY HourTells
<1>2. S = SlotsPerHour
  BY DEF S
<1>3. CASE out.kind = "closed" /\ StepHtf(out.candle.begin) /\ AdvanceDecision(out.candle)
  BY <1>1, <1>2, <1>3, HourClose
<1>4. CASE /\ out.kind = "gap" /\ log' = log \cup Event("hour", out) /\ Ask("hour")
           /\ UNCHANGED <<htf, stepped60, day, decision, entries>>
  <2> DEFINE event == Event("hour", out)
  <2>1. In(event, "hour", "closed") = {} /\ In(event, "day", "closed") = {}
    BY <1>4, EventSays DEF If
  <2> HIDE DEF event
  <2>2. \A l : In(log \cup event, l, "closed") = In(log, l, "closed") \cup In(event, l, "closed")
    BY LogGrows
  <2>3. log' = log \cup event
    BY <1>4 DEF event
  <2>4. HoursClosed' = HoursClosed /\ In(log', "day", "closed") = In(log, "day", "closed")
    BY <2>1, <2>2, <2>3 DEF HoursClosed
  <2>5. Fold(hour, detector, S).out.kind = "gap"
    BY <1>2, <1>4
  <2> QED BY <1>1, <1>4, <2>4, <2>5, QuietClose
<1>5. CASE /\ out.kind = "none"
           /\ UNCHANGED <<htf, stepped60, day, decision, entries, log, heals>>
  <2>1. HoursClosed' = HoursClosed /\ In(log', "day", "closed") = In(log, "day", "closed")
    BY <1>5 DEF HoursClosed
  <2>2. Fold(hour, detector, S).out.kind = "none"
    BY <1>2, <1>5
  <2> QED BY <1>1, <1>5, <2>1, <2>2, QuietClose
<1> QED BY <1>3, <1>4, <1>5 DEF OnClose

\* Every step keeps what was seen counted.
LEMMA StepSeen == IInv /\ JInv /\ [Next]_vars => JInv'
<1> SUFFICES ASSUME IInv, JInv, [Next]_vars PROVE JInv'
  OBVIOUS
<1>1. IInv'
  BY StepInv
<1>2. clock \in Nat /\ detector \in Candles /\ detector.begin \in Nat /\ detector.begin <= clock
  BY DEF IInv, TypeOK, Candles
<1>3. ASSUME NEW whole \in BOOLEAN, Frame(whole) PROVE JInv'
  <2> DEFINE c == [begin |-> clock, whole |-> whole]
  <2>1. c \in Candles /\ c.begin = clock
    BY <1>2 DEF Candles
  <2>2. clock' = clock /\ warmed' = warmed /\ trend' = trend
    BY <1>3 DEF Frame
  <2>3. CASE down
    <3>1. UNCHANGED <<chain, heals>>
      BY <1>3, <2>3 DEF Frame
    <3> QED BY <2>2, <3>1, StillSeen DEF chain
  <2>4. CASE ~down
    <3>1. Observe(c)
      BY <1>3, <2>4 DEF Frame
    <3>2. detector' = c
      BY <3>1 DEF Observe
    <3> HIDE DEF c
    <3>3. CASE c.begin = detector.begin
      <4>1. UNCHANGED <<stepped5, corpus, hour, day, htf, stepped60, decision, entries, log, heals>>
        BY <3>1, <3>3 DEF Observe
      <4> QED BY <2>2, <3>2, <3>3, <4>1, StillSeen
    <3>4. CASE c.begin # detector.begin
      <4>1. OnClose(detector)
        BY <3>1, <3>4 DEF Observe
      <4>2. detector.begin < clock
        BY <1>2, <2>1, <3>4
      <4> QED BY <1>1, <2>1, <2>2, <3>2, <4>1, <4>2, CloseSeen
    <3> QED BY <3>3, <3>4
  <2> QED BY <2>3, <2>4
<1>4. ASSUME NEW heal \in heals, HealHtf(heal) \/ HealDecision(heal) PROVE JInv'
  BY <1>4, HealSeen
<1>5. CASE Tick
  <2>1. /\ clock' = clock + 1 /\ \A heal \in heals : heal.asked = clock
        /\ UNCHANGED <<heals, trend, warmed, chain>>
    BY <1>5 DEF Tick
  <2> QED BY <2>1, StillSeen DEF chain
<1>6. CASE Drop \/ Restore
  <2>1. UNCHANGED <<clock, heals, trend, warmed, chain>>
    BY <1>6 DEF Drop, Restore
  <2> QED BY <2>1, StillSeen DEF chain
<1>7. CASE UNCHANGED vars
  BY <1>7, StillSeen DEF vars, chain
<1> QED BY <1>3, <1>4, <1>5, <1>6, <1>7 DEF Next

-----------------------------------------------------------------------------
(* The theorems. *)

\* The inductive invariant holds, whatever is lost and however late REST is.
THEOREM CandleInv == Spec => []IInv
BY InitInv, StepInv, PTL DEF Spec

\* The types, and that no indicator counts an hour or a day in progress.
THEOREM TypeCorrect == Spec => []TypeOK
<1>1. IInv => TypeOK
  BY DEF IInv
<1> QED BY <1>1, CandleInv, PTL

\* The corpus has every candle at most once, in order, after the warm-up.
THEOREM CorpusSound == Spec => []CorpusIsTheStream
<1>1. IInv => CorpusIsTheStream
  BY DEF IInv
<1> QED BY <1>1, CandleInv, PTL

\* The 1H half of CountedOnce: no hour steps the EMAs twice, heals or not.
THEOREM HoursCountedOnce == Spec => []Ascending(htf)
<1>1. IInv => Ascending(htf)
  BY DEF IInv
<1> QED BY <1>1, CandleInv, PTL

\* Every aligned hour and day that rolled over was closed or surfaced, once.
THEOREM EveryBucketResolved == Spec => []ResolvedOnce
<1>1. IInv => ResolvedOnce
  <2> SUFFICES ASSUME IInv PROVE ResolvedOnce
    OBVIOUS
  <2>1. \A l, k : Was(l, k) = In(log, l, k)
    BY DEF Was, In
  <2>2. /\ Resolved(hour, S, Fed, Was("hour", "closed"), Was("hour", "gap"))
        /\ Resolved(day, H, Was("hour", "closed"), Was("day", "closed"), Was("day", "gap"))
    BY <2>1 DEF IInv, LevelsResolved
  <2>3. hour.at \in Int /\ day.at \in Int
    BY DEF IInv, Good, Buckets
  <2>4. /\ \A h \in 0 .. hour.at - 1 : h \in Nat /\ h < hour.at
        /\ \A d \in 0 .. day.at - 1 : d \in Nat /\ d < day.at
    BY <2>3
  <2> QED BY <2>2, <2>4 DEF Resolved, ResolvedOnce, S, H
<1> QED BY <1>1, CandleInv, PTL

\* What was seen whole is counted, and the gates run on the cross.
THEOREM SeenInv == Spec => [](IInv /\ JInv)
BY InitInv, StepInv, InitSeen, StepSeen, PTL DEF Spec

\* No hour and no day steps the EMAs twice, and every bar whose candles were all
\* handled is counted for good, however late the heals answer.
THEOREM EveryBarCountedOnce == Spec => []EachBarOnce
<1>1. IInv /\ JInv => EachBarOnce
  <2> SUFFICES ASSUME IInv, JInv PROVE EachBarOnce
    OBVIOUS
  <2>1. CountedOnce
    BY DEF IInv, JInv, CountedOnce
  <2>2. Was("hour", "closed") = HoursClosed
    BY DEF Was, In, HoursClosed
  <2>3. clock \div S \in Nat /\ clock \div (S * H) \in Nat
    BY Sizes, DivBounds DEF IInv, TypeOK
  <2>4. /\ \A h \in 0 .. clock \div S : h \in Nat
        /\ \A d \in 0 .. clock \div (S * H) : d \in Nat
    BY <2>3
  <2>5. SeenIsCounted
    BY <2>2, <2>4 DEF JInv, HoursSeen, DaysSeen, Slots, SeenIsCounted, S, H
  <2> QED BY <2>1, <2>5 DEF EachBarOnce
<1> QED BY <1>1, SeenInv, PTL

\* A day that closes live after the one the decision counted last runs the
\* entry gates on a bullish cross and on nothing else.
THEOREM GatesRunOnTheCross == Spec => []EntersOnTheCross
<1>1. IInv /\ JInv => EntersOnTheCross
  BY DEF JInv
<1> QED BY <1>1, SeenInv, PTL

-----------------------------------------------------------------------------
(* Induction over the naturals in the form of a set, from the least-number *)
(* principle: what it says of lists and of sums.                           *)

-----------------------------------------------------------------------------
(* Recurrences. *)

\* A list with one element more.
Grown(q, y) == Append(q, y)

LEMMA GrownTypes ==
    ASSUME NEW q \in Seq(Int), NEW y \in Int, NEW k \in Int, Len(q) = k
    PROVE  Grown(q, y) \in Seq(Int) /\ Len(Grown(q, y)) = k + 1 /\ Last(Grown(q, y)) = y
<1>1. Append(q, y) \in Seq(Int) /\ Len(Append(q, y)) = Len(q) + 1
      /\ Append(q, y)[Len(q) + 1] = y
  OBVIOUS
<1> QED BY <1>1 DEF Grown, Last

\* f is the run of the averages over the elements p .. n of s that starts from c, with
\* the step st.
Runs(f, c, s, p, st, n) ==
    f = [i \in p..n |-> IF i = p THEN <<c>>
                        ELSE Grown(f[i - 1], st[Last(f[i - 1])][s[i]])]

Steps == [Int -> [Int -> Int]]

\* There are runs of any length.
LEMMA RunExists ==
    ASSUME NEW s, NEW p \in Nat, NEW st, NEW c
    PROVE  \A n \in Nat : n >= p => \E f : Runs(f, c, s, p, st, n)
<1> DEFINE All == {k \in Nat : \E f : Runs(f, c, s, p, st, p + k)}
<1>1. 0 \in All
  <2>1. Runs([i \in p..p |-> <<c>>], c, s, p, st, p + 0)
    BY DEF Runs
  <2> QED BY <2>1
<1>2. ASSUME NEW k \in Nat, k \in All PROVE k + 1 \in All
  <2> DEFINE n == p + k
  <2>1. n \in Nat /\ n >= p
    OBVIOUS
  <2>2. PICK f : Runs(f, c, s, p, st, n)
    BY <1>2
  <2> HIDE DEF n
  <2> DEFINE last == Grown(f[n], st[Last(f[n])][s[n + 1]])
             g == [i \in p..(n + 1) |-> IF i = n + 1 THEN last ELSE f[i]]
  <2>3. \A i \in p..(n + 1) : i # p => i - 1 \in p..(n + 1) /\ i - 1 # n + 1
    BY <2>1
  <2>4. \A i \in p..n : f[i] = IF i = p THEN <<c>>
                               ELSE Grown(f[i - 1], st[Last(f[i - 1])][s[i]])
    BY <2>2 DEF Runs
  <2>5. \A i \in p..n : g[i] = f[i]
    BY <2>1
  <2>6. \A i \in p..n : i # p => i - 1 \in p..n
    BY <2>1
  <2>7. g[n + 1] = Grown(g[n], st[Last(g[n])][s[n + 1]])
    <3>1. g[n] = f[n]
      BY <2>1, <2>5
    <3>2. g[n + 1] = last
      BY <2>1
    <3> HIDE DEF g
    <3> QED BY <3>1, <3>2 DEF last
  <2> HIDE DEF last
  <2>8. g = [i \in p..(n + 1) |-> g[i]]
    OBVIOUS
  <2> HIDE DEF g
  <2>9. \A i \in p..(n + 1) : g[i] = IF i = p THEN <<c>>
                               ELSE Grown(g[i - 1], st[Last(g[i - 1])][s[i]])
    <3> SUFFICES ASSUME NEW i \in p..(n + 1)
                 PROVE  g[i] = IF i = p THEN <<c>>
                               ELSE Grown(g[i - 1], st[Last(g[i - 1])][s[i]])
      OBVIOUS
    <3>1. CASE i = n + 1
      <4>1. i # p /\ i - 1 = n
        BY <3>1, <2>1
      <4> QED BY <3>1, <4>1, <2>7
    <3>2. CASE i \in p..n
      BY <3>2, <2>4, <2>5, <2>6
    <3> QED BY <3>1, <3>2, <2>1
  <2>10. Runs(g, c, s, p, st, n + 1)
    BY <2>8, <2>9 DEF Runs
  <2>11. n + 1 = p + (k + 1)
    BY DEF n
  <2> QED BY <2>10, <2>11
<1>3. \A k \in Nat : k \in All
  <2> HIDE DEF All
  <2> QED BY <1>1, <1>2, Induction
<1> SUFFICES ASSUME NEW n \in Nat, n >= p PROVE \E f : Runs(f, c, s, p, st, n)
  OBVIOUS
<1>4. n - p \in Nat /\ p + (n - p) = n
  OBVIOUS
<1> QED BY <1>3, <1>4

\* A run is a list of whole numbers, one longer with each element.
LEMMA RunTypes ==
    ASSUME NEW s \in Seq(Int), NEW p \in Nat \ {0}, NEW st \in Steps, NEW c \in Int,
           NEW n \in p..Len(s), NEW f, Runs(f, c, s, p, st, n)
    PROVE  \A i \in p..n : f[i] \in Seq(Int) /\ Len(f[i]) = i - p + 1
<1>1. Len(s) \in Nat /\ n \in Nat /\ n >= p /\ n <= Len(s) /\ (\A i \in 1..Len(s) : s[i] \in Int)
  OBVIOUS
<1> DEFINE All == {i \in Nat : i \in p..n => f[i] \in Seq(Int) /\ Len(f[i]) = i - p + 1}
<1>2. 0 \in All
  OBVIOUS
<1>3. ASSUME NEW i \in Nat, i \in All PROVE i + 1 \in All
  <2> SUFFICES ASSUME i + 1 \in p..n
               PROVE  f[i + 1] \in Seq(Int) /\ Len(f[i + 1]) = (i + 1) - p + 1
    OBVIOUS
  <2>1. CASE i + 1 = p
    <3>1. f[i + 1] = <<c>>
      BY <2>1, <1>1 DEF Runs
    <3>2. (i + 1) - p + 1 = 1
      BY <2>1
    <3> QED BY <3>1, <3>2
  <2>2. CASE i + 1 # p
    <3> DEFINE q == f[i]  x == s[i + 1]
    <3>1. q \in Seq(Int) /\ Len(q) = i - p + 1 /\ i \in p..n
      BY <1>3, <1>1, <2>2
    <3>2. Last(q) \in Int /\ x \in Int
      <4>1. Len(q) \in 1..Len(q)
        BY <1>1, <3>1
      <4>2. i + 1 \in 1..Len(s)
        BY <1>1, <3>1, <2>2
      <4> HIDE DEF q
      <4> QED BY <3>1, <4>1, <4>2, <1>1, ElementOfSeq DEF Last
    <3>3. st[Last(q)][x] \in Int
      BY <3>2 DEF Steps
    <3>4. (i + 1) - 1 = i /\ i + 1 \in p..n
      BY <1>1
    <3>5. f[i + 1] = Grown(q, st[Last(q)][x])
      BY <2>2, <3>4 DEF Runs
    <3>6. Grown(q, st[Last(q)][x]) \in Seq(Int)
          /\ Len(Grown(q, st[Last(q)][x])) = (i - p + 1) + 1
      <4>1. i - p + 1 \in Int
        BY <1>1
      <4> QED BY <3>1, <3>3, <4>1, GrownTypes
    <3>7. (i - p + 1) + 1 = (i + 1) - p + 1
      BY <1>1
    <3> QED BY <3>5, <3>6, <3>7
  <2> QED BY <2>1, <2>2
<1>4. \A i \in Nat : i \in All
  <2> HIDE DEF All
  <2> QED BY <1>2, <1>3, Induction
<1> QED BY <1>1, <1>4

\* The run over a list with one element more goes the same way up to it.
LEMMA RunAgrees ==
    ASSUME NEW s, NEW t, NEW n \in Nat, NEW p \in Nat \ {0}, NEW st, NEW c, p <= n,
           \A i \in 1..n : t[i] = s[i],
           NEW m \in Nat, n + 1 <= m,
           NEW f, Runs(f, c, s, p, st, n), NEW g, Runs(g, c, t, p, st, m)
    PROVE  g[n] = f[n]
<1>1. n \in Nat /\ p <= n /\ (\A i \in 1..n : t[i] = s[i])
  OBVIOUS
<1> DEFINE All == {i \in Nat : i \in p..n => g[i] = f[i]}
<1>2. 0 \in All
  OBVIOUS
<1>3. ASSUME NEW i \in Nat, i \in All PROVE i + 1 \in All
  <2> SUFFICES ASSUME i + 1 \in p..n PROVE g[i + 1] = f[i + 1]
    OBVIOUS
  <2>1. CASE i + 1 = p
    <3>1. f[p] = <<c>> /\ g[p] = <<c>>
      BY <1>1 DEF Runs
    <3> QED BY <3>1, <2>1
  <2>2. CASE i + 1 # p
    <3>1. p <= i /\ i + 1 <= n /\ i + 1 <= n + 1 /\ g[i] = f[i] /\ t[i + 1] = s[i + 1]
      BY <1>1, <1>3, <2>2
    <3>2. (i + 1) - 1 = i /\ i + 1 \in p..n /\ i + 1 \in p..m
      BY <1>1
    <3>3. f[i + 1] = Grown(f[i], st[Last(f[i])][s[i + 1]])
      BY <2>2, <3>2 DEF Runs
    <3>4. g[i + 1] = Grown(g[i], st[Last(g[i])][t[i + 1]])
      BY <2>2, <3>2 DEF Runs
    <3> QED BY <3>1, <3>3, <3>4
  <2> QED BY <2>1, <2>2
<1>4. \A i \in Nat : i \in All
  <2> HIDE DEF All
  <2> QED BY <1>2, <1>3, Induction
<1> QED BY <1>1, <1>4

\* The average of its first p elements.
Mean(s, p) == Total(SubSeq(s, 1, p)) \div p

LEMMA MeanFacts ==
    ASSUME NEW s \in Seq(Int), NEW p \in Nat \ {0}, p <= Len(s)
    PROVE  /\ Mean(s, p) \in Int
           /\ \A x \in Int : Mean(Append(s, x), p) = Mean(s, p)
<1>1. Len(s) \in Nat
  OBVIOUS
<1>2. /\ SubSeq(s, 1, p) \in Seq(Int) /\ Len(SubSeq(s, 1, p)) = p
      /\ \A i \in 1..p : SubSeq(s, 1, p)[i] = s[i]
  BY <1>1
<1>3. ASSUME NEW x \in Int PROVE Mean(Append(s, x), p) = Mean(s, p)
  <2> DEFINE t == Append(s, x)
  <2>1. t \in Seq(Int) /\ Len(t) = Len(s) + 1 /\ \A i \in 1..Len(s) : t[i] = s[i]
    OBVIOUS
  <2> HIDE DEF t
  <2>2. /\ SubSeq(t, 1, p) \in Seq(Int) /\ Len(SubSeq(t, 1, p)) = p
        /\ \A i \in 1..p : SubSeq(t, 1, p)[i] = t[i]
    BY <1>1, <2>1
  <2>3. \A i \in 1..p : SubSeq(t, 1, p)[i] = SubSeq(s, 1, p)[i]
    BY <1>1, <1>2, <2>1, <2>2
  <2>4. SubSeq(t, 1, p) = SubSeq(s, 1, p)
    BY <1>2, <2>2, <2>3, SeqEqual
  <2> QED BY <2>4 DEF Mean, t
<1>4. Total(SubSeq(s, 1, p)) \in Int
  BY <1>2, TotalIsInt
<1> DEFINE total == Total(SubSeq(s, 1, p))
<1> HIDE DEF total
<1>5. total \in Int /\ total \div p \in Int
  BY <1>4 DEF total
<1> QED BY <1>3, <1>5 DEF Mean, total

\* Running is a run.
LEMMA RunningIsARun ==
    ASSUME NEW s \in Seq(Int), NEW p \in Nat \ {0}, p <= Len(s), NEW st
    PROVE  \E f : Runs(f, Mean(s, p), s, p, st, Len(s)) /\ Running(s, p, st) = f[Len(s)]
<1> DEFINE g == CHOOSE u : u = [i \in p..Len(s) |->
                  IF i = p THEN <<Total(SubSeq(s, 1, p)) \div p>>
                  ELSE Append(u[i - 1], st[Last(u[i - 1])][s[i]])]
<1>1. PICK f : Runs(f, Mean(s, p), s, p, st, Len(s))
  BY RunExists, Len(s) \in Nat
<1>2. f = [i \in p..Len(s) |->
                  IF i = p THEN <<Total(SubSeq(s, 1, p)) \div p>>
                  ELSE Append(f[i - 1], st[Last(f[i - 1])][s[i]])]
  BY <1>1 DEF Runs, Grown, Mean
<1>3. g = [i \in p..Len(s) |->
                  IF i = p THEN <<Total(SubSeq(s, 1, p)) \div p>>
                  ELSE Append(g[i - 1], st[Last(g[i - 1])][s[i]])]
  BY <1>2
<1>4. Running(s, p, st) = g[Len(s)]
  BY DEF Running
<1> HIDE DEF g
<1>5. Runs(g, Mean(s, p), s, p, st, Len(s))
  BY <1>3 DEF Runs, Grown, Mean
<1> QED BY <1>4, <1>5

\* Running over a list with one element more has one value more, a step from the last.
LEMMA RunningSteps ==
    ASSUME NEW s \in Seq(Int), NEW x \in Int, NEW p \in Nat \ {0}, p <= Len(s), NEW st \in Steps
    PROVE  /\ Running(s, p, st) \in Seq(Int) /\ Len(Running(s, p, st)) = Len(s) - p + 1
           /\ Last(Running(s, p, st)) \in Int
           /\ st[Last(Running(s, p, st))][x] \in Int
           /\ Running(Append(s, x), p, st)
                  = Append(Running(s, p, st), st[Last(Running(s, p, st))][x])
           /\ Last(Running(Append(s, x), p, st)) = st[Last(Running(s, p, st))][x]
<1>1. PICK n \in Nat : n = Len(s)
  OBVIOUS
<1>2. PICK r : r = Running(s, p, st)
  OBVIOUS
<1>3. Append(s, x) \in Seq(Int)
  OBVIOUS
<1>4. PICK t \in Seq(Int) : t = Append(s, x)
  BY <1>3
<1>5. p <= n /\ Len(t) = n + 1 /\ (\A i \in 1..n : t[i] = s[i]) /\ t[n + 1] = x
  BY <1>1, <1>4
<1>6. PICK c \in Int : c = Mean(s, p) /\ c = Mean(t, p)
  BY <1>4, MeanFacts
<1>7. PICK f : Runs(f, c, s, p, st, n) /\ r = f[n]
  BY <1>1, <1>2, <1>6, RunningIsARun
<1>8. PICK m \in Nat : m = n + 1
  OBVIOUS
<1>9. p <= Len(t) /\ m = Len(t) /\ n + 1 <= m /\ n + 1 \in p..m /\ n + 1 # p /\ (n + 1) - 1 = n
  BY <1>5, <1>8
<1>10. PICK g : Runs(g, c, t, p, st, m) /\ Running(t, p, st) = g[m]
  <2>1. PICK g : Runs(g, Mean(t, p), t, p, st, Len(t)) /\ Running(t, p, st) = g[Len(t)]
    BY <1>9, RunningIsARun
  <2> QED BY <1>6, <1>9, <2>1
<1>11. g[n] = f[n]
  <2>1. p <= n /\ n + 1 <= m /\ \A i \in 1..n : t[i] = s[i]
    BY <1>5, <1>9
  <2> QED
    BY ONLY <1>7, <1>10, <2>1, RunAgrees, n \in Nat, m \in Nat, p \in Nat \ {0}
<1>12. g[n + 1] = Grown(g[n], st[Last(g[n])][t[n + 1]])
  BY <1>9, <1>10 DEF Runs
<1>13. n \in p..Len(s) /\ n \in p..n
  BY <1>1, <1>5
<1>14. r \in Seq(Int) /\ Len(r) = n - p + 1
  BY <1>7, <1>13, RunTypes
<1>15. Last(r) \in Int
  <2>1. Len(r) \in 1..Len(r)
    BY <1>13, <1>14
  <2> QED BY <1>14, <2>1, ElementOfSeq DEF Last
<1>16. st[Last(r)][x] \in Int
  BY <1>15 DEF Steps
<1>17. Running(t, p, st) = Grown(r, st[Last(r)][x])
  BY <1>5, <1>7, <1>8, <1>10, <1>11, <1>12
<1>18. Last(Grown(r, st[Last(r)][x])) = st[Last(r)][x]
  BY <1>14, <1>16, GrownTypes, Len(r) \in Int
<1> QED BY <1>1, <1>2, <1>4, <1>14, <1>15, <1>16, <1>17, <1>18 DEF Grown

\* Both steps are steps.
LEMMA StepFacts ==
    ASSUME NEW p \in Nat \ {0}
    PROVE  /\ Wilder(p) \in Steps /\ Exponential(p) \in Steps
           /\ \A a, b \in Int : /\ Wilder(p)[a][b] = WilderStep(a, b, p)
                                /\ WilderStep(a, b, p) \in Int
                                /\ Exponential(p)[a][b] = EmaStep(a, b, p)
                                /\ EmaStep(a, b, p) \in Int
<1>1. ASSUME NEW k \in Int, NEW q \in Nat \ {0} PROVE k \div q \in Int
  OBVIOUS
<1>2. ASSUME NEW a \in Int, NEW b \in Int
      PROVE  WilderStep(a, b, p) \in Int /\ EmaStep(a, b, p) \in Int
  <2>1. PICK k \in Int : k = a * (p - 1) + b
    OBVIOUS
  <2>2. PICK m \in Int : m = (b - a) * 2
    OBVIOUS
  <2>3. k \div p \in Int /\ m \div (p + 1) \in Int
    BY <1>1
  <2> QED BY <2>1, <2>2, <2>3 DEF WilderStep, EmaStep
<1> QED BY <1>2 DEF Wilder, Exponential, Steps

\* An average follows its series by its step.
LEMMA SmmaSteps ==
    ASSUME NEW s \in Seq(Int), NEW x \in Int, NEW p \in Nat \ {0}, p <= Len(s)
    PROVE  /\ Last(Smma(s, p)) \in Int
           /\ Last(Smma(Append(s, x), p)) = WilderStep(Last(Smma(s, p)), x, p)
<1>1. Wilder(p) \in Steps
  BY StepFacts
<1>2. /\ Last(Running(s, p, Wilder(p))) \in Int
      /\ Last(Running(Append(s, x), p, Wilder(p))) = Wilder(p)[Last(Running(s, p, Wilder(p)))][x]
  BY <1>1, RunningSteps
<1> QED BY <1>2, StepFacts DEF Smma

LEMMA EmaSteps ==
    ASSUME NEW s \in Seq(Int), NEW x \in Int, NEW p \in Nat \ {0}, p <= Len(s)
    PROVE  /\ Ema(s, p) \in Int
           /\ Ema(Append(s, x), p) = EmaStep(Ema(s, p), x, p)
<1>1. Exponential(p) \in Steps
  BY StepFacts
<1>2. /\ Last(Running(s, p, Exponential(p))) \in Int
      /\ Last(Running(Append(s, x), p, Exponential(p)))
             = Exponential(p)[Last(Running(s, p, Exponential(p)))][x]
  BY <1>1, RunningSteps
<1> QED BY <1>2, StepFacts DEF Ema

-----------------------------------------------------------------------------
(* Averages stay between the bounds of what they average. *)

\* A share between as many times two bounds is between the bounds.
LEMMA ShareBetween ==
    ASSUME NEW k \in Int, NEW q \in Nat \ {0}, NEW lo \in Int, NEW hi \in Int,
           k \in (q * lo)..(q * hi)
    PROVE  k \div q \in lo..hi
<1> DEFINE d == k \div q
           r == k % q
<1>1. d \in Int /\ r \in 0..(q - 1) /\ k = q * d + r
  OBVIOUS
<1> HIDE DEF d, r
<1>2. q * d <= q * hi /\ q * lo <= q * d + q - 1
  BY <1>1
<1>3. d <= hi
  <2> SUFFICES ASSUME d >= hi + 1 PROVE FALSE
    BY <1>1
  <2>1. q * (d - hi - 1) >= 0
    BY <1>1
  <2> QED BY <1>1, <1>2, <2>1
<1>4. lo <= d
  <2> SUFFICES ASSUME d <= lo - 1 PROVE FALSE
    BY <1>1
  <2>1. q * (lo - 1 - d) >= 0
    BY <1>1
  <2> QED BY <1>1, <1>2, <2>1
<1> QED BY <1>1, <1>3, <1>4 DEF d

LEMMA MeanBetween ==
    ASSUME NEW s \in Seq(Int), NEW p \in Nat \ {0}, p <= Len(s), NEW lo \in Int, NEW hi \in Int,
           \A i \in 1..Len(s) : s[i] \in lo..hi
    PROVE  Mean(s, p) \in lo..hi
<1>1. SubSeq(s, 1, p) \in Seq(Int)
  OBVIOUS
<1>2. PICK u \in Seq(Int) : u = SubSeq(s, 1, p)
  BY <1>1
<1>3. Len(u) = p /\ \A i \in 1..Len(u) : u[i] \in lo..hi
  BY <1>2
<1>4. Total(u) \in (p * lo)..(p * hi) /\ Total(u) \in Int
  BY <1>3, TotalBetween, TotalIsInt
<1> QED BY <1>2, <1>4, ShareBetween DEF Mean

\* Running stays where its step stays.
LEMMA RunningBetween ==
    ASSUME NEW s \in Seq(Int), NEW p \in Nat \ {0}, p <= Len(s), NEW st \in Steps,
           NEW lo \in Int, NEW hi \in Int, \A i \in 1..Len(s) : s[i] \in lo..hi,
           \A a, b \in lo..hi : st[a][b] \in lo..hi
    PROVE  Last(Running(s, p, st)) \in lo..hi
<1>1. PICK n \in Nat : n = Len(s)
  OBVIOUS
<1>2. PICK c \in lo..hi : c = Mean(s, p)
  BY MeanBetween
<1>3. PICK f : Runs(f, c, s, p, st, n) /\ Running(s, p, st) = f[n]
  BY <1>1, <1>2, RunningIsARun
<1> DEFINE All == {i \in Nat : i \in p..n => /\ f[i] \in Seq(Int) /\ Len(f[i]) = i - p + 1
                                           /\ Last(f[i]) \in lo..hi}
<1>4. 0 \in All
  OBVIOUS
<1>5. ASSUME NEW i \in Nat, i \in All PROVE i + 1 \in All
  <2> SUFFICES ASSUME i + 1 \in p..n
               PROVE  /\ f[i + 1] \in Seq(Int) /\ Len(f[i + 1]) = (i + 1) - p + 1
                      /\ Last(f[i + 1]) \in lo..hi
    OBVIOUS
  <2>1. CASE i + 1 = p
    <3>1. f[i + 1] = <<c>>
      BY <2>1, <1>3 DEF Runs
    <3>2. (i + 1) - p + 1 = 1 /\ c \in Int
      BY <2>1
    <3>3. <<c>> \in Seq(Int) /\ Len(<<c>>) = 1 /\ Last(<<c>>) = c
      BY <3>2 DEF Last
    <3> QED BY <3>1, <3>2, <3>3
  <2>2. CASE i + 1 # p
    <3>1. i \in p..n /\ (i + 1) - 1 = i /\ i + 1 \in 1..Len(s)
      BY <1>1, <2>2
    <3>2. PICK q \in Seq(Int) : q = f[i] /\ Len(q) = i - p + 1 /\ Last(q) \in lo..hi
      BY <1>5, <3>1
    <3>3. PICK y \in lo..hi : y = st[Last(q)][s[i + 1]]
      BY <3>1, <3>2
    <3>4. f[i + 1] = Grown(q, y)
      BY <1>3, <2>2, <3>1, <3>2, <3>3 DEF Runs
    <3>5. /\ Grown(q, y) \in Seq(Int) /\ Len(Grown(q, y)) = (i - p + 1) + 1
          /\ Last(Grown(q, y)) = y
      <4>1. PICK k \in Int : k = i - p + 1
        OBVIOUS
      <4>2. y \in Int /\ Len(q) = k
        BY <3>2, <3>3, <4>1
      <4> QED BY <4>1, <4>2, GrownTypes
    <3> QED BY <3>3, <3>4, <3>5
  <2> QED BY <2>1, <2>2
<1>6. \A i \in Nat : i \in All
  <2> HIDE DEF All
  <2> QED BY <1>4, <1>5, Induction
<1> QED BY <1>1, <1>3, <1>6

\* Both steps stay between the bounds of the value before and the element.
LEMMA StepsBetween ==
    ASSUME NEW p \in Nat \ {0}, NEW lo \in Int, NEW hi \in Int, NEW a \in lo..hi, NEW b \in lo..hi
    PROVE  WilderStep(a, b, p) \in lo..hi /\ EmaStep(a, b, p) \in lo..hi
<1>1. WilderStep(a, b, p) \in lo..hi
  <2>1. (a - lo) * (p - 1) >= 0 /\ (hi - a) * (p - 1) >= 0
    OBVIOUS
  <2>2. PICK k \in Int : k = a * (p - 1) + b
    OBVIOUS
  <2>3. k \in (p * lo)..(p * hi)
    BY <2>1, <2>2
  <2> QED BY <2>2, <2>3, ShareBetween DEF WilderStep
<1>2. EmaStep(a, b, p) \in lo..hi
  <2>1. PICK d \in Int : d = b - a
    OBVIOUS
  <2>2. PICK k \in Int : k = d * 2
    OBVIOUS
  <2>3. CASE d >= 0
    <3>1. d * (p - 1) >= 0
      BY <2>3
    <3>2. k \in ((p + 1) * 0)..((p + 1) * d)
      BY <2>2, <2>3, <3>1
    <3>3. k \div (p + 1) \in 0..d
      BY <3>2, ShareBetween, p + 1 \in Nat \ {0}
    <3> QED BY <2>1, <2>2, <3>3 DEF EmaStep
  <2>4. CASE d < 0
    <3>1. (-d) * (p - 1) >= 0
      BY <2>4
    <3>2. k \in ((p + 1) * d)..((p + 1) * 0)
      BY <2>2, <2>4, <3>1
    <3>3. k \div (p + 1) \in d..0
      BY <3>2, ShareBetween, p + 1 \in Nat \ {0}
    <3> QED BY <2>1, <2>2, <3>3 DEF EmaStep
  <2> QED BY <2>3, <2>4
<1> QED BY <1>1, <1>2

LEMMA AveragesBetween ==
    ASSUME NEW s \in Seq(Int), NEW p \in Nat \ {0}, p <= Len(s), NEW lo \in Int, NEW hi \in Int,
           \A i \in 1..Len(s) : s[i] \in lo..hi
    PROVE  Last(Smma(s, p)) \in lo..hi /\ Ema(s, p) \in lo..hi
<1>1. /\ Wilder(p) \in Steps /\ \A a, b \in lo..hi : Wilder(p)[a][b] \in lo..hi
      /\ Exponential(p) \in Steps /\ \A a, b \in lo..hi : Exponential(p)[a][b] \in lo..hi
  <2>1. ASSUME NEW a \in lo..hi, NEW b \in lo..hi
        PROVE  Wilder(p)[a][b] \in lo..hi /\ Exponential(p)[a][b] \in lo..hi
    <3>1. a \in Int /\ b \in Int
      OBVIOUS
    <3>2. WilderStep(a, b, p) \in lo..hi /\ EmaStep(a, b, p) \in lo..hi
      BY StepsBetween
    <3> QED BY <3>1, <3>2, StepFacts
  <2> QED BY <2>1, StepFacts
<1>2. Last(Running(s, p, Wilder(p))) \in lo..hi
  BY <1>1, RunningBetween
<1>3. Last(Running(s, p, Exponential(p))) \in lo..hi
  BY <1>1, RunningBetween
<1> QED BY <1>2, <1>3 DEF Smma, Ema

-----------------------------------------------------------------------------
(* The series the averages are taken of. *)

\* A list of whole numbers that goes on from another with one element is it, appended.
LEMMA IsAppend ==
    ASSUME NEW u \in Seq(Int), NEW v \in Seq(Int), NEW x \in Int, Len(v) = Len(u) + 1,
           \A i \in 1..Len(u) : v[i] = u[i], v[Len(u) + 1] = x
    PROVE  v = Append(u, x)
<1>1. /\ Append(u, x) \in Seq(Int) /\ Len(Append(u, x)) = Len(u) + 1
      /\ \A i \in 1..Len(u) : Append(u, x)[i] = u[i]
      /\ Append(u, x)[Len(u) + 1] = x
  OBVIOUS
<1>2. \A i \in 1..Len(v) : v[i] = Append(u, x)[i]
  <2> SUFFICES ASSUME NEW i \in 1..Len(v) PROVE v[i] = Append(u, x)[i]
    OBVIOUS
  <2>1. i \in 1..Len(u) \/ i = Len(u) + 1
    OBVIOUS
  <2> QED BY <1>1, <2>1
<1> QED BY <1>1, <1>2, SeqEqual

\* The greatest of a set that has one.
LEMMA MaxFacts ==
    ASSUME NEW All, NEW m \in All, \A y \in All : m >= y
    PROVE  Max(All) \in All /\ \A y \in All : Max(All) >= y
BY DEF Max

Trs(x) == [t \in 1..(Len(x) - 1) |-> TrueRange(x[t], x[t + 1])]
Gains(c) == [t \in 1..(Len(c) - 1) |-> Gain(c[t], c[t + 1])]
Losses(c) == [t \in 1..(Len(c) - 1) |-> Loss(c[t], c[t + 1])]
Volumes(x) == [i \in DOMAIN x |-> x[i].volume]

LEMMA TheSeries ==
    /\ \A x : Atr(x) = Smma(Trs(x), Period)
    /\ \A c : RsiState(c) = [gain |-> Last(Smma(Gains(c), Period)),
                              loss |-> Last(Smma(Losses(c), Period))]
BY DEF Atr, RsiState, Neighbours, Trs, Gains, Losses

LEMMA GainIsNat ==
    ASSUME NEW x \in Int, NEW y \in Int
    PROVE  /\ Gain(x, y) \in Nat /\ Loss(x, y) \in Nat
           /\ x = y => Gain(x, y) = 0 /\ Loss(x, y) = 0
<1>1. ASSUME NEW d \in Int PROVE Max({0, d}) = IF d > 0 THEN d ELSE 0
  <2>1. Max({0, d}) \in {0, d} /\ \A z \in {0, d} : Max({0, d}) >= z
    <3>1. CASE d > 0
      BY <3>1, MaxFacts, d \in {0, d}
    <3>2. CASE ~(d > 0)
      BY <3>2, MaxFacts, 0 \in {0, d}
    <3> QED BY <3>1, <3>2
  <2> QED BY <2>1
<1>2. x - y \in Int /\ y - x \in Int
  OBVIOUS
<1> QED BY <1>1, <1>2 DEF Gain, Loss

LEMMA CandleFacts ==
    ASSUME NEW b \in Candle
    PROVE  /\ b.high \in Nat /\ b.low \in Nat /\ b.volume \in Nat /\ b.close \in Nat \ {0}
           /\ b.open \in Nat /\ b.low <= b.high
BY DEF Candle

\* Of the candle before, a true range knows the close.
LEMMA OnlyTheCloseCounts ==
    ASSUME NEW a, NEW b
    PROVE  TrueRange([close |-> a.close], b) = TrueRange(a, b)
<1>1. [close |-> a.close].close = a.close
  OBVIOUS
<1> QED BY <1>1 DEF TrueRange

LEMMA TrueRangeIsNat ==
    ASSUME NEW a \in Candle, NEW b \in Candle
    PROVE  TrueRange(a, b) \in Nat
<1>1. b.high - b.low \in Nat /\ b.high - a.close \in Int /\ b.low - a.close \in Int
  BY CandleFacts
<1>2. PICK u \in Nat : u = b.high - b.low
  BY <1>1
<1>3. PICK v \in Int : v = Abs(b.high - a.close)
  BY <1>1 DEF Abs
<1>4. PICK w \in Int : w = Abs(b.low - a.close)
  BY <1>1 DEF Abs
<1>5. Max({u, v, w}) \in {u, v, w} /\ \A z \in {u, v, w} : Max({u, v, w}) >= z
  <2>1. \E m \in {u, v, w} : \A z \in {u, v, w} : m >= z
    <3>1. CASE u >= v /\ u >= w
      BY <3>1
    <3>2. CASE v >= u /\ v >= w
      BY <3>2
    <3>3. CASE w >= u /\ w >= v
      BY <3>3
    <3> QED BY <3>1, <3>2, <3>3
  <2> QED BY <2>1, MaxFacts
<1>6. Max({u, v, w}) \in Nat
  BY <1>5
<1> QED BY <1>2, <1>3, <1>4, <1>6 DEF TrueRange

LEMMA ClosesGrow ==
    ASSUME NEW x \in Seq(Candle), NEW b \in Candle
    PROVE  /\ Closes(x) \in Seq(Int) /\ Len(Closes(x)) = Len(x)
           /\ Volumes(x) \in Seq(Int) /\ Len(Volumes(x)) = Len(x)
           /\ b.close \in Int /\ b.volume \in Int
           /\ Closes(Append(x, b)) = Append(Closes(x), b.close)
           /\ Volumes(Append(x, b)) = Append(Volumes(x), b.volume)
<1>1. ASSUME NEW y \in Seq(Candle)
      PROVE  /\ Closes(y) \in Seq(Int) /\ Len(Closes(y)) = Len(y)
             /\ Volumes(y) \in Seq(Int) /\ Len(Volumes(y)) = Len(y)
             /\ \A i \in 1..Len(y) : Closes(y)[i] = y[i].close /\ Volumes(y)[i] = y[i].volume
  <2>1. \A i \in 1..Len(y) : y[i].close \in Int /\ y[i].volume \in Int
    <3>1. \A i \in 1..Len(y) : y[i] \in Candle
      OBVIOUS
    <3> QED BY <3>1, CandleFacts
  <2>2. DOMAIN y = 1..Len(y) /\ Len(y) \in Nat
    OBVIOUS
  <2> QED BY <2>1, <2>2 DEF Closes, Volumes
<1>2. PICK y : y = Append(x, b)
  OBVIOUS
<1>3. y \in Seq(Candle) /\ Len(y) = Len(x) + 1 /\ (\A i \in 1..Len(x) : y[i] = x[i])
      /\ y[Len(x) + 1] = b
  BY <1>2
<1>4. b.close \in Int /\ b.volume \in Int
  BY CandleFacts
<1>5. \A i \in 1..Len(x) : i \in 1..Len(y)
  BY <1>3
<1>6. Len(x) + 1 \in 1..Len(y)
  BY <1>3
<1>7. Closes(y) = Append(Closes(x), b.close)
  <2>1. /\ Closes(x) \in Seq(Int) /\ Closes(y) \in Seq(Int)
        /\ Len(Closes(y)) = Len(Closes(x)) + 1
        /\ \A i \in 1..Len(Closes(x)) : Closes(y)[i] = Closes(x)[i]
        /\ Closes(y)[Len(Closes(x)) + 1] = b.close
    <3>1. /\ Closes(x) \in Seq(Int) /\ Len(Closes(x)) = Len(x)
          /\ \A i \in 1..Len(x) : Closes(x)[i] = x[i].close
      BY <1>1
    <3>2. /\ Closes(y) \in Seq(Int) /\ Len(Closes(y)) = Len(y)
          /\ \A i \in 1..Len(y) : Closes(y)[i] = y[i].close
      BY <1>1, <1>3
    <3> QED BY <1>3, <1>5, <1>6, <3>1, <3>2
  <2> QED BY <1>4, <2>1, IsAppend, Zenon
<1>8. Volumes(y) = Append(Volumes(x), b.volume)
  <2>1. /\ Volumes(x) \in Seq(Int) /\ Volumes(y) \in Seq(Int)
        /\ Len(Volumes(y)) = Len(Volumes(x)) + 1
        /\ \A i \in 1..Len(Volumes(x)) : Volumes(y)[i] = Volumes(x)[i]
        /\ Volumes(y)[Len(Volumes(x)) + 1] = b.volume
    <3>1. /\ Volumes(x) \in Seq(Int) /\ Len(Volumes(x)) = Len(x)
          /\ \A i \in 1..Len(x) : Volumes(x)[i] = x[i].volume
      BY <1>1
    <3>2. /\ Volumes(y) \in Seq(Int) /\ Len(Volumes(y)) = Len(y)
          /\ \A i \in 1..Len(y) : Volumes(y)[i] = y[i].volume
      BY <1>1, <1>3
    <3> QED BY <1>3, <1>5, <1>6, <3>1, <3>2
  <2> QED BY <1>4, <2>1, IsAppend, Zenon
<1> QED BY <1>1, <1>2, <1>4, <1>7, <1>8

\* What is taken of neighbours.
LEMMA NeighboursAre ==
    /\ \A c \in Seq(Int) : Len(c) >= 1 =>
           /\ Gains(c) \in Seq(Int) /\ Len(Gains(c)) = Len(c) - 1
           /\ Losses(c) \in Seq(Int) /\ Len(Losses(c)) = Len(c) - 1
           /\ \A i \in 1..(Len(c) - 1) : /\ Gains(c)[i] = Gain(c[i], c[i + 1]) /\ Gains(c)[i] \in Nat
                                         /\ Losses(c)[i] = Loss(c[i], c[i + 1]) /\ Losses(c)[i] \in Nat
    /\ \A x \in Seq(Candle) : Len(x) >= 1 =>
           /\ Trs(x) \in Seq(Int) /\ Len(Trs(x)) = Len(x) - 1
           /\ \A i \in 1..(Len(x) - 1) : Trs(x)[i] = TrueRange(x[i], x[i + 1]) /\ Trs(x)[i] \in Nat
<1>1. ASSUME NEW c \in Seq(Int), Len(c) >= 1
      PROVE  /\ Gains(c) \in Seq(Int) /\ Len(Gains(c)) = Len(c) - 1
             /\ Losses(c) \in Seq(Int) /\ Len(Losses(c)) = Len(c) - 1
             /\ \A i \in 1..(Len(c) - 1) : /\ Gains(c)[i] = Gain(c[i], c[i + 1]) /\ Gains(c)[i] \in Nat
                                           /\ Losses(c)[i] = Loss(c[i], c[i + 1]) /\ Losses(c)[i] \in Nat
  <2>1. PICK n \in Nat : n = Len(c) - 1
    BY <1>1, Len(c) \in Nat
  <2>2. \A i \in 1..n : c[i] \in Int /\ c[i + 1] \in Int
    BY <2>1
  <2>3. \A i \in 1..n : Gain(c[i], c[i + 1]) \in Nat /\ Loss(c[i], c[i + 1]) \in Nat
    BY <2>2, GainIsNat
  <2> QED BY <2>1, <2>3 DEF Gains, Losses
<1>2. ASSUME NEW x \in Seq(Candle), Len(x) >= 1
      PROVE  /\ Trs(x) \in Seq(Int) /\ Len(Trs(x)) = Len(x) - 1
             /\ \A i \in 1..(Len(x) - 1) : Trs(x)[i] = TrueRange(x[i], x[i + 1]) /\ Trs(x)[i] \in Nat
  <2>1. PICK n \in Nat : n = Len(x) - 1
    BY <1>2, Len(x) \in Nat
  <2>2. \A i \in 1..n : x[i] \in Candle /\ x[i + 1] \in Candle
    BY <2>1
  <2>3. \A i \in 1..n : TrueRange(x[i], x[i + 1]) \in Nat
    BY <2>2, TrueRangeIsNat
  <2> QED BY <2>1, <2>3 DEF Trs
<1> QED BY <1>1, <1>2

LEMMA NeighboursGrow ==
    ASSUME NEW c \in Seq(Int), NEW y \in Int, Len(c) >= 1
    PROVE  /\ Gains(Append(c, y)) = Append(Gains(c), Gain(Last(c), y)) /\ Gain(Last(c), y) \in Int
           /\ Losses(Append(c, y)) = Append(Losses(c), Loss(Last(c), y)) /\ Loss(Last(c), y) \in Int
<1>1. Append(c, y) \in Seq(Int)
  OBVIOUS
<1>2. PICK d \in Seq(Int) : d = Append(c, y)
  BY <1>1
<1>3. Len(c) - 1 \in Nat /\ Len(Append(c, y)) >= 1
  OBVIOUS
<1>4. PICK n \in Nat : n = Len(c) - 1
  BY <1>3
<1>5. /\ Len(d) = n + 2 /\ n + 1 = Len(c) /\ (\A i \in 1..(n + 1) : d[i] = c[i])
      /\ d[n + 2] = y /\ c[n + 1] = Last(c) /\ c[n + 1] \in Int
  BY <1>2, <1>4 DEF Last
<1>6. \A i \in 1..n : d[i] = c[i] /\ d[i + 1] = c[i + 1] /\ i \in 1..(Len(d) - 1)
  BY <1>5
<1>7. d[n + 1] = Last(c) /\ d[(n + 1) + 1] = y /\ n + 1 \in 1..(Len(d) - 1)
  BY <1>5
<1>8. Gain(Last(c), y) \in Int /\ Loss(Last(c), y) \in Int
  BY <1>5, GainIsNat
<1>9. /\ Gains(c) \in Seq(Int) /\ Len(Gains(c)) = n /\ Gains(d) \in Seq(Int) /\ Len(Gains(d)) = n + 1
      /\ Losses(c) \in Seq(Int) /\ Len(Losses(c)) = n /\ Losses(d) \in Seq(Int) /\ Len(Losses(d)) = n + 1
  <2>1. /\ Gains(c) \in Seq(Int) /\ Len(Gains(c)) = Len(c) - 1
        /\ Losses(c) \in Seq(Int) /\ Len(Losses(c)) = Len(c) - 1
    BY NeighboursAre
  <2>2. /\ Gains(d) \in Seq(Int) /\ Len(Gains(d)) = Len(d) - 1
        /\ Losses(d) \in Seq(Int) /\ Len(Losses(d)) = Len(d) - 1
    BY <1>3, <1>2, NeighboursAre
  <2>3. Len(d) - 1 = n + 1 /\ Len(c) - 1 = n
    BY <1>4, <1>5
  <2> QED BY <2>1, <2>2, <2>3
<1>10. /\ \A i \in 1..n : Gains(d)[i] = Gains(c)[i] /\ Losses(d)[i] = Losses(c)[i]
      /\ Gains(d)[n + 1] = Gain(Last(c), y) /\ Losses(d)[n + 1] = Loss(Last(c), y)
  BY <1>4, <1>6, <1>7 DEF Gains, Losses
<1>11. Gains(d) = Append(Gains(c), Gain(Last(c), y))
  <2>1. /\ Len(Gains(d)) = Len(Gains(c)) + 1
        /\ \A i \in 1..Len(Gains(c)) : Gains(d)[i] = Gains(c)[i]
        /\ Gains(d)[Len(Gains(c)) + 1] = Gain(Last(c), y)
    BY <1>9, <1>10
  <2> QED BY <1>8, <1>9, <2>1, IsAppend, Zenon
<1>12. Losses(d) = Append(Losses(c), Loss(Last(c), y))
  <2>1. /\ Len(Losses(d)) = Len(Losses(c)) + 1
        /\ \A i \in 1..Len(Losses(c)) : Losses(d)[i] = Losses(c)[i]
        /\ Losses(d)[Len(Losses(c)) + 1] = Loss(Last(c), y)
    BY <1>9, <1>10
  <2> QED BY <1>8, <1>9, <2>1, IsAppend, Zenon
<1> QED BY <1>2, <1>8, <1>11, <1>12

LEMMA TrsGrow ==
    ASSUME NEW x \in Seq(Candle), NEW b \in Candle, Len(x) >= 1
    PROVE  /\ Trs(Append(x, b)) = Append(Trs(x), TrueRange(Last(x), b))
           /\ TrueRange(Last(x), b) \in Int
<1>1. Append(x, b) \in Seq(Candle)
  OBVIOUS
<1>2. PICK d \in Seq(Candle) : d = Append(x, b)
  BY <1>1
<1>3. Len(x) - 1 \in Nat /\ Len(Append(x, b)) >= 1
  OBVIOUS
<1>4. PICK n \in Nat : n = Len(x) - 1
  BY <1>3
<1>5. /\ Len(d) = n + 2 /\ n + 1 = Len(x) /\ (\A i \in 1..(n + 1) : d[i] = x[i])
      /\ d[n + 2] = b /\ x[n + 1] = Last(x) /\ x[n + 1] \in Candle
  BY <1>2, <1>4 DEF Last
<1>6. \A i \in 1..n : d[i] = x[i] /\ d[i + 1] = x[i + 1] /\ i \in 1..(Len(d) - 1)
  BY <1>5
<1>7. d[n + 1] = Last(x) /\ d[(n + 1) + 1] = b /\ n + 1 \in 1..(Len(d) - 1)
  BY <1>5
<1>8. TrueRange(Last(x), b) \in Int
  <2>1. Last(x) \in Candle
    BY <1>5
  <2> QED BY <2>1, TrueRangeIsNat
<1>9. /\ Trs(x) \in Seq(Int) /\ Len(Trs(x)) = n /\ Trs(d) \in Seq(Int) /\ Len(Trs(d)) = n + 1
  <2>1. Trs(x) \in Seq(Int) /\ Len(Trs(x)) = Len(x) - 1
    BY NeighboursAre
  <2>2. Trs(d) \in Seq(Int) /\ Len(Trs(d)) = Len(d) - 1
    BY <1>3, <1>2, NeighboursAre
  <2>3. Len(d) - 1 = n + 1 /\ Len(x) - 1 = n
    BY <1>4, <1>5
  <2> QED BY <2>1, <2>2, <2>3
<1>10. (\A i \in 1..n : Trs(d)[i] = Trs(x)[i]) /\ Trs(d)[n + 1] = TrueRange(Last(x), b)
  BY <1>4, <1>6, <1>7 DEF Trs
<1>11. Trs(d) = Append(Trs(x), TrueRange(Last(x), b))
  <2>1. /\ Len(Trs(d)) = Len(Trs(x)) + 1
        /\ \A i \in 1..Len(Trs(x)) : Trs(d)[i] = Trs(x)[i]
        /\ Trs(d)[Len(Trs(x)) + 1] = TrueRange(Last(x), b)
    BY <1>9, <1>10
  <2> QED BY <1>8, <1>9, <2>1, IsAppend, Zenon
<1> QED BY <1>2, <1>8, <1>11

-----------------------------------------------------------------------------
(* What is stepped is what a fresh computation gives. *)

\* MinSignalBars is enough for every average.
LEMMA MinSignalFacts ==
    /\ MinSignalBars \in Int /\ MinSignalBars >= EmaLong
    /\ MinSignalBars >= Period + 1 /\ MinSignalBars >= VolumePeriod
<1>1. PICK a \in Int, b \in Int, c \in Int : a = EmaLong /\ b = Period + 1 /\ c = VolumePeriod
  BY PeriodsArePositive
<1>2. \E m \in {a, b, c} : \A z \in {a, b, c} : m >= z
  <2>1. CASE a >= b /\ a >= c
    BY <2>1
  <2>2. CASE b >= a /\ b >= c
    BY <2>2
  <2>3. CASE c >= a /\ c >= b
    BY <2>3
  <2> QED BY <2>1, <2>2, <2>3
<1>3. Max({a, b, c}) \in {a, b, c} /\ \A z \in {a, b, c} : Max({a, b, c}) >= z
  BY <1>2, MaxFacts
<1> QED BY <1>1, <1>3 DEF MinSignalBars

LEMMA EnoughBars ==
    ASSUME NEW n \in Nat, n >= MinSignalBars
    PROVE  /\ EmaShort \in Nat \ {0} /\ EmaShort <= n /\ EmaLong \in Nat \ {0} /\ EmaLong <= n
           /\ VolumePeriod \in Nat \ {0} /\ VolumePeriod <= n
           /\ Period \in Nat \ {0} /\ Period <= n - 1 /\ 1 <= n
BY MinSignalFacts, PeriodsArePositive

\* The lasts of two series of candles.
LEMMA LastCandles ==
    ASSUME NEW x \in Seq(Candle), NEW b \in Candle, Len(x) >= 1
    PROVE  /\ Last(Append(x, b)) = b /\ Last(x) \in Candle
           /\ Last(Closes(x)) = Last(x).close /\ Last(Volumes(x)) = Last(x).volume
<1>1. Append(x, b)[Len(x) + 1] = b /\ Len(Append(x, b)) = Len(x) + 1
  OBVIOUS
<1>2. Len(x) \in 1..Len(x) /\ DOMAIN x = 1..Len(x)
  OBVIOUS
<1>3. x[Len(x)] \in Candle
  BY <1>2
<1>4. Len(Closes(x)) = Len(x) /\ Len(Volumes(x)) = Len(x)
  BY ClosesGrow
<1>5. Closes(x)[Len(x)] = x[Len(x)].close /\ Volumes(x)[Len(x)] = x[Len(x)].volume
  BY <1>2 DEF Closes, Volumes
<1> QED BY <1>1, <1>3, <1>4, <1>5 DEF Last

\* A candle more, and the average true range takes a step.
LEMMA AtrSteps ==
    ASSUME NEW x \in Seq(Candle), NEW b \in Candle, Period <= Len(x) - 1, NEW a, a = Last(x).close
    PROVE  Last(Atr(Append(x, b)))
               = WilderStep(Last(Atr(x)), TrueRange([close |-> a], b), Period)
<1>1. Period \in Nat \ {0} /\ Len(x) >= 1
  BY PeriodsArePositive, Len(x) \in Nat
<1>2. Trs(x) \in Seq(Int) /\ Len(Trs(x)) = Len(x) - 1
  BY <1>1, NeighboursAre
<1>3. /\ Trs(Append(x, b)) = Append(Trs(x), TrueRange(Last(x), b))
      /\ TrueRange(Last(x), b) \in Int
  BY <1>1, TrsGrow
<1>4. Period <= Len(Trs(x))
  BY <1>2
<1>5. Last(Smma(Append(Trs(x), TrueRange(Last(x), b)), Period))
          = WilderStep(Last(Smma(Trs(x), Period)), TrueRange(Last(x), b), Period)
  BY <1>1, <1>2, <1>3, <1>4, SmmaSteps
<1>6. TrueRange([close |-> a], b) = TrueRange(Last(x), b)
  BY OnlyTheCloseCounts
<1> QED BY <1>3, <1>5, <1>6, TheSeries

\* LiveIndicators.update is a step of the fresh computation.
LEMMA SeededSteps ==
    ASSUME NEW x \in Seq(Candle), NEW b \in Candle, Len(x) >= MinSignalBars
    PROVE  Seeded(Append(x, b)) = Updated(Seeded(x), b)
<1> DEFINE y == Append(x, b)
           st == Seeded(x)
<1>1. /\ EmaShort \in Nat \ {0} /\ EmaShort <= Len(x) /\ EmaLong \in Nat \ {0} /\ EmaLong <= Len(x)
      /\ VolumePeriod \in Nat \ {0} /\ VolumePeriod <= Len(x)
      /\ Period \in Nat \ {0} /\ Period <= Len(x) - 1 /\ 1 <= Len(x) /\ Len(x) >= 1
  BY EnoughBars, Len(x) \in Nat
<1>2. /\ Closes(x) \in Seq(Int) /\ Len(Closes(x)) = Len(x)
      /\ Volumes(x) \in Seq(Int) /\ Len(Volumes(x)) = Len(x)
      /\ b.close \in Int /\ b.volume \in Int
      /\ Closes(y) = Append(Closes(x), b.close)
      /\ Volumes(y) = Append(Volumes(x), b.volume)
  BY ClosesGrow
<1>3. /\ Last(y) = b /\ Last(x) \in Candle
      /\ Last(Closes(x)) = Last(x).close /\ Last(Volumes(x)) = Last(x).volume
  BY <1>1, LastCandles
<1>4. /\ st.atr = Last(Atr(x)) /\ st.rsi = RsiState(Closes(x))
      /\ st.short = Ema(Closes(x), EmaShort) /\ st.long = Ema(Closes(x), EmaLong)
      /\ st.volumeMa = Last(Smma(Volumes(x), VolumePeriod)) /\ st.close = Last(x).close
  BY DEF Seeded, VolumeMa, Volumes
<1>5. Last(Atr(y)) = WilderStep(st.atr, TrueRange([close |-> st.close], b), Period)
  <2>1. Last(Atr(y)) = WilderStep(Last(Atr(x)), TrueRange([close |-> Last(x).close], b), Period)
    BY <1>1, AtrSteps
  <2> QED BY <1>4, <2>1
<1>6. /\ Ema(Closes(y), EmaShort) = EmaStep(st.short, b.close, EmaShort)
      /\ Ema(Closes(y), EmaLong) = EmaStep(st.long, b.close, EmaLong)
  <2>1. Ema(Append(Closes(x), b.close), EmaShort) = EmaStep(Ema(Closes(x), EmaShort), b.close, EmaShort)
    BY <1>1, <1>2, EmaSteps
  <2>2. Ema(Append(Closes(x), b.close), EmaLong) = EmaStep(Ema(Closes(x), EmaLong), b.close, EmaLong)
    BY <1>1, <1>2, EmaSteps
  <2> QED BY <1>2, <1>4, <2>1, <2>2
<1>7. Last(Smma(Volumes(y), VolumePeriod)) = WilderStep(st.volumeMa, b.volume, VolumePeriod)
  <2>1. Last(Smma(Append(Volumes(x), b.volume), VolumePeriod))
            = WilderStep(Last(Smma(Volumes(x), VolumePeriod)), b.volume, VolumePeriod)
    BY <1>1, <1>2, SmmaSteps
  <2> QED BY <1>2, <1>4, <2>1
<1>8. RsiState(Closes(y)) = RsiStep(st.rsi, st.close, b.close)
  <2> DEFINE c == Closes(x)
  <2>1. PICK a : a = st.close /\ a = Last(c)
    BY <1>3, <1>4
  <2>2. /\ Gains(Append(c, b.close)) = Append(Gains(c), Gain(a, b.close)) /\ Gain(a, b.close) \in Int
        /\ Losses(Append(c, b.close)) = Append(Losses(c), Loss(a, b.close)) /\ Loss(a, b.close) \in Int
    BY <1>1, <1>2, <2>1, NeighboursGrow
  <2>3. /\ Gains(c) \in Seq(Int) /\ Len(Gains(c)) = Len(c) - 1
        /\ Losses(c) \in Seq(Int) /\ Len(Losses(c)) = Len(c) - 1
    BY <1>1, <1>2, NeighboursAre
  <2>4. Period <= Len(Gains(c)) /\ Period <= Len(Losses(c))
    BY <1>1, <1>2, <2>3
  <2>5. Last(Smma(Append(Gains(c), Gain(a, b.close)), Period))
            = WilderStep(Last(Smma(Gains(c), Period)), Gain(a, b.close), Period)
    BY <1>1, <2>2, <2>3, <2>4, SmmaSteps
  <2>6. Last(Smma(Append(Losses(c), Loss(a, b.close)), Period))
            = WilderStep(Last(Smma(Losses(c), Period)), Loss(a, b.close), Period)
    BY <1>1, <2>2, <2>3, <2>4, SmmaSteps
  <2>7. /\ RsiState(c) = [gain |-> Last(Smma(Gains(c), Period)), loss |-> Last(Smma(Losses(c), Period))]
        /\ RsiState(Closes(y)) = [gain |-> Last(Smma(Gains(Closes(y)), Period)),
                                  loss |-> Last(Smma(Losses(Closes(y)), Period))]
    BY TheSeries
  <2>8. st.rsi.gain = Last(Smma(Gains(c), Period)) /\ st.rsi.loss = Last(Smma(Losses(c), Period))
    BY <1>4, <2>7
  <2> QED BY <1>2, <2>1, <2>2, <2>5, <2>6, <2>7, <2>8 DEF RsiStep
<1>9. Seeded(y) = [atr |-> Last(Atr(y)), rsi |-> RsiState(Closes(y)),
                   short |-> Ema(Closes(y), EmaShort), long |-> Ema(Closes(y), EmaLong),
                   volumeMa |-> Last(Smma(Volumes(y), VolumePeriod)),
                   volume |-> Last(y).volume, close |-> Last(y).close]
  BY DEF Seeded, VolumeMa, Volumes
<1> HIDE DEF st, y
<1> QED BY <1>3, <1>5, <1>6, <1>7, <1>8, <1>9 DEF Updated, st, y

\* So is DailyDecisionCache.advance.
LEMMA DecisionSteps ==
    ASSUME NEW x \in Seq(Candle), NEW b \in Candle, Len(x) >= DecisionSlow,
           DecisionSeeded(x) # None
    PROVE  DecisionSeeded(Append(x, b)) = DecisionAdvanced(DecisionSeeded(x), b)
<1> DEFINE y == Append(x, b)
           d == DecisionSeeded(x)
<1>1. /\ DecisionFast \in Nat \ {0} /\ DecisionFast <= Len(x)
      /\ DecisionSlow \in Nat \ {0} /\ DecisionSlow <= Len(x) /\ DecisionSlow <= Len(x) + 1
      /\ Period <= Len(x) - 1 /\ Len(x) >= 1
  BY DecisionPeriods, PeriodsArePositive, Len(x) \in Nat
<1>2. /\ Closes(x) \in Seq(Int) /\ Len(Closes(x)) = Len(x)
      /\ b.close \in Int /\ Closes(y) = Append(Closes(x), b.close)
  BY ClosesGrow
<1>3. Last(y) = b /\ Len(y) = Len(x) + 1
  BY <1>1, LastCandles
<1>4. d = [close |-> Last(x).close, fast |-> Ema(Closes(x), DecisionFast),
           slow |-> Ema(Closes(x), DecisionSlow), atr |-> Last(Atr(x))]
  BY <1>1 DEF DecisionSeeded
<1>5. DecisionSeeded(y) = [close |-> Last(y).close, fast |-> Ema(Closes(y), DecisionFast),
                           slow |-> Ema(Closes(y), DecisionSlow), atr |-> Last(Atr(y))]
  BY <1>1, <1>3 DEF DecisionSeeded
<1>6. Last(Atr(y)) = WilderStep(d.atr, TrueRange([close |-> d.close], b), Period)
  <2>1. Last(Atr(y)) = WilderStep(Last(Atr(x)), TrueRange([close |-> Last(x).close], b), Period)
    BY <1>1, AtrSteps
  <2> QED BY <1>4, <2>1
<1>7. /\ Ema(Closes(y), DecisionFast) = EmaStep(d.fast, b.close, DecisionFast)
      /\ Ema(Closes(y), DecisionSlow) = EmaStep(d.slow, b.close, DecisionSlow)
  <2>1. Ema(Append(Closes(x), b.close), DecisionFast)
            = EmaStep(Ema(Closes(x), DecisionFast), b.close, DecisionFast)
    BY <1>1, <1>2, EmaSteps
  <2>2. Ema(Append(Closes(x), b.close), DecisionSlow)
            = EmaStep(Ema(Closes(x), DecisionSlow), b.close, DecisionSlow)
    BY <1>1, <1>2, EmaSteps
  <2> QED BY <1>2, <1>4, <2>1, <2>2
<1>8. DecisionAdvanced(d, b)
          = [close |-> b.close, fast |-> EmaStep(d.fast, b.close, DecisionFast),
             slow |-> EmaStep(d.slow, b.close, DecisionSlow),
             atr |-> WilderStep(d.atr, TrueRange([close |-> d.close], b), Period)]
  BY DEF DecisionAdvanced
<1> HIDE DEF d, y
<1> QED BY <1>3, <1>5, <1>6, <1>7, <1>8 DEF d, y

-----------------------------------------------------------------------------
(* The candles. *)

\* The numbers are those of the bars, and the caps those of the bars that were the seed.
CandlesInv ==
    /\ bars \in Seq(Candle)
    /\ live # None => Len(bars) >= MinSignalBars /\ live = Seeded(bars)
    /\ daily # None => Len(bars) >= DecisionSlow /\ daily = DecisionSeeded(bars)
    /\ caps # None => \E n \in 1..Len(bars) :
                          /\ n >= MinSignalBars /\ SubSeq(bars, 1, n) \in SeedSeries
                          /\ caps = MppCaps(SubSeq(bars, 1, n))

LEMMA SameSeed ==
    ASSUME NEW x \in Seq(Candle)
    PROVE  /\ SubSeq(x, 1, Len(x)) = x
           /\ \A b \in Candle, n \in 1..Len(x) : SubSeq(Append(x, b), 1, n) = SubSeq(x, 1, n)
<1>1. ASSUME NEW y \in Seq(Candle), NEW n \in 1..Len(y)
      PROVE  /\ SubSeq(y, 1, n) \in Seq(Candle) /\ Len(SubSeq(y, 1, n)) = n
             /\ \A i \in 1..n : SubSeq(y, 1, n)[i] = y[i]
  OBVIOUS
<1>2. SubSeq(x, 1, Len(x)) = x
  <2>1. CASE Len(x) = 0
    <3>1. x = <<>> /\ SubSeq(x, 1, 0) = <<>>
      BY <2>1
    <3> QED BY <2>1, <3>1
  <2>2. CASE Len(x) # 0
    <3>1. Len(x) \in 1..Len(x)
      BY <2>2
    <3> QED BY <1>1, <3>1, SeqEqual
  <2> QED BY <2>1, <2>2
<1>3. ASSUME NEW b \in Candle, NEW n \in 1..Len(x)
      PROVE  SubSeq(Append(x, b), 1, n) = SubSeq(x, 1, n)
  <2>1. PICK y \in Seq(Candle) : y = Append(x, b)
    <3>1. Append(x, b) \in Seq(Candle)
      OBVIOUS
    <3> QED BY <3>1
  <2>2. n \in 1..Len(y) /\ \A i \in 1..n : y[i] = x[i]
    BY <2>1
  <2> DEFINE u == SubSeq(y, 1, n)
             v == SubSeq(x, 1, n)
  <2>3. u \in Seq(Candle) /\ v \in Seq(Candle) /\ Len(u) = n /\ Len(v) = n /\ \A i \in 1..n : u[i] = v[i]
    BY <1>1, <2>2
  <2> HIDE DEF u, v
  <2>4. u = v
    BY <2>3, SeqEqual
  <2> QED BY <2>1, <2>4 DEF u, v
<1> QED BY <1>2, <1>3

LEMMA CandlesInit == MarketInit => CandlesInv
BY DEF MarketInit, CandlesInv

LEMMA WarmInv == ASSUME CandlesInv, NEW series \in SeedSeries, Warm(series) PROVE CandlesInv'
<1>1. /\ bars' = series /\ live' = Seeded(series) /\ Len(series) >= MinSignalBars
      /\ daily' = DecisionSeeded(series) /\ caps' = MppCaps(series)
  BY DEF Warm
<1>2. series \in Seq(Candle)
  BY CandlesAssumption
<1>3. daily' # None => Len(series) >= DecisionSlow
  BY <1>1, <1>2, DecisionPeriods, Len(series) \in Nat DEF DecisionSeeded
<1>4. Len(series) \in 1..Len(series) /\ SubSeq(series, 1, Len(series)) = series
  BY <1>1, <1>2, EnoughBars, SameSeed, Len(series) \in Nat
<1> QED BY <1>1, <1>2, <1>3, <1>4 DEF CandlesInv

LEMMA CommitInv == ASSUME CandlesInv, NEW b \in ClosedCandles, Commit(b) PROVE CandlesInv'
<1>1. /\ live # None /\ bars' = Append(bars, b) /\ live' = Updated(live, b)
      /\ daily' = DecisionAdvanced(daily, b) /\ caps' = caps
  BY DEF Commit
<1>2. b \in Candle /\ bars \in Seq(Candle) /\ Len(bars) \in Nat
  BY CandlesAssumption DEF CandlesInv
<1>3. bars' \in Seq(Candle) /\ Len(bars') = Len(bars) + 1
  BY <1>1, <1>2
<1>4. live' = Seeded(bars') /\ Len(bars') >= MinSignalBars
  <2>1. Len(bars) >= MinSignalBars /\ live = Seeded(bars)
    BY <1>1 DEF CandlesInv
  <2>2. Seeded(Append(bars, b)) = Updated(Seeded(bars), b)
    BY <1>2, <2>1, SeededSteps
  <2>3. Len(bars) + 1 >= MinSignalBars
    <3>1. MinSignalBars \in Int
      BY MinSignalFacts
    <3> QED BY <1>2, <2>1, <3>1
  <2> QED BY <1>1, <1>3, <2>1, <2>2, <2>3
<1>5. daily' # None => Len(bars') >= DecisionSlow /\ daily' = DecisionSeeded(bars')
  <2> SUFFICES ASSUME daily' # None
               PROVE  Len(bars') >= DecisionSlow /\ daily' = DecisionSeeded(bars')
    OBVIOUS
  <2>1. daily # None
    BY <1>1 DEF DecisionAdvanced
  <2>2. Len(bars) >= DecisionSlow /\ daily = DecisionSeeded(bars)
    BY <2>1 DEF CandlesInv
  <2>3. DecisionSeeded(Append(bars, b)) = DecisionAdvanced(DecisionSeeded(bars), b)
    BY <1>2, <2>1, <2>2, DecisionSteps
  <2>4. Len(bars) + 1 >= DecisionSlow
    BY <1>2, <2>2, DecisionPeriods
  <2> QED BY <1>1, <1>3, <2>2, <2>3, <2>4
<1>6. caps' # None => \E n \in 1..Len(bars') :
                         /\ n >= MinSignalBars /\ SubSeq(bars', 1, n) \in SeedSeries
                         /\ caps' = MppCaps(SubSeq(bars', 1, n))
  <2> SUFFICES ASSUME caps # None
               PROVE  \E n \in 1..Len(bars') :
                         /\ n >= MinSignalBars /\ SubSeq(bars', 1, n) \in SeedSeries
                         /\ caps = MppCaps(SubSeq(bars', 1, n))
    BY <1>1
  <2>1. PICK n \in 1..Len(bars) : /\ n >= MinSignalBars /\ SubSeq(bars, 1, n) \in SeedSeries
                                  /\ caps = MppCaps(SubSeq(bars, 1, n))
    BY DEF CandlesInv
  <2>2. n \in 1..Len(bars') /\ SubSeq(bars', 1, n) = SubSeq(bars, 1, n)
    BY <1>1, <1>2, <1>3, SameSeed
  <2> QED BY <2>1, <2>2
<1> QED BY <1>3, <1>4, <1>5, <1>6 DEF CandlesInv

MarketNext == CandlesNext \/ RegimesNext

LEMMA CandlesStep == CandlesInv /\ [MarketNext]_marketVars => CandlesInv'
<1> SUFFICES ASSUME CandlesInv, [MarketNext]_marketVars PROVE CandlesInv'
  OBVIOUS
<1>1. CASE CandlesNext
  BY <1>1, WarmInv, CommitInv DEF CandlesNext
<1>2. CASE UNCHANGED <<bars, live, daily, caps>>
  BY <1>2 DEF CandlesInv
<1>3. CASE RegimesNext
  BY <1>2, <1>3 DEF RegimesNext, StartCompute, ComputeFails, ComputeOne
<1>4. CASE UNCHANGED marketVars
  BY <1>2, <1>4 DEF marketVars
<1> QED BY <1>1, <1>3, <1>4 DEF MarketNext

-----------------------------------------------------------------------------
(* What the numbers are, of the bars. *)

\* The least and the greatest of a list.
LEMMA RangeBounds ==
    ASSUME NEW s \in Seq(Int), Len(s) >= 1
    PROVE  /\ Min(Range(s)) \in Int /\ Max(Range(s)) \in Int
           /\ \A i \in 1..Len(s) : s[i] \in Min(Range(s))..Max(Range(s))
           /\ Min(Range(s)) \in Range(s) /\ Max(Range(s)) \in Range(s)
<1>1. Len(s) \in Nat /\ \A i \in 1..Len(s) : s[i] \in Int
  OBVIOUS
<1>2. PICK l \in 1..Len(s), h \in 1..Len(s) : \A i \in 1..Len(s) : s[l] <= s[i] /\ s[i] <= s[h]
  BY Extremes
<1>3. PICK R : R = Range(s)
  OBVIOUS
<1>4. R = {s[i] : i \in 1..Len(s)}
  BY <1>3 DEF Range
<1>5. s[l] \in R /\ s[h] \in R /\ (\A y \in R : s[l] <= y /\ y <= s[h]) /\ R \subseteq Int
  BY <1>1, <1>2, <1>4
<1>6. Min(R) \in R /\ \A y \in R : Min(R) <= y
  BY <1>5 DEF Min
<1>7. Max(R) \in R /\ \A y \in R : Max(R) >= y
  BY <1>5 DEF Max
<1>8. \A i \in 1..Len(s) : s[i] \in R
  BY <1>4
<1> QED BY <1>3, <1>5, <1>6, <1>7, <1>8

\* The average of naturals is one, and of zeros zero.
LEMMA AverageIsNat ==
    ASSUME NEW s \in Seq(Int), NEW p \in Nat \ {0}, p <= Len(s), \A i \in 1..Len(s) : s[i] \in Nat
    PROVE  /\ Last(Smma(s, p)) \in Nat /\ Last(Smma(s, p)) <= Max(Range(s))
           /\ (\A i \in 1..Len(s) : s[i] = 0) => Last(Smma(s, p)) = 0
<1>1. PICK lo \in Int, hi \in Int : /\ hi = Max(Range(s)) /\ \A i \in 1..Len(s) : s[i] \in lo..hi
  BY RangeBounds, Len(s) \in Nat /\ Len(s) >= 1
<1>2. \A i \in 1..Len(s) : s[i] \in 0..hi
  BY <1>1
<1>3. Last(Smma(s, p)) \in 0..hi
  BY <1>2, AveragesBetween, 0 \in Int, hi \in Int, Zenon
<1>4. ASSUME \A i \in 1..Len(s) : s[i] = 0 PROVE Last(Smma(s, p)) = 0
  <2>1. \A i \in 1..Len(s) : s[i] \in 0..0
    BY <1>4
  <2>2. Last(Smma(s, p)) \in 0..0
    BY <2>1, AveragesBetween, 0 \in Int, Zenon
  <2> QED BY <2>2
<1> QED BY <1>1, <1>3, <1>4

\* The numbers of bars that are enough.
LEMMA SeededFacts ==
    ASSUME NEW x \in Seq(Candle), Len(x) >= MinSignalBars, NEW st, st = Seeded(x)
    PROVE  /\ DOMAIN st = {"atr", "rsi", "short", "long", "volumeMa", "volume", "close"}
           /\ st.atr \in Nat /\ st.atr <= Max(Range(Trs(x)))
           /\ st.rsi.gain \in Nat /\ st.rsi.loss \in Nat
           /\ st.short \in Min(Range(Closes(x)))..Max(Range(Closes(x)))
           /\ st.long \in Min(Range(Closes(x)))..Max(Range(Closes(x)))
           /\ (\A i \in 1..Len(x) : x[i].close = x[1].close)
                  => st.rsi.gain = 0 /\ st.rsi.loss = 0
<1>1. /\ EmaShort \in Nat \ {0} /\ EmaShort <= Len(x) /\ EmaLong \in Nat \ {0} /\ EmaLong <= Len(x)
      /\ Period \in Nat \ {0} /\ Period <= Len(x) - 1 /\ 1 <= Len(x) /\ Len(x) >= 1
  BY EnoughBars, Len(x) \in Nat
<1>2. PICK c \in Seq(Int) : c = Closes(x) /\ Len(c) = Len(x) /\ \A i \in 1..Len(x) : c[i] = x[i].close
  <2>1. \A i \in 1..Len(x) : Closes(x)[i] = x[i].close
    BY DOMAIN x = 1..Len(x) DEF Closes
  <2>2. \E b \in Candle : TRUE
    BY <1>1, x[1] \in Candle
  <2> QED BY <2>1, <2>2, ClosesGrow
<1>3. /\ st.atr = Last(Smma(Trs(x), Period))
      /\ st.rsi.gain = Last(Smma(Gains(c), Period)) /\ st.rsi.loss = Last(Smma(Losses(c), Period))
      /\ st.short = Ema(c, EmaShort) /\ st.long = Ema(c, EmaLong)
      /\ DOMAIN st = {"atr", "rsi", "short", "long", "volumeMa", "volume", "close"}
  BY <1>2, TheSeries DEF Seeded
<1>4. /\ Trs(x) \in Seq(Int) /\ Len(Trs(x)) = Len(x) - 1
      /\ \A i \in 1..(Len(x) - 1) : Trs(x)[i] \in Nat
  BY <1>1, NeighboursAre
<1>5. st.atr \in Nat /\ st.atr <= Max(Range(Trs(x)))
  <2>1. Period <= Len(Trs(x)) /\ \A i \in 1..Len(Trs(x)) : Trs(x)[i] \in Nat
    BY <1>1, <1>4
  <2> QED BY <1>1, <1>3, <1>4, <2>1, AverageIsNat
<1>6. /\ Gains(c) \in Seq(Int) /\ Len(Gains(c)) = Len(c) - 1
      /\ Losses(c) \in Seq(Int) /\ Len(Losses(c)) = Len(c) - 1
      /\ \A i \in 1..(Len(c) - 1) : /\ Gains(c)[i] = Gain(c[i], c[i + 1]) /\ Gains(c)[i] \in Nat
                                    /\ Losses(c)[i] = Loss(c[i], c[i + 1]) /\ Losses(c)[i] \in Nat
  BY <1>1, <1>2, NeighboursAre
<1>7. /\ Period <= Len(Gains(c)) /\ \A i \in 1..Len(Gains(c)) : Gains(c)[i] \in Nat
      /\ Period <= Len(Losses(c)) /\ \A i \in 1..Len(Losses(c)) : Losses(c)[i] \in Nat
  BY <1>1, <1>2, <1>6
<1>8. st.rsi.gain \in Nat /\ ((\A i \in 1..Len(Gains(c)) : Gains(c)[i] = 0) => st.rsi.gain = 0)
  BY <1>1, <1>3, <1>6, <1>7, AverageIsNat
<1>9. st.rsi.loss \in Nat /\ ((\A i \in 1..Len(Losses(c)) : Losses(c)[i] = 0) => st.rsi.loss = 0)
  BY <1>1, <1>3, <1>6, <1>7, AverageIsNat
<1>10. ASSUME \A i \in 1..Len(x) : x[i].close = x[1].close
       PROVE  st.rsi.gain = 0 /\ st.rsi.loss = 0
  <2>1. ASSUME NEW i \in 1..(Len(c) - 1) PROVE Gains(c)[i] = 0 /\ Losses(c)[i] = 0
    <3>1. i \in 1..Len(x) /\ i + 1 \in 1..Len(x)
      BY <1>2
    <3>2. x[i].close = x[1].close /\ x[i + 1].close = x[1].close
      BY <1>10, <3>1
    <3>3. c[i] = c[i + 1] /\ c[i] \in Int /\ c[i + 1] \in Int
      BY <1>2, <3>1, <3>2
    <3> QED BY <1>6, <3>3, GainIsNat
  <2>2. /\ \A i \in 1..Len(Gains(c)) : Gains(c)[i] = 0
        /\ \A i \in 1..Len(Losses(c)) : Losses(c)[i] = 0
    BY <1>6, <2>1
  <2> QED BY <1>8, <1>9, <2>2
<1>11. /\ st.short \in Min(Range(c))..Max(Range(c)) /\ st.long \in Min(Range(c))..Max(Range(c))
  <2>1. PICK lo \in Int, hi \in Int :
            /\ lo = Min(Range(c)) /\ hi = Max(Range(c)) /\ \A i \in 1..Len(c) : c[i] \in lo..hi
    BY <1>1, <1>2, RangeBounds
  <2>2. Ema(c, EmaShort) \in lo..hi /\ Ema(c, EmaLong) \in lo..hi
    BY <1>1, <1>2, <2>1, AveragesBetween
  <2> QED BY <1>3, <2>1, <2>2
<1> QED BY <1>2, <1>3, <1>5, <1>8, <1>9, <1>10, <1>11

\* The momentum is a percentage.
LEMMA RsiIsAPercentage ==
    ASSUME NEW st, st.gain \in Nat, st.loss \in Nat
    PROVE  /\ RsiFromState(st) \in 0..100
           /\ st.gain = 0 /\ st.loss = 0 => RsiFromState(st) = 50
<1>1. CASE st.loss = 0 /\ st.gain = 0
  BY <1>1 DEF RsiFromState
<1>2. CASE st.loss = 0 /\ st.gain > 0
  BY <1>2 DEF RsiFromState
<1>3. CASE st.loss > 0
  <2>1. PICK q \in Nat \ {0} : q = st.gain + st.loss
    BY <1>3
  <2>2. PICK k \in Int : k = 100 * st.loss
    BY <1>3
  <2>3. k \in (q * 0)..(q * 100)
    BY <2>1, <2>2
  <2>4. k \div q \in 0..100
    BY <2>3, ShareBetween
  <2>5. RsiFromState(st) = 100 - k \div q
    BY <1>3, <2>1, <2>2 DEF RsiFromState
  <2> QED BY <1>3, <2>4, <2>5
<1> QED BY <1>1, <1>2, <1>3

-----------------------------------------------------------------------------
(* The rolling average of the replay. *)

\* What RollingEma has at i, after the value before.
RollTo(s, p, i, before) ==
    IF i < p THEN None ELSE IF i = p THEN Ema(SubSeq(s, 1, p), p) ELSE EmaStep(before, s[i], p)

\* g rolls over the elements 0 .. n of s.
Rolls(g, s, p, n) ==
    g = [i \in 0..n |-> IF i = 0 THEN <<>> ELSE Append(g[i - 1], RollTo(s, p, i, Last(g[i - 1])))]

LEMMA RollingRolls ==
    ASSUME NEW s \in Seq(Int), NEW p \in Nat \ {0}
    PROVE  \E g : /\ RollingEma(s, p) = g[Len(s)] /\ g[0] = <<>>
                  /\ \A n \in Nat : n + 1 <= Len(s) =>
                         g[n + 1] = Append(g[n], RollTo(s, p, n + 1, Last(g[n])))
<1> DEFINE g == CHOOSE u : u = [i \in 0..Len(s) |->
                  IF i = 0 THEN <<>>
                  ELSE Append(u[i - 1], IF i < p THEN None
                                        ELSE IF i = p THEN Ema(SubSeq(s, 1, p), p)
                                        ELSE EmaStep(Last(u[i - 1]), s[i], p))]
           All == {n \in Nat : \E f : Rolls(f, s, p, n)}
<1>1. 0 \in All
  <2>1. Rolls([i \in 0..0 |-> <<>>], s, p, 0)
    BY DEF Rolls
  <2> QED BY <2>1
<1>2. ASSUME NEW n \in Nat, n \in All PROVE n + 1 \in All
  <2>1. PICK f : Rolls(f, s, p, n)
    BY <1>2
  <2> DEFINE y == Append(f[n], RollTo(s, p, n + 1, Last(f[n])))
             h == [i \in 0..(n + 1) |-> IF i = n + 1 THEN y ELSE f[i]]
  <2>2. \A i \in 0..n : f[i] = IF i = 0 THEN <<>> ELSE Append(f[i - 1], RollTo(s, p, i, Last(f[i - 1])))
    BY <2>1 DEF Rolls
  <2> HIDE DEF y
  <2>3. h[n + 1] = y /\ \A i \in 0..n : h[i] = f[i]
    OBVIOUS
  <2>4. h = [i \in 0..(n + 1) |-> h[i]]
    OBVIOUS
  <2> HIDE DEF h
  <2>5. ASSUME NEW i \in 0..(n + 1)
        PROVE  h[i] = IF i = 0 THEN <<>> ELSE Append(h[i - 1], RollTo(s, p, i, Last(h[i - 1])))
    <3>1. CASE i = n + 1
      <4>1. i # 0 /\ i - 1 = n /\ h[n] = f[n]
        BY <2>3, <3>1
      <4> QED BY <2>3, <3>1, <4>1 DEF y
    <3>2. CASE i \in 0..n
      <4>1. i # 0 => i - 1 \in 0..n
        BY <3>2
      <4> QED BY <2>2, <2>3, <3>2, <4>1
    <3> QED BY <3>1, <3>2
  <2>6. Rolls(h, s, p, n + 1)
    BY <2>4, <2>5 DEF Rolls
  <2> QED BY <2>6
<1>3. \A n \in Nat : n \in All
  <2> HIDE DEF All
  <2> QED BY <1>1, <1>2, Induction
<1>4. Len(s) \in Nat
  OBVIOUS
<1>5. PICK f : Rolls(f, s, p, Len(s))
  BY <1>3, <1>4
<1>6. f = [i \in 0..Len(s) |->
              IF i = 0 THEN <<>>
              ELSE Append(f[i - 1], IF i < p THEN None
                                    ELSE IF i = p THEN Ema(SubSeq(s, 1, p), p)
                                    ELSE EmaStep(Last(f[i - 1]), s[i], p))]
  BY <1>5 DEF Rolls, RollTo
<1>7. g = [i \in 0..Len(s) |->
              IF i = 0 THEN <<>>
              ELSE Append(g[i - 1], IF i < p THEN None
                                    ELSE IF i = p THEN Ema(SubSeq(s, 1, p), p)
                                    ELSE EmaStep(Last(g[i - 1]), s[i], p))]
  BY <1>6
<1>8. RollingEma(s, p) = g[Len(s)]
  BY DEF RollingEma
<1> HIDE DEF g
<1>9. Rolls(g, s, p, Len(s))
  BY <1>7 DEF Rolls, RollTo
<1>10. g[0] = <<>>
  BY <1>4, <1>9 DEF Rolls
<1>11. ASSUME NEW n \in Nat, n + 1 <= Len(s)
       PROVE  g[n + 1] = Append(g[n], RollTo(s, p, n + 1, Last(g[n])))
  <2>1. n + 1 \in 0..Len(s) /\ n + 1 # 0 /\ (n + 1) - 1 = n
    BY <1>4, <1>11
  <2> QED BY <1>9, <2>1 DEF Rolls
<1> QED BY <1>8, <1>10, <1>11

\* It is the average of the elements so far.
LEMMA RollingIsBatch ==
    ASSUME NEW s \in Seq(Int), NEW p \in Nat \ {0}, p <= Len(s)
    PROVE  Last(RollingEma(s, p)) = Ema(s, p)
<1> DEFINE st == Exponential(p)
           Q == Int \cup {None}
<1>1. /\ st \in Steps /\ \A a, b \in Int : st[a][b] = EmaStep(a, b, p) /\ EmaStep(a, b, p) \in Int
  BY StepFacts
<1>2. None \in Q /\ Int \subseteq Q
  OBVIOUS
<1> HIDE DEF st, Q
<1>3. PICK n \in Nat : n = Len(s)
  OBVIOUS
<1>4. PICK c \in Int : c = Mean(s, p)
  BY MeanFacts
<1>5. PICK f : Runs(f, c, s, p, st, n) /\ Ema(s, p) = Last(f[n])
  <2>1. PICK f : Runs(f, Mean(s, p), s, p, st, Len(s)) /\ Running(s, p, st) = f[Len(s)]
    BY RunningIsARun
  <2> QED BY <1>3, <1>4, <2>1 DEF Ema, st
<1>6. Ema(SubSeq(s, 1, p), p) = c
  <2>1. SubSeq(s, 1, p) \in Seq(Int)
    OBVIOUS
  <2>2. PICK u \in Seq(Int) : u = SubSeq(s, 1, p)
    BY <2>1
  <2>3. Len(u) = p /\ p \in p..p /\ p <= Len(u)
    BY <2>2
  <2>4. SubSeq(u, 1, p) \in Seq(Int) /\ Len(SubSeq(u, 1, p)) = p
        /\ \A i \in 1..p : SubSeq(u, 1, p)[i] = u[i]
    BY <2>3
  <2>5. SubSeq(u, 1, p) = u
    BY <2>3, <2>4, SeqEqual
  <2>6. Mean(u, p) = c
    BY <1>4, <2>2, <2>5 DEF Mean
  <2>7. PICK g : Runs(g, Mean(u, p), u, p, st, Len(u)) /\ Running(u, p, st) = g[Len(u)]
    BY <2>3, RunningIsARun
  <2>8. g[p] = <<c>>
    BY <2>3, <2>6, <2>7 DEF Runs
  <2>9. Last(<<c>>) = c
    BY DEF Last
  <2> QED BY <2>2, <2>3, <2>7, <2>8, <2>9 DEF Ema, st
<1>7. PICK g : /\ RollingEma(s, p) = g[Len(s)] /\ g[0] = <<>>
               /\ \A k \in Nat : k + 1 <= Len(s) =>
                      g[k + 1] = Append(g[k], RollTo(s, p, k + 1, Last(g[k])))
  BY RollingRolls
<1>8. \A i \in p..n : f[i] \in Seq(Int) /\ Len(f[i]) = i - p + 1
  <2>1. n \in p..Len(s)
    BY <1>3
  <2>2. st \in Steps
    BY <1>1
  <2> QED
    BY ONLY <1>5, <2>1, <2>2, RunTypes, s \in Seq(Int), p \in Nat \ {0}, c \in Int
<1> DEFINE Rolled(i) == /\ g[i] \in Seq(Q) /\ Len(g[i]) = i
                        /\ i >= p => Last(g[i]) = Last(f[i])
           All == {i \in Nat : i <= n => Rolled(i)}
<1>9. 0 \in All
  <2>1. g[0] = <<>> /\ <<>> \in Seq(Q) /\ Len(<<>>) = 0 /\ ~(0 >= p)
    BY <1>7
  <2>2. Rolled(0)
    BY <2>1
  <2> QED BY <2>2
<1>10. ASSUME NEW k \in Nat, k \in All PROVE k + 1 \in All
  <2> SUFFICES ASSUME k + 1 <= n
               PROVE  /\ g[k + 1] \in Seq(Q) /\ Len(g[k + 1]) = k + 1
                      /\ k + 1 >= p => Last(g[k + 1]) = Last(f[k + 1])
    OBVIOUS
  <2>1. PICK y : y = RollTo(s, p, k + 1, Last(g[k]))
    OBVIOUS
  <2>2. g[k + 1] = Append(g[k], y) /\ g[k] \in Seq(Q) /\ Len(g[k]) = k
    <3>1. k <= n /\ k + 1 <= Len(s)
      BY <1>3
    <3>2. g[k + 1] = Append(g[k], y)
      BY <1>7, <2>1, <3>1
    <3>3. Rolled(k)
      <4> HIDE DEF Rolled
      <4> QED BY <1>10, <3>1
    <3> QED BY <3>2, <3>3
  <2>3. y \in Q /\ (k + 1 >= p => y = Last(f[k + 1]))
    <3>1. CASE k + 1 < p
      BY <1>2, <2>1, <3>1 DEF RollTo
    <3>2. CASE k + 1 = p
      <4>1. y = c
        BY <1>6, <2>1, <3>2 DEF RollTo
      <4>2. f[k + 1] = <<c>>
        BY <1>5, <3>2 DEF Runs
      <4>3. Last(<<c>>) = c
        BY DEF Last
      <4> QED BY <1>2, <4>1, <4>2, <4>3
    <3>3. CASE k + 1 > p
      <4>1. k \in p..n /\ k + 1 \in p..n /\ (k + 1) - 1 = k /\ k + 1 # p /\ k >= p /\ k <= n
        BY <3>3
      <4>2. PICK q \in Seq(Int) : q = f[k] /\ Len(q) = k - p + 1
        BY <1>8, <4>1
      <4>3. Last(q) \in Int
        <5>1. Len(q) \in 1..Len(q)
          BY <4>1, <4>2
        <5> QED BY <4>2, <5>1, ElementOfSeq DEF Last
      <4>4. s[k + 1] \in Int
        BY <1>3, <4>1
      <4>5. f[k + 1] = Grown(q, st[Last(q)][s[k + 1]])
        BY <1>5, <4>1, <4>2 DEF Runs
      <4>6. PICK z \in Int : z = EmaStep(Last(q), s[k + 1], p) /\ z = st[Last(q)][s[k + 1]]
        BY <1>1, <4>3, <4>4
      <4>7. Last(Grown(q, z)) = z
        BY <4>2, <4>6, GrownTypes, Len(q) \in Int
      <4>8. Last(g[k]) = Last(q)
        <5>1. Rolled(k)
          <6> HIDE DEF Rolled
          <6> QED BY <1>10, <4>1
        <5> QED BY <4>1, <4>2, <5>1
      <4>9. y = z
        <5>1. ~(k + 1 < p) /\ k + 1 # p
          BY <3>3
        <5>2. y = EmaStep(Last(g[k]), s[k + 1], p)
          BY <2>1, <5>1 DEF RollTo
        <5> QED BY <4>6, <4>8, <5>2
      <4> QED BY <1>2, <4>5, <4>6, <4>7, <4>9
    <3> QED BY <3>1, <3>2, <3>3
  <2>4. /\ Append(g[k], y) \in Seq(Q) /\ Len(Append(g[k], y)) = Len(g[k]) + 1
        /\ Append(g[k], y)[Len(g[k]) + 1] = y
    BY <2>2, <2>3
  <2>5. Last(g[k + 1]) = y
    BY <2>2, <2>4 DEF Last
  <2> QED BY <2>2, <2>3, <2>4, <2>5
<1>11. \A i \in Nat : i \in All
  <2> HIDE DEF All
  <2> QED BY <1>9, <1>10, Induction
<1>12. Last(g[n]) = Last(f[n])
  <2>1. n \in All /\ n <= n
    BY <1>11
  <2>2. Rolled(n)
    <3> HIDE DEF Rolled
    <3> QED BY <2>1
  <2> QED BY <1>3, <2>2
<1> QED BY <1>3, <1>5, <1>7, <1>12

-----------------------------------------------------------------------------
(* The theorems of the candles. *)

LEMMA ExactBatch == CandlesInv => IncrementalIsBatch
<1> SUFFICES ASSUME CandlesInv, Len(bars) >= HtfLong
             PROVE  Last(RollingEma(Closes(bars), HtfLong)) = Ema(Closes(bars), HtfLong)
  BY DEF CandlesInv, IncrementalIsBatch
<1>1. bars \in Seq(Candle) /\ HtfLong \in Nat \ {0} /\ Len(bars) \in Nat
  BY PeriodsArePositive DEF CandlesInv
<1>2. bars[1] \in Candle
  <2>1. 1 \in 1..Len(bars)
    BY <1>1
  <2> QED BY <1>1, <2>1
<1>3. Closes(bars) \in Seq(Int) /\ Len(Closes(bars)) = Len(bars)
  BY <1>1, <1>2, ClosesGrow
<1> QED BY <1>1, <1>3, RollingIsBatch

LEMMA ExactVerdict == CandlesInv => VerdictIsBatch
<1> SUFFICES ASSUME CandlesInv, live # None, NEW sd \in Sides
             PROVE  SssVerdict(sd) = EvaluateSss(sd, bars)
  BY DEF VerdictIsBatch
<1>1. bars \in Seq(Candle) /\ live = Seeded(bars) /\ Len(bars) >= 1 /\ Len(bars) \in Nat
  BY EnoughBars DEF CandlesInv
<1>2. bars[1] \in Candle
  <2>1. 1 \in 1..Len(bars)
    BY <1>1
  <2> QED BY <1>1, <2>1
<1>3. Last(Volumes(bars)) = Last(bars).volume
  BY <1>1, <1>2, LastCandles
<1>4. [rsi |-> RsiFromState(live.rsi), short |-> live.short, long |-> live.long,
       volume |-> live.volume, volumeMa |-> live.volumeMa] = View(bars)
  BY <1>1, <1>3 DEF Seeded, View, Volumes
<1> QED BY <1>4 DEF SssVerdict, EvaluateSss

LEMMA ExactFlat == CandlesInv => FlatIsNeutral /\ AveragesStayInRange
<1> SUFFICES ASSUME CandlesInv, live # None PROVE FlatIsNeutral /\ AveragesStayInRange
  BY DEF FlatIsNeutral, AveragesStayInRange
<1>1. bars \in Seq(Candle) /\ live = Seeded(bars) /\ Len(bars) >= MinSignalBars
      /\ DOMAIN bars = 1..Len(bars)
  BY DEF CandlesInv
<1>2. /\ live.atr \in Nat /\ live.atr <= Max(Range(Trs(bars)))
      /\ live.rsi.gain \in Nat /\ live.rsi.loss \in Nat
      /\ live.short \in Min(Range(Closes(bars)))..Max(Range(Closes(bars)))
      /\ live.long \in Min(Range(Closes(bars)))..Max(Range(Closes(bars)))
      /\ (\A i \in 1..Len(bars) : bars[i].close = bars[1].close)
             => live.rsi.gain = 0 /\ live.rsi.loss = 0
  BY <1>1, SeededFacts
<1>3. /\ RsiFromState(live.rsi) \in 0..100
      /\ live.rsi.gain = 0 /\ live.rsi.loss = 0 => RsiFromState(live.rsi) = 50
  BY <1>2, RsiIsAPercentage
<1>4. FlatIsNeutral
  BY <1>1, <1>2, <1>3 DEF FlatIsNeutral
<1>5. Neighbours(bars, TrueRange) = Trs(bars)
  BY DEF Neighbours, Trs
<1>6. AveragesStayInRange
  BY <1>2, <1>3, <1>5 DEF AveragesStayInRange
<1> QED BY <1>4, <1>6

-----------------------------------------------------------------------------
(* The slippage caps: order statistics and the quantile. *)

\* What the rank leaves above it.
LEMMA LeftAbove ==
    ASSUME NEW num \in Nat, NEW den \in Nat \ {0}, num <= den, NEW m \in Nat,
           NEW lo \in Nat, NEW r \in 0..(den - 1), num * m = den * lo + r,
           NEW c \in Nat, c <= m - lo
    PROVE  den * c <= (den - num) * m + den - 1
<1>1. den * (m - lo - c) >= 0
  <2>1. m - lo - c \in Nat
    OBVIOUS
  <2> QED BY <2>1
<1>2. den * (m - lo - c) = den * m - den * lo - den * c
  OBVIOUS
<1>3. (den - num) * m = den * m - num * m
  OBVIOUS
<1>4. den * m \in Int /\ den * lo \in Int /\ den * c \in Int /\ num * m \in Int
  OBVIOUS
<1> QED BY <1>1, <1>2, <1>3, <1>4

\* The places whose value is above one that k values are up to.
LEMMA AboveAre ==
    ASSUME NEW s \in Seq(Int), NEW v \in Int, NEW cap \in Int, v <= cap,
           NEW k \in Nat, k <= Cardinality(UpTo(s, v))
    PROVE  LET above == {i \in DOMAIN s : s[i] > cap}
           IN  Cardinality(above) \in Nat /\ Cardinality(above) <= Len(s) - k
<1> DEFINE above == {i \in DOMAIN s : s[i] > cap}
           rest == DOMAIN s \ UpTo(s, v)
<1>1. above \in SUBSET (DOMAIN s) /\ rest \in SUBSET (DOMAIN s)
  OBVIOUS
<1>2. above \subseteq rest
  <2> SUFFICES ASSUME NEW i \in DOMAIN s, s[i] > cap PROVE ~(s[i] <= v)
    BY DEF UpTo
  <2>1. s[i] \in Int
    OBVIOUS
  <2> QED BY <2>1
<1>3. Cardinality(rest) = Len(s) - Cardinality(UpTo(s, v))
  BY Places, CountsAre
<1>4. Cardinality(UpTo(s, v)) \in Nat
  BY Places, CountsAre
<1> HIDE DEF above, rest
<1>5. Cardinality(above) \in Nat /\ Cardinality(above) <= Cardinality(rest)
  BY <1>1, <1>2, Places
<1>6. Cardinality(above) \in Nat /\ Cardinality(above) <= Len(s) - k
  BY <1>3, <1>4, <1>5, Len(s) \in Nat
<1> QED BY <1>6 DEF above

\* The quantile is up to the greatest value, and leaves no more above it than its share.
LEMMA QuantileCovers ==
    ASSUME NEW s \in Seq(Int), Len(s) >= 1
    PROVE  Covers(Quantile(s, QNum, QDen), s)
<1>1. Len(s) \in Nat /\ QNum \in Nat /\ QDen \in Nat \ {0} /\ QNum <= QDen
  BY CandlesAssumption
<1>2. PICK m \in Nat : m = Len(s) - 1
  BY <1>1
<1>3. PICK xs : xs = OrderStatistics(s)
  OBVIOUS
<1>4. /\ xs \in Seq(Int) /\ Len(xs) = m + 1
      /\ \A k \in 1..(m + 1) : xs[k] \in Range(s) /\ k <= Cardinality(UpTo(s, xs[k])) /\ xs[k] \in Int
      /\ \A j, k \in 1..(m + 1) : j <= k => xs[j] <= xs[k]
  <2>1. Len(s) = m + 1
    BY <1>1, <1>2
  <2>2. /\ xs \in Seq(Int) /\ Len(xs) = m + 1
        /\ \A k \in 1..(m + 1) : xs[k] \in Range(s) /\ k <= Cardinality(UpTo(s, xs[k]))
        /\ \A j, k \in 1..(m + 1) : j <= k => xs[j] <= xs[k]
    BY <1>3, <2>1, OrderFacts
  <2> QED BY <2>2
<1>5. PICK rank \in Nat : rank = QNum * m
  BY <1>1
<1>6. PICK lo \in Nat, r \in 0..(QDen - 1) :
          lo = rank \div QDen /\ r = rank % QDen /\ rank = QDen * lo + r
  <2>1. rank \div QDen \in Nat /\ rank % QDen \in 0..(QDen - 1)
        /\ rank = QDen * (rank \div QDen) + (rank % QDen)
    BY <1>1
  <2> QED BY <2>1
<1>7. PICK cap : cap = Quantile(s, QNum, QDen)
  OBVIOUS
<1>8. cap = IF lo >= m THEN xs[m + 1]
            ELSE xs[lo + 1] + (r * (xs[lo + 2] - xs[lo + 1])) \div QDen
  <2>1. Len(xs) - 1 = m /\ Last(xs) = xs[m + 1]
    BY <1>4 DEF Last
  <2> QED BY <1>3, <1>5, <1>6, <1>7, <2>1 DEF Quantile
<1>9. \A k \in 1..(m + 1) : xs[k] <= Max(Range(s))
  <2>1. \A y \in Range(s) : y <= Max(Range(s))
    <3>1. Max(Range(s)) \in Int /\ \A i \in 1..Len(s) : s[i] \in Min(Range(s))..Max(Range(s))
      BY RangeBounds
    <3>2. \A i \in 1..Len(s) : s[i] <= Max(Range(s))
      BY <3>1
    <3> QED BY <3>2 DEF Range
  <2> QED BY <1>4, <2>1
<1>10. Max(Range(s)) \in Int
  BY RangeBounds
<1> DEFINE above == {i \in DOMAIN s : s[i] > cap}
<1>11. CASE lo >= m
  <2>1. cap = xs[m + 1] /\ m + 1 \in 1..(m + 1)
    BY <1>8, <1>11
  <2>2. cap \in Int /\ m + 1 <= Cardinality(UpTo(s, cap)) /\ cap <= Max(Range(s))
    BY <1>4, <1>9, <2>1
  <2>3. Cardinality(above) \in Nat /\ Cardinality(above) <= Len(s) - (m + 1)
    BY <2>2, AboveAre, m + 1 \in Nat
  <2>4. Cardinality(above) = 0
    BY <1>2, <2>3
  <2>5. (QDen - QNum) * m >= 0
    <3>1. QDen - QNum \in Nat
      BY <1>1
    <3> QED BY <3>1
  <2>6. QDen * 0 <= (QDen - QNum) * m + QDen - 1
    BY <1>1, <2>5
  <2>7. QDen * Cardinality(above) <= (QDen - QNum) * (Len(s) - 1) + QDen - 1
    BY <1>2, <2>4, <2>6
  <2> QED BY <1>7, <2>2, <2>7 DEF Covers
<1>12. CASE ~(lo >= m)
  <2>1. PICK v \in Int, w \in Int : v = xs[lo + 1] /\ w = xs[lo + 2] /\ v <= w
    <3>1. lo + 1 \in 1..(m + 1) /\ lo + 2 \in 1..(m + 1) /\ lo + 1 <= lo + 2
      BY <1>12
    <3>2. xs[lo + 1] <= xs[lo + 2] /\ xs[lo + 1] \in Int /\ xs[lo + 2] \in Int
      BY <1>4, <3>1
    <3> QED BY <3>2
  <2>2. PICK d \in Nat : d = w - v
    BY <2>1
  <2>3. r * d \in (QDen * 0)..(QDen * d)
    <3>1. r \in Nat /\ QDen - r \in Nat
      BY <1>1
    <3>2. (QDen - r) * d >= 0 /\ r * d >= 0 /\ r * d \in Int
      BY <3>1
    <3>3. (QDen - r) * d = QDen * d - r * d /\ QDen * d \in Int /\ QDen * 0 = 0
      BY <1>1, <3>1
    <3> QED BY <3>2, <3>3
  <2>4. PICK e \in Int : e = (r * d) \div QDen
    BY <1>1
  <2>5. e \in 0..d
    BY <1>1, <2>3, <2>4, ShareBetween, r * d \in Int
  <2>6. cap = v + e
    BY <1>8, <1>12, <2>1, <2>2, <2>4
  <2>7. cap \in Int /\ v <= cap /\ cap <= w
    BY <2>2, <2>5, <2>6
  <2>8. w <= Max(Range(s)) /\ lo + 1 <= Cardinality(UpTo(s, v))
    BY <1>4, <1>9, <1>12, <2>1
  <2>9. cap <= Max(Range(s))
    BY <1>10, <2>7, <2>8
  <2>10. Cardinality(above) \in Nat /\ Cardinality(above) <= Len(s) - (lo + 1)
    BY <2>7, <2>8, AboveAre, lo + 1 \in Nat
  <2>11. PICK c \in Nat : c = Cardinality(above)
    BY <2>10
  <2>12. c <= m - lo
    BY <1>2, <2>10, <2>11
  <2>13. QNum * m = QDen * lo + r
    BY <1>5, <1>6
  <2>14. QDen * c <= (QDen - QNum) * m + QDen - 1
    BY ONLY <1>1, <2>12, <2>13, LeftAbove, m \in Nat, lo \in Nat, r \in 0..(QDen - 1), c \in Nat
  <2>15. QDen * Cardinality(above) <= (QDen - QNum) * (Len(s) - 1) + QDen - 1
    BY <1>2, <2>11, <2>14
  <2> QED BY <1>7, <2>9, <2>15 DEF Covers
<1> QED BY <1>11, <1>12

\* The adverse gaps are one less than the candles.
LEMMA GapsAre ==
    ASSUME NEW x \in Seq(Candle), Len(x) >= 1, NEW sd
    PROVE  AdverseGaps(x, sd) \in Seq(Int) /\ Len(AdverseGaps(x, sd)) = Len(x) - 1
<1>1. PICK n \in Nat : n = Len(x) - 1
  BY Len(x) \in Nat
<1> DEFINE gap(a, b) == ((b.open - a.close) * 10000) \div a.close
           adverse(a, b) == Max({0, IF sd = "long" THEN gap(a, b) ELSE -gap(a, b)})
<1>2. ASSUME NEW d \in Int PROVE Max({0, d}) \in Int
  <2>1. \E y \in {0, d} : \A z \in {0, d} : y >= z
    <3>1. CASE d >= 0
      BY <3>1
    <3>2. CASE ~(d >= 0)
      BY <3>2
    <3> QED BY <3>1, <3>2
  <2>2. Max({0, d}) \in {0, d}
    BY <2>1, MaxFacts
  <2> QED BY <2>2
<1>3. ASSUME NEW i \in 1..n PROVE adverse(x[i], x[i + 1]) \in Int
  <2>1. x[i] \in Candle /\ x[i + 1] \in Candle
    BY <1>1
  <2>2. PICK o \in Nat, c \in Nat \ {0} : o = x[i + 1].open /\ c = x[i].close
    BY <2>1, CandleFacts
  <2>3. ((o - c) * 10000) \div c \in Int
    OBVIOUS
  <2>4. gap(x[i], x[i + 1]) \in Int
    BY <2>2, <2>3
  <2> HIDE DEF gap
  <2>5. -gap(x[i], x[i + 1]) \in Int
    BY <2>4
  <2> QED BY <1>2, <2>4, <2>5
<1>4. AdverseGaps(x, sd) = [t \in 1..n |-> adverse(x[t], x[t + 1])]
  BY <1>1 DEF AdverseGaps, Neighbours
<1> HIDE DEF adverse
<1>5. [t \in 1..n |-> adverse(x[t], x[t + 1])] \in Seq(Int)
      /\ Len([t \in 1..n |-> adverse(x[t], x[t + 1])]) = n
  BY <1>3
<1> QED BY <1>1, <1>4, <1>5

LEMMA ExactCaps == CandlesInv => CapCoversTheGaps
<1> SUFFICES ASSUME CandlesInv, caps # None PROVE CapCoversTheGaps
  BY DEF CapCoversTheGaps
<1>1. PICK n \in 1..Len(bars) : /\ n >= MinSignalBars /\ SubSeq(bars, 1, n) \in SeedSeries
                                /\ caps = MppCaps(SubSeq(bars, 1, n))
  BY DEF CandlesInv
<1>2. bars \in Seq(Candle)
  BY DEF CandlesInv
<1>3. PICK seed \in Seq(Candle) : seed = SubSeq(bars, 1, n) /\ Len(seed) = n
  <2>1. SubSeq(bars, 1, n) \in Seq(Candle) /\ Len(SubSeq(bars, 1, n)) = n
    BY <1>2
  <2> QED BY <2>1
<1>4. Period \in Nat \ {0} /\ Period <= Len(seed) - 1 /\ Len(seed) \in Nat
  BY <1>1, <1>3, EnoughBars
<1>5. ASSUME NEW sd \in Sides
      PROVE  AdverseGaps(seed, sd) # <<>> /\ Covers(caps[sd], AdverseGaps(seed, sd))
  <2>1. PICK gaps \in Seq(Int) : gaps = AdverseGaps(seed, sd) /\ Len(gaps) = n - 1
    <3>1. Len(seed) >= 1
      BY <1>4
    <3>2. AdverseGaps(seed, sd) \in Seq(Int) /\ Len(AdverseGaps(seed, sd)) = Len(seed) - 1
      BY <3>1, GapsAre
    <3> QED BY <1>3, <3>2
  <2>2. Len(gaps) >= 1 /\ gaps # <<>>
    BY <1>3, <1>4, <2>1
  <2>3. caps[sd] = Quantile(gaps, QNum, QDen)
    BY <1>1, <1>3, <2>1 DEF MppCaps
  <2> QED BY <2>1, <2>2, <2>3, QuantileCovers
<1> QED BY <1>1, <1>3, <1>5 DEF CapCoversTheGaps

-----------------------------------------------------------------------------
(* The regimes. *)

\* A round asks for every symbol.
LEMMA TheTargets == Targets \in Seq(Symbols) /\ Range(Targets) = Symbols
<1>1. IsFiniteSet(Pairs) /\ Cardinality(Pairs) \in Nat
  BY RoundsAssumption, FS_CardinalityType
<1>2. PICK n \in Nat : n = Cardinality(Pairs)
  BY <1>1
<1>3. \E f \in [1..n -> Pairs] : IsInjective(f)
  BY <1>1, <1>2, FS_CardinalityType DEF ExistsBijection, Bijection, Injection
<1>4. PICK f \in [1..n -> Pairs] : f = SetToSeq(Pairs) /\ IsInjective(f)
  BY <1>2, <1>3 DEF SetToSeq
<1>5. f \in Surjection(1..n, Pairs)
  <2>1. f \in Injection(1..n, Pairs)
    BY <1>4 DEF Injection
  <2>2. IsFiniteSet(1..n) /\ Cardinality(1..n) = n
    BY FS_Interval, 1 \in Int, n \in Int
  <2> QED BY <1>1, <1>2, <2>1, <2>2, FS_Injection
<1>6. f \in Seq(Pairs) /\ Len(f) = n /\ \A p \in Pairs : \E i \in 1..n : f[i] = p
  BY <1>5 DEF Surjection
<1>7. CASE Anchor \in Pairs
  <2>1. Targets = f \o <<>> /\ f \o <<>> = f /\ Symbols = Pairs
    BY <1>4, <1>6, <1>7 DEF Targets, Symbols
  <2> QED BY <1>6, <2>1 DEF Range
<1>8. CASE Anchor \notin Pairs
  <2>1. Targets = f \o <<Anchor>>
    BY <1>4, <1>8 DEF Targets
  <2>2. f \in Seq(Symbols) /\ <<Anchor>> \in Seq(Symbols)
    BY <1>6 DEF Symbols
  <2>3. PICK t \in Seq(Symbols) : t = Targets /\ Len(t) = n + 1 /\ DOMAIN t = 1..(n + 1)
                                  /\ t[n + 1] = Anchor /\ \A i \in 1..n : t[i] = f[i]
    <3>1. f \o <<Anchor>> \in Seq(Symbols)
      BY <2>2
    <3> QED BY <1>6, <2>1, <2>2, <3>1
  <2>4. \A s \in Symbols : \E i \in DOMAIN t : t[i] = s
    BY <1>6, <2>3 DEF Symbols
  <2>5. \A i \in DOMAIN t : t[i] \in Symbols
    BY <2>3
  <2>6. Range(t) = Symbols
    BY <2>4, <2>5 DEF Range
  <2> QED BY <2>3, <2>6
<1> QED BY <1>7, <1>8

LEMMA RegimeIsOne == \A series : ComputeRegime(series) \in Regimes
BY DEF ComputeRegime, Regimes, ClassifyDirectional, ClassifyVolatility

\* What is known of each symbol is of its newest good answer, and whoever was not asked
\* yet is still to be.
RegimesInv ==
    /\ cache \in [Symbols -> Regimes \cup {None}]
    /\ served \in [Symbols -> Seq(DailySeries)]
    /\ pending \in Seq(Symbols)
    /\ computes \in 0..MaxComputes
    /\ \A s \in Symbols :
           cache[s] = IF served[s] = <<>> THEN None ELSE ComputeRegime(Last(served[s]))
    /\ computes > 0 => asked \cup Range(pending) = Symbols

LEMMA RegimesInit == MarketInit => RegimesInv
<1> SUFFICES ASSUME MarketInit PROVE RegimesInv
  OBVIOUS
<1>1. /\ cache = [s \in Symbols |-> None] /\ served = [s \in Symbols |-> <<>>]
      /\ pending = <<>> /\ computes = 0 /\ MaxComputes \in Nat
  BY RoundsAssumption DEF MarketInit
<1> QED BY <1>1 DEF RegimesInv

LEMMA HeadIsAsked ==
    ASSUME NEW All, NEW q \in Seq(All), q # <<>>
    PROVE  Head(q) \in All /\ Tail(q) \in Seq(All) /\ Range(q) = {Head(q)} \cup Range(Tail(q))
<1>1. /\ Head(q) \in All /\ Tail(q) \in Seq(All) /\ Len(q) \in Nat /\ Len(q) >= 1
      /\ Len(Tail(q)) = Len(q) - 1 /\ q[1] = Head(q)
      /\ DOMAIN q = 1..Len(q) /\ DOMAIN Tail(q) = 1..(Len(q) - 1)
      /\ \A i \in 1..(Len(q) - 1) : Tail(q)[i] = q[i + 1]
  OBVIOUS
<1>2. \A i \in DOMAIN q : i = 1 \/ (i - 1 \in 1..(Len(q) - 1) /\ (i - 1) + 1 = i)
  BY <1>1
<1>3. \A i \in 1..(Len(q) - 1) : i + 1 \in DOMAIN q
  BY <1>1
<1>4. 1 \in DOMAIN q
  BY <1>1
<1> QED BY <1>1, <1>2, <1>3, <1>4 DEF Range

LEMMA StartComputeInv == ASSUME RegimesInv, StartCompute PROVE RegimesInv'
<1>1. /\ pending' = Targets /\ computes' = computes + 1 /\ computes < MaxComputes
      /\ UNCHANGED <<cache, served>>
  BY DEF StartCompute
<1>2. computes' \in 0..MaxComputes
  BY <1>1, RoundsAssumption DEF RegimesInv
<1>3. (asked \cup Range(pending) = Symbols)'
  BY <1>1, TheTargets DEF StartCompute
<1> QED BY <1>1, <1>2, <1>3, TheTargets DEF RegimesInv, Symbols

LEMMA ComputeFailsInv == ASSUME RegimesInv, ComputeFails PROVE RegimesInv'
<1>1. /\ pending # <<>> /\ pending' = Tail(pending) /\ asked' = asked \cup {Head(pending)}
      /\ UNCHANGED <<cache, served, computes>>
  BY DEF ComputeFails, AfterFailure, KeepsLast
<1>2. pending' \in Seq(Symbols) /\ Range(pending) = {Head(pending)} \cup Range(pending')
  BY <1>1, HeadIsAsked DEF RegimesInv
<1> QED BY <1>1, <1>2 DEF RegimesInv, Symbols

LEMMA ComputeOneInv ==
    ASSUME RegimesInv, NEW series \in DailySeries, ComputeOne(series) PROVE RegimesInv'
<1>1. PICK h : h = Head(pending)
  OBVIOUS
<1>2. /\ pending # <<>> /\ pending' = Tail(pending) /\ asked' = asked \cup {h}
      /\ cache' = [cache EXCEPT ![h] = ComputeRegime(series)]
      /\ served' = [served EXCEPT ![h] = Append(@, series)]
      /\ UNCHANGED computes
  BY <1>1 DEF ComputeOne
<1>3. h \in Symbols /\ pending' \in Seq(Symbols) /\ Range(pending) = {h} \cup Range(pending')
  BY <1>1, <1>2, HeadIsAsked DEF RegimesInv
<1>4. PICK q \in Seq(DailySeries) : q = served[h]
  BY <1>3 DEF RegimesInv
<1>5. Append(q, series) \in Seq(DailySeries) /\ Append(q, series) # <<>>
      /\ Last(Append(q, series)) = series
  BY DEF Last
<1>6. served' \in [Symbols -> Seq(DailySeries)] /\ served'[h] = Append(q, series)
      /\ \A s \in Symbols \ {h} : served'[s] = served[s]
  BY <1>2, <1>3, <1>4, <1>5 DEF RegimesInv
<1>7. cache' \in [Symbols -> Regimes \cup {None}] /\ cache'[h] = ComputeRegime(series)
      /\ \A s \in Symbols \ {h} : cache'[s] = cache[s]
  BY <1>2, <1>3, RegimeIsOne DEF RegimesInv
<1>8. \A s \in Symbols :
          cache'[s] = IF served'[s] = <<>> THEN None ELSE ComputeRegime(Last(served'[s]))
  <2> SUFFICES ASSUME NEW s \in Symbols
               PROVE  cache'[s] = IF served'[s] = <<>> THEN None ELSE ComputeRegime(Last(served'[s]))
    OBVIOUS
  <2>1. CASE s = h
    BY <2>1, <1>5, <1>6, <1>7
  <2>2. CASE s # h
    BY <2>2, <1>6, <1>7 DEF RegimesInv
  <2> QED BY <2>1, <2>2
<1>9. (computes > 0 => asked \cup Range(pending) = Symbols)'
  BY <1>2, <1>3 DEF RegimesInv, Symbols
<1>10. (computes \in 0..MaxComputes)'
  BY <1>2 DEF RegimesInv
<1> QED BY <1>3, <1>6, <1>7, <1>8, <1>9, <1>10 DEF RegimesInv, Symbols

LEMMA RegimesStep == RegimesInv /\ [MarketNext]_marketVars => RegimesInv'
<1> SUFFICES ASSUME RegimesInv, [MarketNext]_marketVars PROVE RegimesInv'
  OBVIOUS
<1>1. CASE RegimesNext
  BY <1>1, StartComputeInv, ComputeFailsInv, ComputeOneInv DEF RegimesNext
<1>2. CASE UNCHANGED regimeVars
  BY <1>2 DEF RegimesInv, regimeVars, Symbols
<1>3. CASE CandlesNext
  BY <1>2, <1>3 DEF CandlesNext, Warm, Commit
<1>4. CASE UNCHANGED marketVars
  BY <1>2, <1>4 DEF marketVars, regimeVars
<1> QED BY <1>1, <1>3, <1>4 DEF MarketNext

LEMMA TypesOK == CandlesInv /\ RegimesInv => MarketTypeOK
<1> SUFFICES ASSUME CandlesInv, RegimesInv PROVE MarketTypeOK
  OBVIOUS
<1>1. ASSUME live # None
      PROVE  /\ DOMAIN live = {"atr", "rsi", "short", "long", "volumeMa", "volume", "close"}
             /\ live.atr >= 0 /\ live.rsi.gain >= 0 /\ live.rsi.loss >= 0
  <2>1. bars \in Seq(Candle) /\ Len(bars) >= MinSignalBars /\ live = Seeded(bars)
    BY <1>1 DEF CandlesInv
  <2>2. /\ DOMAIN live = {"atr", "rsi", "short", "long", "volumeMa", "volume", "close"}
        /\ live.atr \in Nat /\ live.rsi.gain \in Nat /\ live.rsi.loss \in Nat
    BY <2>1, SeededFacts
  <2> QED BY <2>2
<1>2. Range(pending) \subseteq Symbols
  BY DEF RegimesInv, Range
<1> QED BY <1>1, <1>2 DEF MarketTypeOK, RegimesInv

MarketSpec == MarketInit /\ [][MarketNext]_marketVars

\* The numbers an entry is decided on are those of the candles there were, however the
\* series is split into seed and candles: the running numbers are the batch ones to the
\* digit, and so the verdict; a market that stands still shows no momentum; an average
\* stays in the range of what it averages, rounding included; and the slippage cap of a
\* side leaves no more of the seed's adverse gaps above it than its quantile does
\* (live_indicators.py, decision_cache.py, sss.py, seed_estimators.py).
THEOREM NumbersAreExact == MarketSpec => []IndicatorsAreExact
<1>1. MarketInit => CandlesInv /\ RegimesInv
  BY CandlesInit, RegimesInit
<1>2. (CandlesInv /\ RegimesInv) /\ [MarketNext]_marketVars => (CandlesInv /\ RegimesInv)'
  BY CandlesStep, RegimesStep
<1>3. CandlesInv /\ RegimesInv => IndicatorsAreExact
  BY TypesOK, ExactBatch, ExactVerdict, ExactFlat, ExactCaps DEF IndicatorsAreExact
<1> QED BY <1>1, <1>2, <1>3, PTL DEF MarketSpec

\* The cache holds the newest good answers.
LEMMA NewestCached == RegimesInv => CacheIsNewestGood
<1> SUFFICES ASSUME RegimesInv PROVE CacheIsNewestGood
  OBVIOUS
<1>1. pending = <<>> => Range(pending) = {}
  BY DEF Range
<1> QED BY <1>1 DEF RegimesInv, CacheIsNewestGood

\* No regime admits a side that it would close at once.
LEMMA MayStay == RegimesInv => EntersWhereItMayStay
<1> SUFFICES ASSUME RegimesInv, NEW s \in Symbols, cache[s] # None,
                    NEW sd \in PermittedSides(cache[s])
             PROVE  ~Downgraded(sd, cache[s])
  BY DEF EntersWhereItMayStay
<1>1. PICK g \in Regimes : g = cache[s]
  BY DEF RegimesInv
<1>2. /\ g.direction \in {"positive", "none", "negative"} /\ g.volatility \in {"normal", "elevated"}
      /\ g = [direction |-> "none", volatility |-> "elevated"]
             => g.direction = "none" /\ g.volatility = "elevated"
  BY DEF Regimes
<1>3. CASE g.direction = "positive"
  <2>1. sd = "long"
    BY <1>1, <1>3 DEF PermittedSides
  <2> QED BY <1>1, <1>2, <1>3, <2>1 DEF Downgraded
<1>4. CASE g.direction = "negative"
  <2>1. sd = "short"
    BY <1>1, <1>4 DEF PermittedSides
  <2> QED BY <1>1, <1>2, <1>4, <2>1 DEF Downgraded
<1>5. CASE g.direction = "none"
  <2>1. g.volatility = "normal"
    BY <1>1, <1>2, <1>5 DEF PermittedSides
  <2> QED BY <1>1, <1>2, <1>5, <2>1 DEF Downgraded
<1> QED BY <1>2, <1>3, <1>4, <1>5

-----------------------------------------------------------------------------
(* The replay looks back only. *)

\* The first k of y.
FirstOf(y, k) == [i \in 1..k |-> y[i]]

\* What is built by appending has what was appended.
LEMMA Built ==
    ASSUME NEW n \in Nat, NEW g, NEW y, g[0] = <<>>,
           \A k \in Nat : k + 1 <= n => g[k + 1] = Append(g[k], y[k + 1])
    PROVE  \A k \in Nat : k <= n => g[k] = FirstOf(y, k)
<1> DEFINE All == {k \in Nat : k <= n => g[k] = [i \in 1..k |-> y[i]]}
           Values == {y[i] : i \in 1..n}
<1>1. 0 \in All
  <2>1. [i \in 1..0 |-> y[i]] = <<>>
    OBVIOUS
  <2> QED BY <2>1
<1>2. ASSUME NEW k \in Nat, k \in All PROVE k + 1 \in All
  <2> SUFFICES ASSUME k + 1 <= n PROVE g[k + 1] = [i \in 1..(k + 1) |-> y[i]]
    OBVIOUS
  <2>1. PICK q : q = [i \in 1..k |-> y[i]]
    OBVIOUS
  <2>2. \A i \in 1..(k + 1) : y[i] \in Values
    OBVIOUS
  <2> HIDE DEF Values
  <2>3. q \in Seq(Values) /\ Len(q) = k /\ y[k + 1] \in Values
    BY <2>1, <2>2
  <2>4. PICK t : t = [i \in 1..(k + 1) |-> y[i]]
    OBVIOUS
  <2>5. t \in Seq(Values) /\ Len(t) = k + 1 /\ \A i \in 1..(k + 1) : t[i] = y[i]
    BY <2>2, <2>4
  <2>6. \A i \in 1..k : q[i] = y[i]
    BY <2>1
  <2>7. /\ Append(q, y[k + 1]) \in Seq(Values) /\ Len(Append(q, y[k + 1])) = k + 1
        /\ (\A i \in 1..k : Append(q, y[k + 1])[i] = q[i]) /\ Append(q, y[k + 1])[k + 1] = y[k + 1]
    BY <2>3
  <2>8. \A i \in 1..(k + 1) : Append(q, y[k + 1])[i] = t[i]
    <3> SUFFICES ASSUME NEW i \in 1..(k + 1) PROVE Append(q, y[k + 1])[i] = t[i]
      OBVIOUS
    <3>1. CASE i = k + 1
      BY <3>1, <2>5, <2>7
    <3>2. CASE i \in 1..k
      BY <3>2, <2>5, <2>7, <2>6
    <3>3. i = k + 1 \/ i \in 1..k
      OBVIOUS
    <3> QED BY ONLY <3>1, <3>2, <3>3, Zenon
  <2>9. Append(q, y[k + 1]) = t
    BY <2>5, <2>7, <2>8, SeqEqual
  <2>10. g[k + 1] = Append(q, y[k + 1])
    BY <1>2, <2>1
  <2> QED BY <2>4, <2>9, <2>10
<1>3. \A k \in Nat : k \in All
  <2> HIDE DEF All
  <2> QED BY <1>1, <1>2, Induction
<1> QED BY <1>3 DEF FirstOf

\* A rolling average is, at each place, of the one before and the element.
LEMMA RollingAre ==
    ASSUME NEW s \in Seq(Int), NEW p \in Nat \ {0}
    PROVE  \E y : /\ \A i \in 1..Len(s) : RollingEma(s, p)[i] = y[i]
                  /\ \A i \in 1..Len(s) :
                         y[i] = RollTo(s, p, i, IF i = 1 THEN Last(<<>>) ELSE y[i - 1])
<1>1. PICK n \in Nat : n = Len(s)
  OBVIOUS
<1>2. PICK g : /\ RollingEma(s, p) = g[Len(s)] /\ g[0] = <<>>
               /\ \A k \in Nat : k + 1 <= Len(s) =>
                      g[k + 1] = Append(g[k], RollTo(s, p, k + 1, Last(g[k])))
  BY RollingRolls
<1>3. PICK y : y = [i \in 1..n |-> RollTo(s, p, i, Last(g[i - 1]))]
  OBVIOUS
<1>4. \A k \in Nat : k + 1 <= n => g[k + 1] = Append(g[k], y[k + 1])
  <2> SUFFICES ASSUME NEW k \in Nat, k + 1 <= n PROVE g[k + 1] = Append(g[k], y[k + 1])
    OBVIOUS
  <2>1. k + 1 \in 1..n /\ (k + 1) - 1 = k
    OBVIOUS
  <2>2. y[k + 1] = RollTo(s, p, k + 1, Last(g[k]))
    BY <1>3, <2>1
  <2> QED BY <1>1, <1>2, <2>2
<1>5. \A k \in Nat : k <= n => g[k] = [i \in 1..k |-> y[i]]
  <2>1. g[0] = <<>> /\ \A k \in Nat : k + 1 <= n => g[k + 1] = Append(g[k], y[k + 1])
    BY <1>2, <1>4
  <2>2. \A k \in Nat : k <= n => g[k] = FirstOf(y, k)
    BY <2>1, Built, ZenonT(120)
  <2> QED BY <2>2 DEF FirstOf
<1>6. ASSUME NEW i \in 1..n PROVE y[i] = RollTo(s, p, i, IF i = 1 THEN Last(<<>>) ELSE y[i - 1])
  <2>1. y[i] = RollTo(s, p, i, Last(g[i - 1]))
    BY <1>3
  <2>2. CASE i = 1
    BY <1>2, <2>1, <2>2
  <2>3. CASE i # 1
    <3>1. PICK k \in Nat : k = i - 1 /\ k >= 1 /\ k <= n
      BY <2>3
    <3>2. PICK q : q = [j \in 1..k |-> y[j]]
      OBVIOUS
    <3>3. g[i - 1] = q
      BY <1>5, <3>1, <3>2
    <3>4. q \in Seq({y[j] : j \in 1..k}) /\ Len(q) = k /\ q[k] = y[k]
      BY <3>1, <3>2
    <3>5. Last(q) = y[k]
      BY <3>4 DEF Last
    <3> QED BY <2>1, <2>3, <3>1, <3>3, <3>5
  <2> QED BY <2>2, <2>3
<1>7. RollingEma(s, p) = [i \in 1..n |-> y[i]]
  BY <1>1, <1>2, <1>5
<1> QED BY <1>1, <1>6, <1>7

\* An element more changes none of the averages before it.
LEMMA RollingLooksBack ==
    ASSUME NEW s \in Seq(Int), NEW x \in Int, NEW p \in Nat \ {0}
    PROVE  \A i \in 1..Len(s) : RollingEma(Append(s, x), p)[i] = RollingEma(s, p)[i]
<1>1. PICK n \in Nat : n = Len(s)
  OBVIOUS
<1>2. PICK t \in Seq(Int) : t = Append(s, x) /\ Len(t) = n + 1 /\ \A i \in 1..n : t[i] = s[i]
  <2>1. Append(s, x) \in Seq(Int) /\ Len(Append(s, x)) = n + 1
    BY <1>1
  <2>2. \A i \in 1..n : Append(s, x)[i] = s[i]
    BY <1>1
  <2> QED BY <2>1, <2>2
<1>3. PICK y : /\ \A i \in 1..Len(s) : RollingEma(s, p)[i] = y[i]
               /\ \A i \in 1..Len(s) : y[i] = RollTo(s, p, i, IF i = 1 THEN Last(<<>>) ELSE y[i - 1])
  BY RollingAre
<1>4. PICK z : /\ \A i \in 1..Len(t) : RollingEma(t, p)[i] = z[i]
               /\ \A i \in 1..Len(t) : z[i] = RollTo(t, p, i, IF i = 1 THEN Last(<<>>) ELSE z[i - 1])
  BY RollingAre
<1>5. p <= n => SubSeq(t, 1, p) = SubSeq(s, 1, p)
  <2> SUFFICES ASSUME p <= n PROVE SubSeq(t, 1, p) = SubSeq(s, 1, p)
    OBVIOUS
  <2>1. PICK u : u = SubSeq(s, 1, p)
    OBVIOUS
  <2>2. PICK v : v = SubSeq(t, 1, p)
    OBVIOUS
  <2>3. u \in Seq(Int) /\ Len(u) = p /\ \A i \in 1..p : u[i] = s[i]
    BY <1>1, <2>1
  <2>4. v \in Seq(Int) /\ Len(v) = p /\ \A i \in 1..p : v[i] = t[i]
    BY <1>2, <2>2
  <2>5. ASSUME NEW i \in 1..p PROVE v[i] = u[i]
    <3>1. i \in 1..n
      BY <1>1
    <3>2. t[i] = s[i]
      BY <1>2, <3>1
    <3>3. v[i] = t[i] /\ u[i] = s[i]
      BY <2>3, <2>4
    <3> QED BY <3>2, <3>3
  <2>6. v = u
    BY <2>3, <2>4, <2>5, SeqEqual
  <2> QED BY <2>1, <2>2, <2>6
<1>6. ASSUME NEW i \in 1..n, NEW before PROVE RollTo(t, p, i, before) = RollTo(s, p, i, before)
  <2>1. t[i] = s[i]
    BY <1>2
  <2>2. i = p => p <= n
    OBVIOUS
  <2> QED BY <1>5, <2>1, <2>2 DEF RollTo
<1> DEFINE All == {i \in Nat : i \in 1..n => z[i] = y[i]}
<1>7. 0 \in All
  OBVIOUS
<1>8. ASSUME NEW i \in Nat, i \in All PROVE i + 1 \in All
  <2> SUFFICES ASSUME i + 1 \in 1..n PROVE z[i + 1] = y[i + 1]
    OBVIOUS
  <2>1. i + 1 \in 1..Len(s) /\ i + 1 \in 1..Len(t) /\ (i + 1) - 1 = i
    BY <1>1, <1>2
  <2>2. PICK a : a = IF i + 1 = 1 THEN Last(<<>>) ELSE y[i]
    OBVIOUS
  <2>3. a = IF i + 1 = 1 THEN Last(<<>>) ELSE z[i]
    <3>1. i + 1 # 1 => i \in 1..n
      OBVIOUS
    <3> QED BY <1>8, <2>2, <3>1
  <2>4. y[i + 1] = RollTo(s, p, i + 1, a)
    BY <1>3, <2>1, <2>2
  <2>5. z[i + 1] = RollTo(t, p, i + 1, a)
    BY <1>4, <2>1, <2>3
  <2> QED BY <1>6, <2>4, <2>5
<1>9. \A i \in Nat : i \in All
  <2> HIDE DEF All
  <2> QED BY <1>7, <1>8, Induction
<1>10. \A i \in 1..n : z[i] = y[i]
  BY <1>9
<1> HIDE DEF All
<1>11. ASSUME NEW i \in 1..Len(s) PROVE RollingEma(Append(s, x), p)[i] = RollingEma(s, p)[i]
  <2>1. i \in 1..n /\ i \in 1..Len(t)
    BY <1>1, <1>2
  <2>2. RollingEma(t, p)[i] = z[i]
    BY ONLY <1>4, <2>1, Zenon
  <2>3. RollingEma(s, p)[i] = y[i]
    BY ONLY <1>3, Zenon
  <2>4. z[i] = y[i]
    BY ONLY <1>10, <2>1, Zenon
  <2>5. t = Append(s, x)
    BY <1>2
  <2> QED BY ONLY <2>2, <2>3, <2>4, <2>5, Zenon
<1> QED BY ONLY <1>11, Zenon

\* The regime at each place is that of the bars up to it.
LEMMA ClassesAre ==
    ASSUME NEW x, NEW n \in Nat, n = Len(x)
    PROVE  \A i \in 1..n : Classes(x)[i] = ClassAt(x, i)
<1> DEFINE y == [i \in 1..n |-> ClassAt(x, i)]
           u == [j \in 0..n |-> [i \in 1..j |-> y[i]]]
           g == CHOOSE f : f = [j \in 0..n |->
                    IF j = 0 THEN <<>> ELSE Append(f[j - 1], ClassAt(x, j))]
           Values == {y[i] : i \in 1..n}
<1> HIDE DEF y
<1>1. ASSUME NEW j \in 0..n, j # 0 PROVE u[j] = Append(u[j - 1], y[j])
  <2>1. PICK k \in Nat : k = j - 1 /\ k + 1 = j /\ k + 1 <= n
    BY <1>1
  <2> DEFINE f == [i \in 0..(k + 1) |-> IF i = k + 1 THEN Append(u[k], y[k + 1]) ELSE u[i]]
  <2>2. \A i \in 1..(k + 1) : y[i] \in Values
    BY <2>1
  <2>3. PICK q : q = [i \in 1..k |-> y[i]]
    OBVIOUS
  <2>4. PICK t : t = [i \in 1..(k + 1) |-> y[i]]
    OBVIOUS
  <2>5. u[j - 1] = q /\ u[j] = t
    BY <2>1, <2>3, <2>4
  <2> HIDE DEF Values, u
  <2>6. q \in Seq(Values) /\ Len(q) = k /\ y[k + 1] \in Values /\ t \in Seq(Values) /\ Len(t) = k + 1
    BY <2>2, <2>3, <2>4
  <2>7. (\A i \in 1..k : q[i] = y[i]) /\ \A i \in 1..(k + 1) : t[i] = y[i]
    BY <2>3, <2>4
  <2>8. /\ Append(q, y[k + 1]) \in Seq(Values) /\ Len(Append(q, y[k + 1])) = k + 1
        /\ (\A i \in 1..k : Append(q, y[k + 1])[i] = q[i]) /\ Append(q, y[k + 1])[k + 1] = y[k + 1]
    BY <2>6
  <2>9. \A i \in 1..(k + 1) : Append(q, y[k + 1])[i] = t[i]
    <3> SUFFICES ASSUME NEW i \in 1..(k + 1) PROVE Append(q, y[k + 1])[i] = t[i]
      OBVIOUS
    <3>1. CASE i = k + 1
      BY <3>1, <2>7, <2>8
    <3>2. CASE i \in 1..k
      BY <3>2, <2>7, <2>8
    <3>3. i = k + 1 \/ i \in 1..k
      BY <2>1
    <3> QED BY ONLY <3>1, <3>2, <3>3, Zenon
  <2>10. Append(q, y[k + 1]) = t
    BY <2>6, <2>8, <2>9, SeqEqual
  <2> QED BY <2>1, <2>5, <2>10
<1>2. u[0] = <<>>
  <2>1. [i \in 1..0 |-> y[i]] = <<>>
    OBVIOUS
  <2> QED BY <2>1
<1>3. u = [j \in 0..n |-> u[j]]
  OBVIOUS
<1> HIDE DEF u
<1>4. \A j \in 0..n : u[j] = IF j = 0 THEN <<>> ELSE Append(u[j - 1], ClassAt(x, j))
  <2>1. \A j \in 0..n : j # 0 => y[j] = ClassAt(x, j)
    BY DEF y
  <2> QED BY <1>1, <1>2, <2>1
<1>5. u = [j \in 0..n |-> IF j = 0 THEN <<>> ELSE Append(u[j - 1], ClassAt(x, j))]
  BY <1>3, <1>4
<1>6. g = [j \in 0..n |-> IF j = 0 THEN <<>> ELSE Append(g[j - 1], ClassAt(x, j))]
  BY <1>5
<1>7. Classes(x) = g[n]
  BY DEF Classes
<1> HIDE DEF g
<1>8. g[0] = <<>> /\ \A k \in Nat : k + 1 <= n => g[k + 1] = Append(g[k], y[k + 1])
  <2>1. g[0] = <<>>
    BY <1>6
  <2>2. ASSUME NEW k \in Nat, k + 1 <= n PROVE g[k + 1] = Append(g[k], y[k + 1])
    <3>1. k + 1 \in 0..n /\ k + 1 # 0 /\ (k + 1) - 1 = k /\ k + 1 \in 1..n
      BY <2>2
    <3>2. y[k + 1] = ClassAt(x, k + 1)
      BY <3>1 DEF y
    <3> QED BY <1>6, <3>1, <3>2
  <2> QED BY <2>1, <2>2
<1>9. g[n] = [i \in 1..n |-> y[i]]
  <2>1. g[0] = <<>> /\ \A k \in Nat : k + 1 <= n => g[k + 1] = Append(g[k], y[k + 1])
    BY <1>8
  <2>2. \A k \in Nat : k <= n => g[k] = FirstOf(y, k)
    BY ONLY n \in Nat, <2>1, Built
  <2> QED BY <2>2 DEF FirstOf
<1> QED BY <1>7, <1>9 DEF y

\* The least of a set of naturals.
LEMMA MinFacts ==
    ASSUME NEW T \in SUBSET Nat
    PROVE  /\ T # {} => Min(T) \in T /\ \A y \in T : Min(T) <= y
           /\ \A m \in T : (\A y \in T : m <= y) => Min(T) = m
<1>1. ASSUME NEW m \in T, \A y \in T : m <= y PROVE Min(T) \in T /\ \A y \in T : Min(T) <= y
  BY <1>1 DEF Min
<1>2. ASSUME T # {} PROVE Min(T) \in T /\ \A y \in T : Min(T) <= y
  <2>1. PICK n \in T : TRUE
    BY <1>2
  <2>2. PICK m \in T : \A y \in T : m <= y
    BY LeastMember
  <2> QED BY <1>1, <2>2
<1>3. ASSUME NEW m \in T, \A y \in T : m <= y PROVE Min(T) = m
  <2>1. Min(T) \in T /\ Min(T) <= m /\ m <= Min(T)
    BY <1>1, <1>3
  <2>2. m \in Nat /\ Min(T) \in Nat
    BY <2>1
  <2> QED BY <2>1, <2>2
<1> QED BY <1>2, <1>3

\* The bars that end the hold of a side entered at i.
Ends(n, c, f, s, i, sd) ==
    {j \in (i + 1)..n : /\ c[j] # None
                        /\ Downgraded(sd, c[j]) \/ Reversed(sd, f[j], s[j])}

HoldOf(x, n, c, f, s, i, sd) ==
    LET exit == Min(Ends(n, c, f, s, i, sd))
    IN  [entry |-> i, side |-> sd, exit |-> exit, regime |-> c[i],
         reward |-> Excursion(sd, x[i].close, x[exit].close)]

LEMMA HoldsAre ==
    ASSUME NEW x, NEW c, NEW f, NEW s
    PROVE  Holds(x, c, f, s) =
               {HoldOf(x, Len(x), c, f, s, h[1], h[2]) :
                    h \in {h \in (DOMAIN x) \X Sides :
                              /\ c[h[1]] # None /\ h[2] \in PermittedSides(c[h[1]])
                              /\ Ends(Len(x), c, f, s, h[1], h[2]) # {}}}
BY DEF Holds, HoldOf, Ends

\* A hold, by where and on which side it is entered.
LEMMA AHold ==
    ASSUME NEW x \in Seq(Candle), NEW n \in Nat, n = Len(x), NEW c, NEW f, NEW s, NEW h
    PROVE  h \in Holds(x, c, f, s) <=>
               \E i \in 1..n, sd \in Sides :
                   /\ c[i] # None /\ sd \in PermittedSides(c[i])
                   /\ Ends(n, c, f, s, i, sd) # {}
                   /\ h = HoldOf(x, n, c, f, s, i, sd)
<1>1. DOMAIN x = 1..n
  OBVIOUS
<1>2. ASSUME h \in Holds(x, c, f, s)
      PROVE  \E i \in 1..n, sd \in Sides :
                 /\ c[i] # None /\ sd \in PermittedSides(c[i])
                 /\ Ends(n, c, f, s, i, sd) # {}
                 /\ h = HoldOf(x, n, c, f, s, i, sd)
  <2>1. PICK e \in (DOMAIN x) \X Sides :
            /\ c[e[1]] # None /\ e[2] \in PermittedSides(c[e[1]])
            /\ Ends(n, c, f, s, e[1], e[2]) # {}
            /\ h = HoldOf(x, n, c, f, s, e[1], e[2])
    BY <1>2, HoldsAre, n = Len(x)
  <2> QED BY <1>1, <2>1
<1>3. ASSUME NEW i \in 1..n, NEW sd \in Sides,
             c[i] # None, sd \in PermittedSides(c[i]), Ends(n, c, f, s, i, sd) # {},
             h = HoldOf(x, n, c, f, s, i, sd)
      PROVE  h \in Holds(x, c, f, s)
  <2>1. <<i, sd>> \in (DOMAIN x) \X Sides /\ <<i, sd>>[1] = i /\ <<i, sd>>[2] = sd
    BY <1>1
  <2>2. <<i, sd>> \in {e \in (DOMAIN x) \X Sides :
                           /\ c[e[1]] # None /\ e[2] \in PermittedSides(c[e[1]])
                           /\ Ends(n, c, f, s, e[1], e[2]) # {}}
    BY <1>3, <2>1
  <2> QED BY <1>3, <2>1, <2>2, HoldsAre, n = Len(x)
<1> QED BY <1>2, <1>3

\* A bar more ends holds that nothing had ended, and changes no other.
LEMMA HoldsLookBack ==
    ASSUME NEW x \in Seq(Candle), NEW b \in Candle, NEW n \in Nat, n = Len(x),
           NEW c, NEW f, NEW s, NEW d, NEW g, NEW t,
           \A i \in 1..n : d[i] = c[i] /\ g[i] = f[i] /\ t[i] = s[i]
    PROVE  Holds(x, c, f, s) = {h \in Holds(Append(x, b), d, g, t) : h.exit < n + 1}
<1>1. PICK y \in Seq(Candle) : y = Append(x, b) /\ Len(y) = n + 1 /\ \A i \in 1..n : y[i] = x[i]
  <2>1. Append(x, b) \in Seq(Candle) /\ Len(Append(x, b)) = n + 1
    OBVIOUS
  <2>2. \A i \in 1..n : Append(x, b)[i] = x[i]
    OBVIOUS
  <2> QED BY <2>1, <2>2
<1>2. ASSUME NEW i \in 1..n, NEW sd
      PROVE  /\ Ends(n, c, f, s, i, sd) = {j \in Ends(n + 1, d, g, t, i, sd) : j < n + 1}
             /\ Ends(n + 1, d, g, t, i, sd) \in SUBSET Nat
             /\ Ends(n, c, f, s, i, sd) \in SUBSET Nat
  <2>1. (i + 1)..n \subseteq 1..n /\ \A j \in (i + 1)..(n + 1) : j < n + 1 <=> j \in (i + 1)..n
    OBVIOUS
  <2>2. \A j \in (i + 1)..n : d[j] = c[j] /\ g[j] = f[j] /\ t[j] = s[j]
    BY <2>1
  <2>3. \A j : j \in (i + 1)..n => j \in (i + 1)..(n + 1)
    OBVIOUS
  <2>4. Ends(n, c, f, s, i, sd) = {j \in Ends(n + 1, d, g, t, i, sd) : j < n + 1}
    BY <2>1, <2>2, <2>3 DEF Ends
  <2>5. Ends(n + 1, d, g, t, i, sd) \in SUBSET Nat
    BY DEF Ends
  <2> QED BY <2>4, <2>5
\* The hold of a bar and a side that a bar up to n ends is the same in both.
<1>3. ASSUME NEW i \in 1..n, NEW sd, Ends(n, c, f, s, i, sd) # {}
      PROVE  /\ HoldOf(x, n, c, f, s, i, sd) = HoldOf(y, n + 1, d, g, t, i, sd)
             /\ HoldOf(x, n, c, f, s, i, sd).exit < n + 1
             /\ Ends(n + 1, d, g, t, i, sd) # {}
  <2>1. PICK e \in Ends(n, c, f, s, i, sd) :
            e = Min(Ends(n, c, f, s, i, sd)) /\ \A j \in Ends(n, c, f, s, i, sd) : e <= j
    BY <1>2, <1>3, MinFacts
  <2>2. e \in 1..n /\ e < n + 1 /\ e \in Nat
    BY DEF Ends
  <2>3. e \in Ends(n + 1, d, g, t, i, sd)
    BY <1>2
  <2>4. ASSUME NEW j \in Ends(n + 1, d, g, t, i, sd) PROVE e <= j
    <3>1. CASE j < n + 1
      BY <1>2, <2>1, <3>1
    <3>2. CASE ~(j < n + 1)
      <4>1. j \in Nat
        BY <1>2
      <4> QED BY <2>2, <3>2, <4>1
    <3> QED BY <3>1, <3>2
  <2>5. Min(Ends(n + 1, d, g, t, i, sd)) = e
    BY <1>2, <2>3, <2>4, MinFacts
  <2>6. d[i] = c[i] /\ y[i] = x[i] /\ y[e] = x[e]
    BY <1>1, <2>2
  <2>7. HoldOf(x, n, c, f, s, i, sd) =
            [entry |-> i, side |-> sd, exit |-> e, regime |-> c[i],
             reward |-> Excursion(sd, x[i].close, x[e].close)]
    BY <2>1 DEF HoldOf
  <2>8. HoldOf(y, n + 1, d, g, t, i, sd) =
            [entry |-> i, side |-> sd, exit |-> e, regime |-> c[i],
             reward |-> Excursion(sd, x[i].close, x[e].close)]
    BY <2>5, <2>6 DEF HoldOf
  <2> QED BY <2>2, <2>3, <2>7, <2>8
<1>4. ASSUME NEW h \in Holds(x, c, f, s)
      PROVE  h \in Holds(y, d, g, t) /\ h.exit < n + 1
  <2>1. PICK i \in 1..n, sd \in Sides :
            /\ c[i] # None /\ sd \in PermittedSides(c[i]) /\ Ends(n, c, f, s, i, sd) # {}
            /\ h = HoldOf(x, n, c, f, s, i, sd)
    BY AHold
  <2>2. d[i] = c[i] /\ i \in 1..(n + 1)
    OBVIOUS
  <2>3. h = HoldOf(y, n + 1, d, g, t, i, sd) /\ h.exit < n + 1 /\ Ends(n + 1, d, g, t, i, sd) # {}
    BY <1>3, <2>1
  <2>4. h \in Holds(y, d, g, t)
    <3>1. n + 1 \in Nat /\ n + 1 = Len(y)
      BY <1>1
    <3>2. \E j \in 1..(n + 1), r \in Sides :
              /\ d[j] # None /\ r \in PermittedSides(d[j]) /\ Ends(n + 1, d, g, t, j, r) # {}
              /\ h = HoldOf(y, n + 1, d, g, t, j, r)
      BY <2>1, <2>2, <2>3
    <3> QED BY <3>1, <3>2, AHold
  <2> QED BY <2>3, <2>4
<1>5. ASSUME NEW h \in Holds(y, d, g, t), h.exit < n + 1
      PROVE  h \in Holds(x, c, f, s)
  <2>1. PICK i \in 1..(n + 1), sd \in Sides :
            /\ d[i] # None /\ sd \in PermittedSides(d[i]) /\ Ends(n + 1, d, g, t, i, sd) # {}
            /\ h = HoldOf(y, n + 1, d, g, t, i, sd)
    <3>1. n + 1 \in Nat /\ n + 1 = Len(y)
      BY <1>1
    <3> QED BY <1>5, <3>1, AHold
  <2>2. Ends(n + 1, d, g, t, i, sd) \in SUBSET Nat
    BY DEF Ends
  <2>3. PICK e \in Ends(n + 1, d, g, t, i, sd) : e = Min(Ends(n + 1, d, g, t, i, sd))
    BY <2>1, <2>2, MinFacts
  <2>4. h.exit = e
    BY <2>1, <2>3 DEF HoldOf
  <2>5. e < n + 1 /\ e \in (i + 1)..(n + 1)
    BY <1>5, <2>4 DEF Ends
  <2>6. i \in 1..n
    BY <2>5
  <2>7. e \in Ends(n, c, f, s, i, sd)
    BY <1>2, <2>3, <2>5, <2>6
  <2>8. d[i] = c[i]
    BY <2>6
  <2>9. h = HoldOf(x, n, c, f, s, i, sd)
    BY <1>3, <2>1, <2>6, <2>7
  <2> QED BY <2>1, <2>6, <2>7, <2>8, <2>9, AHold
<1> QED BY <1>1, <1>4, <1>5

LEMMA ReplayLooksBack == CandlesInv => ReplayLooksBackOnly
<1> SUFFICES ASSUME CandlesInv, Len(bars) > 1
             PROVE  Replay(Front(bars)) = {h \in Replay(bars) : h.exit < Len(bars)}
  BY DEF ReplayLooksBackOnly
<1>1. bars \in Seq(Candle) /\ Len(bars) \in Nat
  BY DEF CandlesInv
<1>2. PICK n \in Nat : n = Len(bars) - 1 /\ n >= 1 /\ Len(bars) = n + 1
  BY <1>1
<1>3. PICK x \in Seq(Candle) : x = Front(bars) /\ Len(x) = n /\ \A i \in 1..n : x[i] = bars[i]
  <2>1. SubSeq(bars, 1, n) \in Seq(Candle) /\ Len(SubSeq(bars, 1, n)) = n
        /\ \A i \in 1..n : SubSeq(bars, 1, n)[i] = bars[i]
    BY <1>1, <1>2
  <2>2. Front(bars) = SubSeq(bars, 1, n)
    BY <1>2 DEF Front
  <2> QED BY <2>1, <2>2
<1>4. PICK b \in Candle : b = bars[n + 1]
  BY <1>1, <1>2
<1>5. bars = Append(x, b)
  <2>1. Append(x, b) \in Seq(Candle) /\ Len(Append(x, b)) = n + 1
        /\ (\A i \in 1..n : Append(x, b)[i] = x[i]) /\ Append(x, b)[n + 1] = b
    BY <1>3
  <2>2. \A i \in 1..(n + 1) : Append(x, b)[i] = bars[i]
    <3> SUFFICES ASSUME NEW i \in 1..(n + 1) PROVE Append(x, b)[i] = bars[i]
      OBVIOUS
    <3>1. CASE i = n + 1
      BY <3>1, <1>4, <2>1
    <3>2. CASE i \in 1..n
      BY <3>2, <1>3, <2>1
    <3>3. i = n + 1 \/ i \in 1..n
      OBVIOUS
    <3> QED BY ONLY <3>1, <3>2, <3>3, Zenon
  <2> QED BY <1>1, <1>2, <2>1, <2>2, SeqEqual
<1>6. PICK c \in Seq(Int) : c = Closes(x) /\ Len(c) = n
  <2>1. Closes(x) \in Seq(Int) /\ Len(Closes(x)) = Len(x)
    BY <1>3, <1>4, ClosesGrow
  <2> QED BY <1>3, <2>1
<1>7. Closes(bars) = Append(c, b.close) /\ b.close \in Int
  BY <1>3, <1>5, <1>6, ClosesGrow, CandleFacts
<1>8. DecisionFast \in Nat \ {0} /\ DecisionSlow \in Nat \ {0}
  BY DecisionPeriods
<1>9. /\ \A i \in 1..n : RollingEma(Closes(bars), DecisionFast)[i] = RollingEma(c, DecisionFast)[i]
      /\ \A i \in 1..n : RollingEma(Closes(bars), DecisionSlow)[i] = RollingEma(c, DecisionSlow)[i]
  <2>1. \A p \in Nat \ {0} : \A i \in 1..Len(c) :
            RollingEma(Append(c, b.close), p)[i] = RollingEma(c, p)[i]
    BY <1>6, <1>7, RollingLooksBack
  <2>2. Len(c) = n
    BY <1>6
  <2> QED BY <1>7, <1>8, <2>1, <2>2
<1>10. ASSUME NEW i \in 1..n PROVE Classes(bars)[i] = Classes(x)[i]
  <2>1. SubSeq(bars, 1, i) = SubSeq(x, 1, i)
    <3>1. i \in 1..Len(x)
      BY <1>3
    <3> QED BY <1>5, <3>1, SameSeed
  <2>2. Classes(x)[i] = ClassAt(x, i)
    BY <1>3, ClassesAre
  <2>3. Classes(bars)[i] = ClassAt(bars, i)
    BY <1>2, ClassesAre, n + 1 \in Nat, i \in 1..(n + 1)
  <2>4. ClassAt(bars, i) = ClassAt(x, i)
    BY <2>1 DEF ClassAt
  <2> QED BY <2>2, <2>3, <2>4
<1>11. Holds(x, Classes(x), RollingEma(c, DecisionFast), RollingEma(c, DecisionSlow))
           = {h \in Holds(Append(x, b), Classes(bars), RollingEma(Closes(bars), DecisionFast),
                          RollingEma(Closes(bars), DecisionSlow)) : h.exit < n + 1}
  BY <1>3, <1>9, <1>10, HoldsLookBack
<1> QED BY <1>2, <1>3, <1>5, <1>6, <1>11 DEF Replay

-----------------------------------------------------------------------------
(* The rewards. *)

\* The reward of the newest series that has one.
NewestKnown(q, g) ==
    LET known == {i \in DOMAIN q : g \in DOMAIN ExpectedReward(q[i])}
    IN  IF known = {} THEN None ELSE ExpectedReward(q[Max(known)])[g]

LEMMA NewestAppend ==
    ASSUME NEW X, NEW q \in Seq(X), NEW e \in X, NEW g
    PROVE  NewestKnown(Append(q, e), g)
               = IF g \in DOMAIN ExpectedReward(e) THEN ExpectedReward(e)[g] ELSE NewestKnown(q, g)
<1>1. PICK n \in Nat : n = Len(q)
  OBVIOUS
<1>2. PICK t : t = Append(q, e)
  OBVIOUS
<1>3. DOMAIN t = 1..(n + 1) /\ DOMAIN q = 1..n /\ t[n + 1] = e /\ \A i \in 1..n : t[i] = q[i]
  BY <1>1, <1>2
<1>4. PICK old : old = {i \in DOMAIN q : g \in DOMAIN ExpectedReward(q[i])}
  OBVIOUS
<1>5. PICK new : new = {i \in DOMAIN t : g \in DOMAIN ExpectedReward(t[i])}
  OBVIOUS
<1>6. CASE g \in DOMAIN ExpectedReward(e)
  <2>1. n + 1 \in new /\ \A i \in new : n + 1 >= i /\ i \in Nat
    BY <1>3, <1>5, <1>6
  <2>2. Max(new) \in new /\ \A i \in new : Max(new) >= i
    BY <2>1, MaxFacts
  <2>3. Max(new) = n + 1
    BY <2>1, <2>2
  <2> QED BY <1>2, <1>3, <1>5, <1>6, <2>1, <2>3 DEF NewestKnown
<1>7. CASE g \notin DOMAIN ExpectedReward(e)
  <2>1. new = old
    <3>1. \A i : i \in 1..(n + 1) <=> i \in 1..n \/ i = n + 1
      OBVIOUS
    <3> QED BY <1>3, <1>4, <1>5, <1>7, <3>1
  <2>2. CASE old = {}
    BY <1>2, <1>4, <1>5, <1>7, <2>1, <2>2 DEF NewestKnown
  <2>3. CASE old # {}
    <3>1. PICK k \in old : TRUE
      BY <2>3
    <3>2. old \in SUBSET Int /\ \A i \in old : i <= n
      BY <1>3, <1>4
    <3>3. PICK m \in old : \A i \in old : i <= m
      BY <3>1, <3>2, BoundedInts, n \in Int
    <3>4. \A i \in old : m >= i
      BY <3>2, <3>3
    <3>5. Max(old) \in old
      BY <3>4, MaxFacts
    <3>6. t[Max(old)] = q[Max(old)]
      BY <1>3, <1>4, <3>5
    <3> QED BY <1>2, <1>4, <1>5, <1>7, <2>1, <2>3, <3>6 DEF NewestKnown
  <2> QED BY <2>2, <2>3
<1> QED BY <1>6, <1>7

RewardInv == reward = [s \in Symbols |-> [g \in Regimes |-> NewestKnown(served[s], g)]]

LEMMA RewardInit == MarketInit => RewardInv
<1> SUFFICES ASSUME MarketInit PROVE RewardInv
  OBVIOUS
<1>1. reward = [s \in Symbols |-> [g \in Regimes |-> None]] /\ \A s \in Symbols : served[s] = <<>>
  BY DEF MarketInit
<1>2. \A g : NewestKnown(<<>>, g) = None
  BY DEF NewestKnown
<1> QED BY <1>1, <1>2 DEF RewardInv

LEMMA RewardStep == RegimesInv /\ RewardInv /\ [MarketNext]_marketVars => RewardInv'
<1> SUFFICES ASSUME RegimesInv, RewardInv, [MarketNext]_marketVars PROVE RewardInv'
  OBVIOUS
<1>1. CASE UNCHANGED <<reward, served>>
  BY <1>1 DEF RewardInv, Symbols
<1>2. ASSUME NEW series \in DailySeries, ComputeOne(series) PROVE RewardInv'
  <2>1. PICK h : h = Head(pending)
    OBVIOUS
  <2>2. /\ reward' = [reward EXCEPT ![h] = Rewarded(@, ExpectedReward(series))]
        /\ served' = [served EXCEPT ![h] = Append(@, series)] /\ pending # <<>>
    BY <1>2, <2>1 DEF ComputeOne
  <2>3. h \in Symbols
    BY <2>1, <2>2, HeadIsAsked DEF RegimesInv
  <2>4. PICK q \in Seq(DailySeries) : q = served[h]
    BY <2>3 DEF RegimesInv
  <2>5. served'[h] = Append(q, series) /\ \A s \in Symbols \ {h} : served'[s] = served[s]
    BY <2>2, <2>3, <2>4 DEF RegimesInv
  <2>6. reward[h] = [g \in Regimes |-> NewestKnown(q, g)]
    BY <2>3, <2>4 DEF RewardInv
  <2>7. Rewarded(reward[h], ExpectedReward(series))
            = [g \in Regimes |-> NewestKnown(Append(q, series), g)]
    <3>1. \A g \in Regimes : NewestKnown(Append(q, series), g)
              = IF g \in DOMAIN ExpectedReward(series) THEN ExpectedReward(series)[g]
                ELSE NewestKnown(q, g)
      BY NewestAppend
    <3> QED BY <2>6, <3>1 DEF Rewarded
  <2>8. reward' = [s \in Symbols |-> IF s = h THEN Rewarded(reward[h], ExpectedReward(series)) ELSE reward[s]]
    BY <2>2, <2>3 DEF RewardInv
  <2>9. \A s \in Symbols : reward'[s] = [g \in Regimes |-> NewestKnown(served'[s], g)]
    BY <2>5, <2>7, <2>8 DEF RewardInv
  <2>10. reward' = [s \in Symbols |-> reward'[s]]
    BY <2>8
  <2> QED BY <2>9, <2>10 DEF RewardInv, Symbols
<1>3. CASE RegimesNext
  BY <1>1, <1>2, <1>3 DEF RegimesNext, StartCompute, ComputeFails
<1>4. CASE CandlesNext
  BY <1>1, <1>4 DEF CandlesNext, Warm, Commit, regimeVars
<1>5. CASE UNCHANGED marketVars
  BY <1>1, <1>5 DEF marketVars
<1> QED BY <1>3, <1>4, <1>5 DEF MarketNext

LEMMA RewardsKnown == RegimesInv /\ RewardInv => RewardIsNewestKnown
<1> SUFFICES ASSUME RegimesInv, RewardInv, NEW s \in Symbols, NEW g \in Regimes
             PROVE  LET of == [i \in DOMAIN served[s] |-> ExpectedReward(served[s][i])]
                        known == {i \in DOMAIN of : g \in DOMAIN of[i]}
                    IN  reward[s][g] = IF known = {} THEN None ELSE of[Max(known)][g]
  BY DEF RewardIsNewestKnown
<1> DEFINE of == [i \in DOMAIN served[s] |-> ExpectedReward(served[s][i])]
           known == {i \in DOMAIN of : g \in DOMAIN of[i]}
<1>1. known = {i \in DOMAIN served[s] : g \in DOMAIN ExpectedReward(served[s][i])}
  OBVIOUS
<1>2. reward[s][g] = NewestKnown(served[s], g)
  BY DEF RewardInv
<1>3. known # {} => Max(known) \in DOMAIN served[s]
  <2> SUFFICES ASSUME known # {} PROVE Max(known) \in DOMAIN served[s]
    OBVIOUS
  <2>1. PICK n \in Nat : DOMAIN served[s] = 1..n
    BY DEF RegimesInv
  <2>2. known \in SUBSET Int /\ (\A i \in known : i <= n) /\ known \subseteq 1..n
    BY <2>1
  <2> HIDE DEF known
  <2>3. PICK k \in known : TRUE
    OBVIOUS
  <2>4. PICK m \in known : \A i \in known : i <= m
    BY <2>2, <2>3, BoundedInts, n \in Int
  <2>5. \A i \in known : m >= i
    BY <2>2, <2>4
  <2>6. Max(known) \in known
    BY <2>5, MaxFacts
  <2> QED BY <2>1, <2>2, <2>6
<1>4. known # {} => of[Max(known)] = ExpectedReward(served[s][Max(known)])
  BY <1>3
<1> QED BY <1>1, <1>2, <1>4 DEF NewestKnown

-----------------------------------------------------------------------------
(* The viability of a history is a number, or None. *)

\* A finite set as a list: each member once.
LEMMA ListOf ==
    ASSUME NEW T, IsFiniteSet(T)
    PROVE  /\ SetToSeq(T) \in Seq(T) /\ Len(SetToSeq(T)) = Cardinality(T) /\ Cardinality(T) \in Nat
           /\ \A i, j \in DOMAIN SetToSeq(T) : SetToSeq(T)[i] = SetToSeq(T)[j] => i = j
           /\ \A y \in T : \E i \in DOMAIN SetToSeq(T) : SetToSeq(T)[i] = y
<1>1. PICK n \in Nat : n = Cardinality(T)
  BY FS_CardinalityType
<1>2. \E f \in [1..n -> T] : IsInjective(f)
  BY <1>1, FS_CardinalityType DEF ExistsBijection, Bijection, Injection
<1>3. PICK f \in [1..n -> T] : f = SetToSeq(T) /\ IsInjective(f)
  BY <1>1, <1>2 DEF SetToSeq
<1>4. f \in Surjection(1..n, T)
  <2>1. f \in Injection(1..n, T)
    BY <1>3 DEF Injection
  <2>2. IsFiniteSet(1..n) /\ Cardinality(1..n) = n
    BY FS_Interval, 1 \in Int, n \in Int
  <2> QED BY <1>1, <2>1, <2>2, FS_Injection
<1>5. f \in Seq(T) /\ Len(f) = n /\ DOMAIN f = 1..n
  OBVIOUS
<1>6. \A y \in T : \E i \in 1..n : f[i] = y
  BY <1>4 DEF Surjection
<1> QED BY <1>1, <1>3, <1>5, <1>6 DEF IsInjective

LEMMA QuantileIsInt ==
    ASSUME NEW s \in Seq(Int), Len(s) >= 1, NEW num \in Nat, NEW den \in Nat \ {0}
    PROVE  Quantile(s, num, den) \in Int
<1>1. PICK m \in Nat : m = Len(s) - 1
  BY Len(s) \in Nat
<1>2. PICK xs : xs = OrderStatistics(s)
  OBVIOUS
<1>3. xs \in Seq(Int) /\ Len(xs) = m + 1
  BY <1>1, <1>2, OrderFacts, Len(s) \in Nat
<1>4. \A k \in 1..(m + 1) : xs[k] \in Int
  BY <1>3
<1>5. PICK rank \in Nat : rank = num * m
  OBVIOUS
<1>6. PICK lo \in Nat, r \in Int : lo = rank \div den /\ r = rank % den
  <2>1. rank \div den \in Nat /\ rank % den \in Int
    OBVIOUS
  <2> QED BY <2>1
<1>7. Quantile(s, num, den)
          = IF lo >= m THEN xs[m + 1] ELSE xs[lo + 1] + (r * (xs[lo + 2] - xs[lo + 1])) \div den
  <2>1. Len(xs) - 1 = m /\ Last(xs) = xs[m + 1]
    BY <1>3 DEF Last
  <2> QED BY <1>2, <1>5, <1>6, <2>1 DEF Quantile
<1>8. CASE lo >= m
  BY <1>4, <1>7, <1>8
<1>9. CASE ~(lo >= m)
  <2>1. PICK a \in Int, b \in Int : a = xs[lo + 1] /\ b = xs[lo + 2]
    <3>1. lo + 1 \in 1..(m + 1) /\ lo + 2 \in 1..(m + 1)
      BY <1>9
    <3> QED BY <1>4, <3>1
  <2>2. PICK k \in Int : k = r * (b - a)
    OBVIOUS
  <2>3. k \div den \in Int
    OBVIOUS
  <2> QED BY <1>7, <1>9, <2>1, <2>2, <2>3
<1> QED BY <1>8, <1>9

\* The holds of a history are finitely many, and their rewards numbers.
LEMMA HoldsAreFinite ==
    ASSUME NEW x \in Seq(Candle), NEW c, NEW f, NEW s
    PROVE  /\ IsFiniteSet(Holds(x, c, f, s))
           /\ \A h \in Holds(x, c, f, s) : h.reward \in Int
<1>1. PICK n \in Nat : n = Len(x)
  OBVIOUS
<1> DEFINE E == {e \in (DOMAIN x) \X Sides :
                     /\ c[e[1]] # None /\ e[2] \in PermittedSides(c[e[1]])
                     /\ Ends(Len(x), c, f, s, e[1], e[2]) # {}}
           F == [e \in E |-> HoldOf(x, Len(x), c, f, s, e[1], e[2])]
<1>2. IsFiniteSet(E)
  <2>1. IsFiniteSet(DOMAIN x)
    BY <1>1, FS_Interval, 1 \in Int, n \in Int
  <2>2. IsFiniteSet(Sides)
    <3>1. IsFiniteSet({"long"}) /\ Sides = {"long"} \cup {"short"}
      BY FS_Singleton DEF Sides
    <3> QED BY <3>1, FS_AddElement
  <2>3. IsFiniteSet((DOMAIN x) \X Sides)
    BY <2>1, <2>2, FS_Product
  <2> QED BY <2>3, FS_Subset
<1>3. Holds(x, c, f, s) = {F[e] : e \in E}
  BY HoldsAre
<1>4. F \in Surjection(E, {F[e] : e \in E})
  BY DEF Surjection
<1>5. IsFiniteSet({F[e] : e \in E})
  <2> HIDE DEF E, F
  <2> QED BY <1>2, <1>4, FS_Surjection
<1>6. ASSUME NEW h \in Holds(x, c, f, s) PROVE h.reward \in Int
  <2>1. PICK i \in 1..Len(x), sd \in Sides :
            /\ Ends(Len(x), c, f, s, i, sd) # {} /\ h = HoldOf(x, Len(x), c, f, s, i, sd)
    <3>1. Len(x) \in Nat
      OBVIOUS
    <3> QED BY <3>1, AHold
  <2>2. Ends(n, c, f, s, i, sd) \in SUBSET Nat
    BY <1>1 DEF Ends
  <2>3. PICK e \in Ends(n, c, f, s, i, sd) : e = Min(Ends(n, c, f, s, i, sd))
    BY <1>1, <2>1, <2>2, MinFacts
  <2>4. e \in 1..n /\ i \in 1..n
    BY <1>1 DEF Ends
  <2>5. PICK a \in Nat \ {0}, b \in Nat \ {0} : a = x[i].close /\ b = x[e].close
    <3>1. x[i] \in Candle /\ x[e] \in Candle
      BY <1>1, <2>4
    <3> QED BY <3>1, CandleFacts
  <2>6. h.reward = Excursion(sd, a, b)
    BY <1>1, <2>1, <2>3, <2>5 DEF HoldOf
  <2>7. Excursion(sd, a, b) \in Int
    <3>1. (10000 * (b - a)) \div a \in Int /\ (10000 * (a - b)) \div a \in Int
      OBVIOUS
    <3> QED BY <3>1 DEF Excursion
  <2> QED BY <2>6, <2>7
<1> QED BY <1>3, <1>5, <1>6

LEMMA RewardsAre ==
    ASSUME NEW holds, IsFiniteSet(holds), \A h \in holds : h.reward \in Int, NEW g
    PROVE  /\ RewardsOf(holds, g) \in Seq(Int) /\ Len(RewardsOf(holds, g)) \in Nat
           /\ (\E h \in holds : h.regime = g) => MedianReward(holds, g) \in Int
<1>1. PICK T : T = {h \in holds : h.regime = g} /\ IsFiniteSet(T)
  BY FS_Subset
<1>2. PICK q \in Seq(T) : q = SetToSeq(T) /\ \A y \in T : \E i \in DOMAIN q : q[i] = y
  BY <1>1, ListOf
<1>3. PICK n \in Nat : n = Len(q) /\ DOMAIN q = 1..n
  BY <1>2
<1>4. RewardsOf(holds, g) = [i \in 1..n |-> q[i].reward]
  BY <1>1, <1>2, <1>3 DEF RewardsOf
<1>5. \A i \in 1..n : q[i].reward \in Int
  BY <1>1, <1>3
<1>6. PICK r : r = RewardsOf(holds, g)
  OBVIOUS
<1>7. r \in Seq(Int) /\ Len(r) = n
  BY <1>4, <1>5, <1>6
<1>8. ASSUME NEW h \in holds, h.regime = g PROVE MedianReward(holds, g) \in Int
  <2>1. n >= 1
    BY <1>1, <1>2, <1>3, <1>8
  <2> QED BY <1>6, <1>7, <2>1, QuantileIsInt, 1 \in Nat, 2 \in Nat \ {0} DEF MedianReward
<1> QED BY <1>6, <1>7, <1>8

LEMMA ViabilityIs == ASSUME NEW x \in Seq(Candle) PROVE Viability(x) \in Int \cup {None}
<1>1. PICK holds : holds = Replay(x) /\ IsFiniteSet(holds) /\ \A h \in holds : h.reward \in Int
  BY HoldsAreFinite DEF Replay
<1>2. CASE holds = {}
  BY <1>1, <1>2 DEF Viability, WeightedMedian
<1>3. CASE holds # {}
  <2> DEFINE F == [h \in holds |-> h.regime]
  <2>1. PICK G : G = {h.regime : h \in holds} /\ IsFiniteSet(G)
    <3>1. F \in Surjection(holds, {h.regime : h \in holds})
      BY DEF Surjection
    <3> HIDE DEF F
    <3> QED BY <1>1, <3>1, FS_Surjection
  <2>2. PICK seen \in Seq(G) : seen = SetToSeq(G)
    BY <2>1, ListOf
  <2>3. PICK n \in Nat : n = Len(seen) /\ DOMAIN seen = 1..n
    BY <2>2
  <2>4. \A i \in 1..n : Len(RewardsOf(holds, seen[i])) * MedianReward(holds, seen[i]) \in Int
    <3> SUFFICES ASSUME NEW i \in 1..n
                 PROVE  Len(RewardsOf(holds, seen[i])) * MedianReward(holds, seen[i]) \in Int
      OBVIOUS
    <3>1. seen[i] \in G
      BY <2>3
    <3>2. \E h \in holds : h.regime = seen[i]
      BY <2>1, <3>1
    <3>3. PICK a \in Int, b \in Int :
              a = Len(RewardsOf(holds, seen[i])) /\ b = MedianReward(holds, seen[i])
      BY <1>1, <3>2, RewardsAre
    <3> QED BY <3>3
  <2>5. PICK w : w = [i \in DOMAIN seen |-> Len(RewardsOf(holds, seen[i])) * MedianReward(holds, seen[i])]
    OBVIOUS
  <2>6. w \in Seq(Int)
    BY <2>3, <2>4, <2>5
  <2>7. PICK k \in Int : k = Total(w)
    BY <2>6, TotalIsInt
  <2>8. PICK m \in Nat \ {0} : m = Cardinality(holds)
    BY <1>1, <1>3, FS_CardinalityType, FS_EmptySet
  <2>9. k \div m \in Int
    OBVIOUS
  <2>10. Viability(x) = k \div m
    BY <1>1, <1>3, <2>1, <2>2, <2>5, <2>7, <2>8 DEF Viability, WeightedMedian
  <2> QED BY <2>9, <2>10
<1> QED BY <1>2, <1>3

-----------------------------------------------------------------------------
(* The selection. *)

\* In a strict order of finitely many, as many have less than c above them as c allows.
LEMMA Ranked ==
    ASSUME NEW V, IsFiniteSet(V), NEW above \in [V -> SUBSET V], NEW c \in Nat,
           \A i \in V : i \notin above[i],
           \A i, j \in V : i # j => i \in above[j] \/ j \in above[i],
           \A i, j \in V : j \in above[i] => above[j] \subseteq above[i]
    PROVE  LET K == {k \in V : Cardinality(above[k]) < c}
           IN  Cardinality(K) = IF c <= Cardinality(V) THEN c ELSE Cardinality(V)
<1>1. PICK n \in Nat : n = Cardinality(V)
  BY FS_CardinalityType
<1>2. \A k \in V : IsFiniteSet(above[k]) /\ Cardinality(above[k]) \in Nat
  <2> SUFFICES ASSUME NEW k \in V PROVE IsFiniteSet(above[k]) /\ Cardinality(above[k]) \in Nat
    OBVIOUS
  <2>1. above[k] \in SUBSET V
    OBVIOUS
  <2>2. IsFiniteSet(above[k])
    BY <2>1, FS_Subset
  <2> QED BY <2>2, FS_CardinalityType
<1> DEFINE r == [k \in V |-> Cardinality(above[k])]
<1>3. ASSUME NEW k \in V PROVE r[k] \in 0..(n - 1)
  <2>1. above[k] \in SUBSET (V \ {k})
    OBVIOUS
  <2>2. IsFiniteSet(V \ {k}) /\ Cardinality(V \ {k}) = n - 1
    BY <1>1, FS_RemoveElement
  <2>3. Cardinality(above[k]) <= n - 1
    BY <2>1, <2>2, FS_Subset
  <2> QED BY <1>2, <2>3
<1>4. ASSUME NEW k \in V, NEW l \in V, l \in above[k] PROVE r[l] < r[k]
  <2>1. above[l] \cup {l} \in SUBSET above[k]
    BY <1>4
  <2>2. Cardinality(above[l] \cup {l}) = Cardinality(above[l]) + 1
    BY <1>2, FS_AddElement
  <2>3. Cardinality(above[l] \cup {l}) <= Cardinality(above[k])
    BY <1>2, <2>1, FS_Subset
  <2>4. Cardinality(above[l]) \in Nat /\ Cardinality(above[k]) \in Nat
    BY <1>2
  <2> QED BY <2>2, <2>3, <2>4
<1>5. r \in Injection(V, 0..(n - 1))
  <2>1. r \in [V -> 0..(n - 1)]
    BY <1>3
  <2>2. \A k \in V : r[k] \in Int
    BY <1>3
  <2>3. ASSUME NEW k \in V, NEW l \in V, r[k] = r[l] PROVE k = l
    <3> HIDE DEF r
    <3> SUFFICES ASSUME k # l PROVE FALSE
      OBVIOUS
    <3>1. k \in above[l] \/ l \in above[k]
      OBVIOUS
    <3> QED BY <1>4, <2>2, <2>3, <3>1
  <2> HIDE DEF r
  <2> QED BY <2>1, <2>3 DEF Injection, IsInjective
<1>6. \A y \in 0..(n - 1) : \E k \in V : r[k] = y
  <2>1. IsFiniteSet(0..(n - 1)) /\ Cardinality(0..(n - 1)) = n
    <3>1. 0 \in Int /\ n - 1 \in Int
      OBVIOUS
    <3>2. IsFiniteSet(0..(n - 1))
          /\ Cardinality(0..(n - 1)) = IF 0 > n - 1 THEN 0 ELSE (n - 1) - 0 + 1
      BY <3>1, FS_Interval
    <3> QED BY <3>2
  <2> HIDE DEF r
  <2>2. r \in Surjection(V, 0..(n - 1))
    BY <1>1, <1>5, <2>1, FS_Injection
  <2> QED BY <2>2 DEF Surjection
<1>7. PICK m \in Nat : m = IF c <= n THEN c ELSE n
  OBVIOUS
<1>8. PICK K : K = {k \in V : r[k] < c}
  OBVIOUS
<1>9. PICK f : f = [k \in K |-> r[k]]
  OBVIOUS
<1> HIDE DEF r
<1>10. f \in Bijection(K, 0..(m - 1))
  <2>1. \A k \in K : k \in V /\ r[k] < c /\ r[k] \in 0..(n - 1)
    BY <1>3, <1>8
  <2>2. \A k \in K : r[k] \in 0..(m - 1)
    BY <1>7, <2>1
  <2>3. f \in [K -> 0..(m - 1)]
    BY <1>9, <2>2
  <2>4. \A k, l \in K : f[k] = f[l] => k = l
    BY <1>5, <1>9, <2>1 DEF Injection, IsInjective
  <2>5. ASSUME NEW y \in 0..(m - 1) PROVE \E k \in K : f[k] = y
    <3>1. y \in 0..(n - 1) /\ y < c
      BY <1>7
    <3>2. PICK k \in V : r[k] = y
      BY <1>6, <3>1
    <3>3. k \in K
      BY <1>8, <3>1, <3>2
    <3> QED BY <1>9, <3>2, <3>3
  <2>6. f \in Injection(K, 0..(m - 1))
    BY <2>3, <2>4 DEF Injection, IsInjective
  <2>7. f \in Surjection(K, 0..(m - 1))
    BY <2>3, <2>5 DEF Surjection
  <2> QED BY <2>6, <2>7 DEF Bijection
<1>11. Cardinality(K) = m
  <2>1. K \in SUBSET V
    BY <1>8
  <2>2. IsFiniteSet(K)
    BY <2>1, FS_Subset
  <2>3. Cardinality(0..(m - 1)) = Cardinality(K)
    BY <1>10, <2>2, FS_Bijection DEF ExistsBijection
  <2>4. Cardinality(0..(m - 1)) = m
    <3>1. 0 \in Int /\ m - 1 \in Int
      OBVIOUS
    <3>2. Cardinality(0..(m - 1)) = IF 0 > m - 1 THEN 0 ELSE (m - 1) - 0 + 1
      BY <3>1, FS_Interval
    <3> QED BY <3>2
  <2> QED BY <2>3, <2>4
<1>12. K = {k \in V : Cardinality(above[k]) < c}
  BY <1>8 DEF r
<1> QED BY <1>1, <1>7, <1>11, <1>12

\* As many members of a list without repetition as places.
LEMMA AsManyAsPlaces ==
    ASSUME NEW names, NEW P \in SUBSET (DOMAIN names), IsFiniteSet(P),
           \A i, j \in DOMAIN names : names[i] = names[j] => i = j
    PROVE  /\ Cardinality({names[i] : i \in P}) = Cardinality(P)
           /\ IsFiniteSet({names[i] : i \in P})
<1>1. PICK T : T = {names[i] : i \in P}
  OBVIOUS
<1>2. PICK f : f = [i \in P |-> names[i]]
  OBVIOUS
<1>3. f \in Injection(P, T)
  BY <1>1, <1>2 DEF Injection, IsInjective
<1>4. f \in Surjection(P, T)
  BY <1>1, <1>2 DEF Surjection
<1>5. ExistsBijection(P, T)
  BY <1>3, <1>4 DEF Bijection, ExistsBijection
<1> QED BY <1>1, <1>5, FS_Bijection

LEMMA TargetsOnce == \A i, j \in DOMAIN Targets : Targets[i] = Targets[j] => i = j
<1>1. PICK f \in Seq(Pairs) : f = SetToSeq(Pairs) /\ \A i, j \in DOMAIN f : f[i] = f[j] => i = j
  BY RoundsAssumption, ListOf
<1>2. PICK n \in Nat : n = Len(f) /\ DOMAIN f = 1..n
  OBVIOUS
<1>3. CASE Anchor \in Pairs
  <2>1. Targets = f \o <<>> /\ f \o <<>> = f
    BY <1>1, <1>3 DEF Targets
  <2> QED BY <1>1, <2>1
<1>4. CASE Anchor \notin Pairs
  <2>1. Targets = f \o <<Anchor>>
    BY <1>1, <1>4 DEF Targets
  <2>2. f \in Seq(Symbols) /\ <<Anchor>> \in Seq(Symbols) /\ \A i \in 1..n : f[i] # Anchor
    BY <1>2, <1>4 DEF Symbols
  <2>3. PICK t : t = Targets /\ DOMAIN t = 1..(n + 1) /\ t[n + 1] = Anchor /\ \A i \in 1..n : t[i] = f[i]
    BY <1>2, <2>1, <2>2
  <2>4. \A i \in 1..(n + 1) : i \in 1..n \/ i = n + 1
    OBVIOUS
  <2> QED BY <1>1, <1>2, <2>2, <2>3, <2>4
<1> QED BY <1>3, <1>4

ViableAt(v) == {i \in DOMAIN Targets : v[Targets[i]] # None /\ v[Targets[i]] > 0}
AboveAt(v, i) == {j \in ViableAt(v) : \/ v[Targets[j]] > v[Targets[i]]
                                      \/ v[Targets[j]] = v[Targets[i]] /\ j > i}

LEMMA SelectViableIs ==
    ASSUME NEW v, NEW capacity
    PROVE  SelectViable(v, Targets, capacity, {}) =
               {Targets[i] : i \in {k \in ViableAt(v) :
                                        capacity <= 0 \/ Cardinality(AboveAt(v, k)) < capacity}}
BY DEF SelectViable, ViableAt, AboveAt, Outranks

LEMMA SelectsBest ==
    ASSUME NEW v \in [Symbols -> Int \cup {None}] PROVE SelectsTheBest(v)
<1>1. PICK t \in Seq(Symbols) : t = Targets /\ (\A i, j \in DOMAIN t : t[i] = t[j] => i = j)
                                /\ Range(t) = Symbols
  BY TheTargets, TargetsOnce
<1>2. PICK n \in Nat : DOMAIN t = 1..n
  OBVIOUS
<1>3. PICK V : V = ViableAt(v)
  OBVIOUS
<1>4. \A i \in V : v[t[i]] \in Int /\ v[t[i]] > 0 /\ v[t[i]] # None /\ i \in 1..n /\ t[i] \in Symbols
  <2> SUFFICES ASSUME NEW i \in V
               PROVE  v[t[i]] \in Int /\ v[t[i]] > 0 /\ v[t[i]] # None /\ i \in 1..n /\ t[i] \in Symbols
    OBVIOUS
  <2>1. i \in 1..n /\ v[t[i]] # None /\ v[t[i]] > 0
    BY <1>1, <1>2, <1>3 DEF ViableAt
  <2>2. t[i] \in Symbols
    BY <1>2, <2>1
  <2> QED BY <2>1, <2>2
<1>5. PICK above : above = [i \in V |-> AboveAt(v, i)]
  OBVIOUS
<1>6. \A i \in V : above[i] = {j \in V : v[t[j]] > v[t[i]] \/ (v[t[j]] = v[t[i]] /\ j > i)}
  BY <1>1, <1>3, <1>5 DEF AboveAt
<1>7. above \in [V -> SUBSET V]
  BY <1>3, <1>5 DEF AboveAt
<1>8. \A i \in V : i \notin above[i]
  BY <1>4, <1>6
<1>9. \A i, j \in V : i # j => i \in above[j] \/ j \in above[i]
  BY <1>4, <1>6
<1>10. \A i, j \in V : j \in above[i] => above[j] \subseteq above[i]
  BY <1>4, <1>6
<1>11. IsFiniteSet(V)
  <2>1. IsFiniteSet(1..n)
    BY FS_Interval, 1 \in Int, n \in Int
  <2>2. V \in SUBSET (1..n)
    BY <1>4
  <2> QED BY <2>1, <2>2, FS_Subset
<1>12. PICK viable : viable = {s \in Symbols : v[s] # None /\ v[s] > 0}
  OBVIOUS
<1>13. viable = {t[i] : i \in V}
  <2>1. \A i \in V : t[i] \in viable
    BY <1>4, <1>12
  <2>2. ASSUME NEW s \in viable PROVE \E i \in V : t[i] = s
    <3>1. PICK i \in DOMAIN t : t[i] = s
      BY <1>1, <1>12 DEF Range
    <3>2. i \in V
      BY <1>1, <1>3, <1>12, <3>1 DEF ViableAt
    <3> QED BY <3>1, <3>2
  <2> QED BY <2>1, <2>2
<1>14. Cardinality(viable) = Cardinality(V) /\ Cardinality(V) \in Nat
  <2>1. V \in SUBSET (DOMAIN t)
    BY <1>2, <1>4
  <2> QED BY <1>1, <1>11, <1>13, <2>1, AsManyAsPlaces, FS_CardinalityType
<1>15. ASSUME NEW capacity \in 0..2
       PROVE  LET chosen == SelectViable(v, Targets, capacity, {})
              IN  /\ chosen \subseteq viable
                  /\ \A s \in chosen, u \in viable \ chosen : v[s] >= v[u]
                  /\ Cardinality(chosen) =
                         IF capacity = 0 THEN Cardinality(viable)
                         ELSE Min({capacity, Cardinality(viable)})
  <2>1. PICK K : K = {k \in V : capacity <= 0 \/ Cardinality(above[k]) < capacity}
    OBVIOUS
  <2>2. PICK chosen : chosen = SelectViable(v, Targets, capacity, {}) /\ chosen = {t[i] : i \in K}
    BY <1>1, <1>3, <1>5, <2>1, SelectViableIs
  <2>3. chosen \subseteq viable
    BY <1>13, <2>1, <2>2
  <2>4. ASSUME NEW s \in chosen, NEW u \in viable \ chosen PROVE v[s] >= v[u]
    <3>1. PICK i \in K, j \in V \ K : s = t[i] /\ u = t[j]
      BY <1>13, <2>2
    <3>2. i \in V /\ v[s] \in Int /\ v[u] \in Int
      BY <1>4, <2>1, <3>1
    <3> SUFFICES ASSUME v[u] > v[s] PROVE FALSE
      BY <3>2
    <3>3. j \in above[i]
      BY <1>6, <3>1, <3>2
    <3>4. above[j] \subseteq above[i]
      BY <1>10, <3>2, <3>3
    <3>5. above[i] \in SUBSET V /\ above[j] \in SUBSET V
      BY <1>7, <3>2
    <3>6. IsFiniteSet(above[i]) /\ IsFiniteSet(above[j])
      BY <1>11, <3>5, FS_Subset
    <3>7. /\ Cardinality(above[j]) <= Cardinality(above[i])
          /\ Cardinality(above[j]) \in Nat /\ Cardinality(above[i]) \in Nat
      BY <3>4, <3>6, FS_Subset, FS_CardinalityType
    <3>8. (capacity <= 0 \/ Cardinality(above[i]) < capacity)
          /\ ~(capacity <= 0 \/ Cardinality(above[j]) < capacity)
      BY <2>1, <3>1
    <3> QED BY <3>7, <3>8
  <2>5. Cardinality(chosen) = Cardinality(K)
    <3>1. K \in SUBSET V /\ K \in SUBSET (DOMAIN t)
      BY <1>2, <1>4, <2>1
    <3>2. IsFiniteSet(K)
      BY <1>11, <3>1, FS_Subset
    <3> QED BY <1>1, <2>2, <3>1, <3>2, AsManyAsPlaces
  <2>6. Cardinality(chosen) = IF capacity = 0 THEN Cardinality(viable)
                              ELSE Min({capacity, Cardinality(viable)})
    <3>1. CASE capacity = 0
      <4>1. K = V
        BY <2>1, <3>1
      <4> QED BY <1>14, <2>5, <3>1, <4>1
    <3>2. CASE capacity # 0
      <4>1. K = {k \in V : Cardinality(above[k]) < capacity} /\ capacity \in Nat
        BY <2>1, <3>2
      <4>2. Cardinality(K) = IF capacity <= Cardinality(V) THEN capacity ELSE Cardinality(V)
        BY <1>7, <1>8, <1>9, <1>10, <1>11, <4>1, Ranked
      <4>3. PICK m \in Nat : m = Cardinality(V)
        BY <1>14
      <4>4. Min({capacity, m}) = IF capacity <= m THEN capacity ELSE m
        <5>1. {capacity, m} \in SUBSET Nat
          BY <4>1
        <5>2. CASE capacity <= m
          <6>1. capacity \in {capacity, m} /\ \A y \in {capacity, m} : capacity <= y
            BY <5>2
          <6> QED BY <5>1, <5>2, <6>1, MinFacts
        <5>3. CASE ~(capacity <= m)
          <6>1. m \in {capacity, m} /\ \A y \in {capacity, m} : m <= y
            BY <5>3
          <6> QED BY <5>1, <5>3, <6>1, MinFacts
        <5> QED BY <5>2, <5>3
      <4> QED BY <1>14, <2>5, <3>2, <4>2, <4>3, <4>4
    <3> QED BY <3>1, <3>2
  <2> QED BY <2>2, <2>3, <2>4, <2>6
<1> QED BY <1>12, <1>15 DEF SelectsTheBest

LEMMA SelectionBest == RegimesInv => SelectionIsBest
<1> SUFFICES ASSUME RegimesInv PROVE SelectionIsBest
  OBVIOUS
<1>1. PICK v : v = [s \in Symbols |-> IF served[s] = <<>> THEN None ELSE Viability(Last(served[s]))]
  OBVIOUS
<1>2. ASSUME NEW s \in Symbols PROVE v[s] \in Int \cup {None}
  <2>1. CASE served[s] = <<>>
    BY <1>1, <2>1
  <2>2. CASE served[s] # <<>>
    <3>1. served[s] \in Seq(DailySeries)
      BY DEF RegimesInv
    <3>2. Last(served[s]) \in DailySeries
      BY <2>2, <3>1 DEF Last
    <3>3. Last(served[s]) \in Seq(Candle)
      BY <3>2, CandlesAssumption
    <3> QED BY <1>1, <2>2, <3>3, ViabilityIs
  <2> QED BY <2>1, <2>2
<1>3. v \in [Symbols -> Int \cup {None}]
  BY <1>1, <1>2
<1>4. SelectsTheBest(v)
  BY <1>3, SelectsBest
<1> QED BY <1>1, <1>4 DEF SelectionIsBest

\* What is known of a symbol, and chosen by it, is of its own newest history and of nothing
\* later: each symbol keeps the regime of its newest good answer whatever other requests
\* did, and the newest reward of each regime; the replay of a history is not changed by
\* what comes after it; no regime admits a side that it would close at once; and the
\* selection is the best by viability, as many as there is capacity for (compute.py,
\* expected_reward.py, viability.py, taxonomy.py against exit_detectors.py).
THEOREM WhatIsKnown == MarketSpec => []RegimesAreKnown
<1>1. MarketInit => CandlesInv /\ RegimesInv /\ RewardInv
  BY CandlesInit, RegimesInit, RewardInit
<1>2. (CandlesInv /\ RegimesInv /\ RewardInv) /\ [MarketNext]_marketVars
          => (CandlesInv /\ RegimesInv /\ RewardInv)'
  BY CandlesStep, RegimesStep, RewardStep
<1>3. CandlesInv /\ RegimesInv /\ RewardInv => RegimesAreKnown
  BY NewestCached, RewardsKnown, ReplayLooksBack, MayStay, SelectionBest DEF RegimesAreKnown
<1> QED BY <1>1, <1>2, <1>3, PTL DEF MarketSpec
=============================================================================
