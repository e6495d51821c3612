--------------------------- MODULE Transport_proofs ---------------------------
(***************************************************************************)
(* The two ways the bot talks to Kraken, and what it makes of both.        *)
(*                                                                         *)
(* The WebSocket connections (Connections), for every universe, number of  *)
(* shards, set of deployments, timer, bucket and rate counter: what a loop *)
(* takes for true it learnt on the socket it reads.                        *)
(*                                                                         *)
(* The REST client (RestClient, StartUp), for every interval, penalty,     *)
(* latency and lateness, and for any number of callers: the pacing of the  *)
(* calls, of the client itself and of the cold start that drives it.       *)
(*                                                                         *)
(* The equity of the short wallet (EquityReconcile), which compares what   *)
(* one of these calls says with what the private feed has told: for every  *)
(* rollover, estimate of it, price and number of polls.                    *)
(***************************************************************************)
EXTENDS Connections, StartUp, EquityReconcile, Series_proofs

-----------------------------------------------------------------------------
(* The plan: which pairs are on which connection and what it asks for. *)

\* There are as many connections as it takes, and never more than there are pairs.
LEMMA ConnectionCount ==
    /\ Len(Universe) \in Nat \ {0} /\ DOMAIN Universe = 1 .. Len(Universe)
    /\ NConns \in Nat \ {0} /\ NConns <= Len(Universe)
<1>1. Len(Universe) \in Nat \ {0} /\ DOMAIN Universe = 1 .. Len(Universe)
  BY PlanAssumption
<1>2. ASSUME NEW L \in Nat \ {0}, NEW S \in Nat \ {0}
      PROVE  (L + S - 1) \div S \in Nat /\ (L + S - 1) \div S <= L
  <2>1. (L - 1) * (S - 1) >= 0
    OBVIOUS
  <2>2. L + S - 1 <= L * S
    BY <2>1
  <2> DEFINE q == (L + S - 1) \div S
             r == (L + S - 1) % S
  <2>3. q \in Int /\ r \in 0 .. S - 1 /\ L + S - 1 = S * q + r
    OBVIOUS
  <2> HIDE DEF q, r
  <2>4. S * q <= S * L
    BY <2>2, <2>3
  <2>5. q <= L
    BY <2>3, <2>4
  <2>6. q >= 0
    <3> SUFFICES ASSUME q <= -1 PROVE FALSE
      BY <2>3
    <3>1. S * q <= -S
      BY <2>3
    <3> QED BY <2>3, <3>1
  <2> QED BY <2>3, <2>5, <2>6 DEF q
<1>3. SYMBOLS_PER_CONN \in Nat \ {0}
  BY PlanAssumption
<1> QED BY <1>1, <1>2, <1>3 DEF NConns

\* The connections are numbered from 0, and the private one is not among them.
LEMMA ShardsAreNumbers ==
    /\ Shards = 0 .. NConns - 1 /\ Private \notin Shards
    /\ \A k \in Shards : k \in Nat /\ k < NConns
BY ConnectionCount, ConnectionsAssumption DEF Shards

\* A position of a bucket is one of the universe that belongs to the shard.
LEMMA BucketPosition ==
    ASSUME NEW n \in Nat \ {0}, NEW L \in Nat, n <= L, NEW k \in 0 .. n - 1
    PROVE  /\ ((L - 1 - k) \div n) + 1 \in Nat \ {0}
           /\ \A i \in 1 .. ((L - 1 - k) \div n) + 1 :
                  /\ n * (i - 1) + k + 1 \in 1 .. L
                  /\ (n * (i - 1) + k) % n = k
<1> DEFINE q == (L - 1 - k) \div n
           r == (L - 1 - k) % n
<1>1. q \in Int /\ r \in 0 .. n - 1 /\ L - 1 - k = n * q + r
  OBVIOUS
<1> HIDE DEF q, r
<1>2. q >= 0
  <2> SUFFICES ASSUME q <= -1 PROVE FALSE
    BY <1>1
  <2>1. n * q <= -n
    BY <1>1
  <2> QED BY <1>1, <2>1
<1>3. ASSUME NEW i \in 1 .. q + 1
      PROVE  n * (i - 1) + k + 1 \in 1 .. L /\ (n * (i - 1) + k) % n = k
  <2>1. i - 1 \in Nat /\ i - 1 <= q
    BY <1>1, <1>2
  <2>2. n * (i - 1) >= 0 /\ n * (i - 1) <= n * q /\ n * (i - 1) \in Int
    BY <1>1, <2>1
  <2>3. n * (i - 1) + k + 1 \in 1 .. L
    BY <1>1, <2>2
  <2>4. (n * (i - 1) + k) % n = k
    <3>1. \A j \in Nat : (n * j + k) % n = k
      OBVIOUS
    <3> QED BY <2>1, <3>1
  <2> QED BY <2>3, <2>4
<1> QED BY <1>1, <1>2, <1>3 DEF q

\* A bucket holds pairs of its shard.
LEMMA BucketsHold ==
    ASSUME NEW k \in Shards
    PROVE  /\ BucketSize(k) \in Nat \ {0}
           /\ \A i \in 1 .. BucketSize(k) : Bucket(k)[i] \in PairsOf[k]
<1> DEFINE L == Len(Universe)
           n == NConns
<1>1. n \in Nat \ {0} /\ L \in Nat /\ n <= L /\ k \in 0 .. n - 1 /\ DOMAIN Universe = 1 .. L
  BY ConnectionCount, ShardsAreNumbers
<1>2. BucketSize(k) = ((L - 1 - k) \div n) + 1
  BY DEF BucketSize
<1> HIDE DEF L, n
<1>3. /\ BucketSize(k) \in Nat \ {0}
      /\ \A i \in 1 .. BucketSize(k) :
             n * (i - 1) + k + 1 \in 1 .. L /\ (n * (i - 1) + k) % n = k
  BY <1>1, <1>2, BucketPosition
<1>4. ASSUME NEW i \in 1 .. BucketSize(k)
      PROVE  Bucket(k)[i] \in PairsOf[k]
  <2> DEFINE j == n * (i - 1) + k + 1
  <2>1. j \in 1 .. L /\ (j - 1) % n = k
    <3>1. j \in 1 .. L /\ j - 1 = n * (i - 1) + k
      BY <1>1, <1>3
    <3> QED BY <1>3, <3>1
  <2>2. Bucket(k)[i] = Universe[j]
    BY DEF Bucket, n
  <2> HIDE DEF j
  <2>3. j \in {x \in DOMAIN Universe : ShardIndexFor(x - 1) = k}
    BY <1>1, <2>1 DEF ShardIndexFor, n
  <2> QED BY <2>2, <2>3 DEF PairsOf
<1> QED BY <1>3, <1>4

\* No pair is on two connections.
LEMMA PairsAreApart ==
    ASSUME NEW c \in Shards, NEW d \in Shards, NEW p \in PairsOf[c], p \in PairsOf[d]
    PROVE  c = d
<1>1. PICK i \in DOMAIN Universe : p = Universe[i] /\ ShardIndexFor(i - 1) = c
  BY DEF PairsOf
<1>2. PICK j \in DOMAIN Universe : p = Universe[j] /\ ShardIndexFor(j - 1) = d
  BY DEF PairsOf
<1> QED BY <1>1, <1>2, PlanAssumption

\* Every pair is on a connection (HR-WM-031).
LEMMA PairsAreSomewhere ==
    ASSUME NEW p \in Pairs
    PROVE  \E c \in Shards : p \in PairsOf[c]
<1>1. PICK i \in DOMAIN Universe : p = Universe[i]
  BY DEF Pairs
<1>2. NConns \in Nat \ {0} /\ i \in Nat \ {0}
  BY ConnectionCount
<1>3. \A x \in Nat, n \in Nat \ {0} : x % n \in 0 .. n - 1
  OBVIOUS
<1>4. ShardIndexFor(i - 1) \in Shards
  <2>1. i - 1 \in Nat
    BY <1>2
  <2>2. (i - 1) % NConns \in 0 .. NConns - 1
    BY <1>2, <1>3, <2>1
  <2> QED BY <2>2, ShardsAreNumbers DEF ShardIndexFor
<1> QED BY <1>1, <1>4 DEF PairsOf

\* What a connection asks for: at least one channel; a shard for its own pairs.
RequestFacts(c) ==
    /\ Len(RequestsOf(c)) \in Nat \ {0}
    /\ \A r \in 1 .. Len(RequestsOf(c)) :
           /\ RequestsOf(c)[r].symbol \in Pairs \cup {"none"}
           /\ c # Private =>
                 /\ RequestsOf(c)[r].channel \in {"instrument", "ohlc_5m", "ticker"}
                 /\ RequestsOf(c)[r].channel # "instrument" =>
                       RequestsOf(c)[r].symbol \in PairsOn(c)
           /\ c = Private =>
                 RequestsOf(c)[r].channel = IF r = 1 THEN "executions" ELSE "balances"

\* The private connection asks for the executions, then for the balances.
LEMMA PrivateRequestFacts == RequestFacts(Private)
<1>1. RequestsOf(Private) = PrivateRequests
  BY DEF RequestsOf
<1>2. Len(PrivateRequests) = 2
  BY DEF PrivateRequests
<1>3. /\ PrivateRequests[1] = [channel |-> "executions", symbol |-> "none"]
      /\ PrivateRequests[2] = [channel |-> "balances", symbol |-> "none"]
  BY DEF PrivateRequests
<1>4. \A r \in 1 .. 2 : r = 1 \/ r = 2
  OBVIOUS
<1>5. ASSUME NEW r \in 1 .. 2
      PROVE  /\ PrivateRequests[r].symbol \in Pairs \cup {"none"}
             /\ PrivateRequests[r].channel = IF r = 1 THEN "executions" ELSE "balances"
  <2>1. CASE r = 1
    BY <1>3, <2>1
  <2>2. CASE r = 2
    BY <1>3, <2>2
  <2> QED BY <1>4, <2>1, <2>2
<1> QED BY <1>1, <1>2, <1>5 DEF RequestFacts

\* A function over an interval is a sequence.
LEMMA IntervalIsSeq ==
    ASSUME NEW R, NEW n \in Nat, NEW f \in [1 .. n -> R]
    PROVE  f \in Seq(R) /\ Len(f) = n
OBVIOUS

\* Two sequences, one after the other.
LEMMA Joined ==
    ASSUME NEW R, NEW s \in Seq(R), NEW t \in Seq(R)
    PROVE  /\ Len(s \o t) = Len(s) + Len(t) /\ Len(s) \in Nat /\ Len(t) \in Nat
           /\ \A i \in 1 .. Len(s) + Len(t) :
                  (s \o t)[i] = IF i <= Len(s) THEN s[i] ELSE t[i - Len(s)]
OBVIOUS

\* A shard asks for the instruments if it is the first, then for its pairs, two channels each.
LEMMA ShardRequestFacts == ASSUME NEW c \in Shards PROVE RequestFacts(c)
<1> DEFINE n == 2 * BucketSize(c)
           g == [i \in DOMAIN GlobalChannels(c) |->
                    [channel |-> GlobalChannels(c)[i], symbol |-> "none"]]
           ch(i) == PerPairChannels[((i - 1) % 2) + 1]
           sy(i) == Bucket(c)[((i - 1) \div 2) + 1]
           b == [i \in 1 .. n |-> [channel |-> ch(i), symbol |-> sy(i)]]
           R == [channel : {"instrument", "ohlc_5m", "ticker"}, symbol : Pairs \cup {"none"}]
<1>1. c # Private /\ RequestsOf(c) = g \o b /\ PairsOn(c) = PairsOf[c]
  BY ShardsAreNumbers DEF RequestsOf, SubscribeRequests, PairsOn
<1>2. n \in Nat \ {0}
  BY BucketsHold
<1>3. PairsOf[c] \subseteq Pairs
  BY DEF PairsOf, Pairs
<1>4. g \in Seq(R) /\ Len(g) \in Nat
      /\ \A i \in 1 .. Len(g) : g[i] = [channel |-> "instrument", symbol |-> "none"]
  <2>1. CASE c = 0
    <3>1. GlobalChannels(c) = <<"instrument">>
      BY <2>1 DEF GlobalChannels
    <3>2. DOMAIN GlobalChannels(c) = 1 .. 1 /\ GlobalChannels(c)[1] = "instrument"
      BY <3>1
    <3>3. g = [i \in 1 .. 1 |-> [channel |-> "instrument", symbol |-> "none"]]
      BY <3>2
    <3>4. [channel |-> "instrument", symbol |-> "none"] \in R
      OBVIOUS
    <3> HIDE DEF g, R
    <3>5. g \in [1 .. 1 -> R]
      BY <3>3, <3>4
    <3>6. g \in Seq(R) /\ Len(g) = 1
      BY <3>5, IntervalIsSeq
    <3> QED BY <3>3, <3>6
  <2>2. CASE c # 0
    <3>1. GlobalChannels(c) = <<>>
      BY <2>2 DEF GlobalChannels
    <3>2. g = <<>>
      BY <3>1
    <3> HIDE DEF g
    <3> QED BY <3>2
  <2> QED BY <2>1, <2>2
<1>5. /\ b \in Seq(R) /\ Len(b) = n
      /\ \A i \in 1 .. n : b[i].channel \in {"ohlc_5m", "ticker"} /\ b[i].symbol \in PairsOf[c]
  <2>1. ASSUME NEW i \in 1 .. n
        PROVE  ch(i) \in {"ohlc_5m", "ticker"} /\ sy(i) \in PairsOf[c]
    <3>1. ((i - 1) % 2) + 1 \in {1, 2} /\ ((i - 1) \div 2) + 1 \in 1 .. BucketSize(c)
      <4>1. BucketSize(c) \in Nat
        BY BucketsHold
      <4> QED BY <4>1
    <3>2. PerPairChannels[1] = "ohlc_5m" /\ PerPairChannels[2] = "ticker"
      BY DEF PerPairChannels
    <3>3. sy(i) \in PairsOf[c]
      BY <3>1, BucketsHold
    <3>4. ch(i) \in {"ohlc_5m", "ticker"}
      BY <3>1, <3>2
    <3> QED BY <3>3, <3>4
  <2> HIDE DEF ch, sy, n
  <2>2. ASSUME NEW i \in 1 .. n
        PROVE  [channel |-> ch(i), symbol |-> sy(i)] \in R
    BY <1>3, <2>1
  <2>3. b \in [1 .. n -> R]
    <3> HIDE DEF R
    <3> QED BY <2>2
  <2>4. b \in Seq(R) /\ Len(b) = n
    <3> HIDE DEF R, b
    <3> QED BY <1>2, <2>3, IntervalIsSeq
  <2> QED BY <2>1, <2>4
<1> HIDE DEF g, b, n, R, ch, sy
<1>6. /\ Len(g \o b) = Len(g) + n
      /\ \A i \in 1 .. Len(g) + n : (g \o b)[i] = IF i <= Len(g) THEN g[i] ELSE b[i - Len(g)]
  <2>1. Len(b) = n
    BY <1>5
  <2>2. /\ Len(g \o b) = Len(g) + Len(b)
        /\ \A i \in 1 .. Len(g) + Len(b) :
               (g \o b)[i] = IF i <= Len(g) THEN g[i] ELSE b[i - Len(g)]
    BY <1>4, <1>5, Joined
  <2> QED BY <2>1, <2>2
<1> DEFINE Fits(r) ==
      /\ r.symbol \in Pairs \cup {"none"}
      /\ r.channel \in {"instrument", "ohlc_5m", "ticker"}
      /\ r.channel # "instrument" => r.symbol \in PairsOf[c]
<1>7. ASSUME NEW i \in 1 .. Len(g) + n
      PROVE  Fits((g \o b)[i])
  <2>1. CASE i <= Len(g)
    <3>1. i \in 1 .. Len(g) /\ (g \o b)[i] = g[i]
      BY <1>2, <1>4, <1>6, <2>1
    <3>2. g[i] = [channel |-> "instrument", symbol |-> "none"]
      BY <1>4, <3>1
    <3>3. Fits(g[i])
      BY <3>2
    <3> HIDE DEF Fits
    <3> QED BY <3>1, <3>3
  <2>2. CASE i > Len(g)
    <3>1. i - Len(g) \in 1 .. n /\ (g \o b)[i] = b[i - Len(g)]
      BY <1>2, <1>4, <1>6, <2>2
    <3>2. Fits(b[i - Len(g)])
      BY <1>3, <1>5, <3>1
    <3> HIDE DEF Fits
    <3> QED BY <3>1, <3>2
  <2>3. i <= Len(g) \/ i > Len(g)
    BY <1>2, <1>4
  <2> QED BY <2>1, <2>2, <2>3
<1> QED BY <1>1, <1>2, <1>4, <1>6, <1>7 DEF RequestFacts

\* Both together.
LEMMA Requests == ASSUME NEW c \in Conns PROVE RequestFacts(c)
BY PrivateRequestFacts, ShardRequestFacts DEF Conns

-----------------------------------------------------------------------------
(* The invariant of the connections. *)

ResubscribeStep(c) == IF c = Private THEN 3 ELSE 2

\* Where the task of a connection may be.
ControlInv(c) ==
    /\ c \notin active => phase[c] = "unopened"
    /\ stage = "build" =>
           /\ phase[c] \in {"unopened", "opened", "subscribing", "ready"}
           /\ inProgress[c] = Nothing
    /\ stage = "run" /\ c \in active =>
           /\ phase[c] \in {"subscribing", "receiving", "sleeping", "restoring"}
           /\ inProgress[c] # Nothing <=> phase[c] # "receiving"
    /\ phase[c] = "restoring" => at[c] \in 1 .. Len(SequenceOf(c))
    /\ phase[c] = "subscribing" /\ stage = "run" => at[c] = ResubscribeStep(c)

Restored(c) == phase[c] = "restoring" /\ at[c] > ResubscribeStep(c)

\* The subscribes that went out on the socket of a connection.
SentInv(c) ==
    /\ line[c].sent <= Len(RequestsOf(c))
    /\ line[c].acked <= line[c].sent
    /\ line[c].accepted \subseteq 1 .. line[c].acked
    /\ phase[c] \in {"ready", "receiving"} \/ Restored(c) => line[c].sent = Len(RequestsOf(c))
    /\ phase[c] = "opened" \/ (phase[c] = "restoring" /\ at[c] = ResubscribeStep(c)) =>
           line[c].sent = 0
    /\ phase[c] = "subscribing" => todo[c] > 0 /\ line[c].sent + todo[c] = Len(RequestsOf(c))
    /\ phase[c] \in {"ready", "subscribing"} \/ Restored(c) => line[c].acked = 0

\* What was heard on it.
HeardInv(c) ==
    /\ maintenance[c] => phase[c] = "receiving" /\ line[c].told
    /\ \A p \in PairsOn(c) :
           /\ phase[c] \in {"unopened", "opened", "subscribing", "ready"} \/ Restored(c) =>
                  silent[p].state # "data_ready"
           /\ phase[c] = "receiving" /\ silent[p].state = "data_ready" => p \in line[c].heard

\* The private feed.
Forgotten == counter.value = Nothing /\ ~counter.suppressed
\* The watermark is the one an open socket found, until its stream passes it.
WatermarkOn(l) ==
    IF l.found = Nothing THEN IF l.seq = 0 THEN Nothing ELSE l.seq
    ELSE IF l.seq > l.found THEN l.seq ELSE l.found
FeedInv ==
    /\ lastSeq # Nothing => lastSeq >= line[Private].seq
    /\ GapsAreReported
    /\ line[Private].state # "closed" => lastSeq = WatermarkOn(line[Private])
    /\ stage = "build" \/ (phase[Private] = "restoring" /\ at[Private] > 4) =>
           balances = Nothing /\ Forgotten
    /\ phase[Private] = "receiving" =>
           /\ balances # Nothing => line[Private].snapshot
           /\ 1 \notin line[Private].accepted => Forgotten
           /\ counter.ceiling # Nothing =>
                 /\ counter.suppressed =>
                        counter.value # Nothing /\ Above(counter.value, counter.ceiling, WarningPct)
                 /\ counter.value # Nothing /\ Above(counter.value, counter.ceiling, CriticalPct) =>
                        counter.suppressed


ConnInv(c) == ControlInv(c) /\ SentInv(c) /\ HeardInv(c)
SocketsInv == TypeOK /\ (\A c \in Conns : ConnInv(c)) /\ FeedInv

\* The restore sequences of the two sides.
LEMMA SequenceFacts ==
    ASSUME NEW c \in Conns
    PROVE  /\ c = Private =>
                 /\ Len(SequenceOf(c)) = 6 /\ ResubscribeStep(c) = 3
                 /\ SequenceOf(c)[1] = "ACQUIRE_WS_TOKEN"
                 /\ SequenceOf(c)[2] = "RECONNECT_SOCKET"
                 /\ SequenceOf(c)[3] = "RESUBSCRIBE_PRIVATE"
                 /\ SequenceOf(c)[4] = "RESET_RATE_CEILING"
                 /\ SequenceOf(c)[5] = "RESUME_KEEPALIVE"
                 /\ SequenceOf(c)[6] = "RESTORE_POSITION_MIRROR"
           /\ c # Private =>
                 /\ Len(SequenceOf(c)) = 4 /\ ResubscribeStep(c) = 2
                 /\ SequenceOf(c)[1] = "RECONNECT_SOCKET"
                 /\ SequenceOf(c)[2] = "RESUBSCRIBE_PUBLIC"
                 /\ SequenceOf(c)[3] = "RESUME_KEEPALIVE"
                 /\ SequenceOf(c)[4] = "RESTORE_TICKER_TRIGGER"
<1>1. CASE c = Private
  BY <1>1 DEF SequenceOf, ResubscribeStep, PrivateRestoreSequence
<1>2. CASE c # Private
  BY <1>2 DEF SequenceOf, ResubscribeStep, PublicRestoreSequence
<1> QED BY <1>1, <1>2

\* Where in its sequence a step is.
LEMMA StepIsAt ==
    ASSUME NEW c \in Conns, NEW step, ControlInv(c), Restoring(c, step)
    PROVE  /\ phase[c] = "restoring" /\ stage = "run"
           /\ at[c] \in 1 .. Len(SequenceOf(c)) /\ at[c] \in Nat
           /\ step = "ACQUIRE_WS_TOKEN" => at[c] + 1 < ResubscribeStep(c)
           /\ step = "RECONNECT_SOCKET" => at[c] + 1 = ResubscribeStep(c)
           /\ step \in {"RESUBSCRIBE_PUBLIC", "RESUBSCRIBE_PRIVATE"} =>
                  at[c] = ResubscribeStep(c)
           /\ step = "RESET_RATE_CEILING" => c = Private /\ at[c] = 4
           /\ step \in {"RESUME_KEEPALIVE", "RESTORE_POSITION_MIRROR",
                        "RESTORE_TICKER_TRIGGER"} =>
                  at[c] > ResubscribeStep(c) /\ (c = Private => at[c] > 4)
<1>1. phase[c] = "restoring" /\ stage = "run" /\ step = SequenceOf(c)[at[c]]
  BY DEF Restoring, Step
<1>2. at[c] \in 1 .. Len(SequenceOf(c))
  BY <1>1 DEF ControlInv
<1>3. CASE c = Private
  <2>1. at[c] \in 1 .. 6
    BY <1>2, <1>3, SequenceFacts
  <2>2. at[c] \in {1, 2, 3, 4, 5, 6}
    BY <2>1
  <2> QED BY <1>1, <1>3, <2>2, SequenceFacts
<1>4. CASE c # Private
  <2>1. at[c] \in 1 .. 4
    BY <1>2, <1>4, SequenceFacts
  <2>2. at[c] \in {1, 2, 3, 4}
    BY <2>1
  <2> QED BY <1>1, <1>4, <2>2, SequenceFacts
<1> QED BY <1>3, <1>4

-----------------------------------------------------------------------------
(* What leaves a connection as it was. *)

\* Nothing a connection's invariant speaks of has changed, but that the run may have ended.
Alike(d) ==
    /\ active' = active /\ stage' \in {stage, "ended"}
    /\ phase'[d] = phase[d] /\ at'[d] = at[d] /\ todo'[d] = todo[d]
    /\ stage' = stage => inProgress'[d] = inProgress[d]
    /\ maintenance'[d] = maintenance[d]
    /\ line'[d].sent = line[d].sent /\ line'[d].acked = line[d].acked
    /\ line'[d].accepted = line[d].accepted
    /\ line'[d].told = line[d].told /\ line'[d].heard = line[d].heard
    /\ \A p \in PairsOn(d) : silent'[p].state = silent[p].state

\* Then the invariant of that connection holds on.
LEMMA AlikeKeeps ==
    ASSUME NEW d \in Conns, ConnInv(d), Alike(d)
    PROVE  ConnInv(d)'
<1>1. ControlInv(d)'
  BY DEF ConnInv, ControlInv, Alike
<1>2. SentInv(d)'
  BY DEF ConnInv, SentInv, Restored, Alike
<1>3. HeardInv(d)'
  BY DEF ConnInv, HeardInv, Restored, Alike
<1> QED BY <1>1, <1>2, <1>3 DEF ConnInv

\* What the feed sees of a line that heard nothing: it is the same, or lost, or new.
LineIsNoNews ==
    /\ line'[Private].seq <= line[Private].seq
    /\ line'[Private].gap => line[Private].gap /\ line'[Private].skipped = line[Private].skipped
    /\ \/ /\ line'[Private].unreported = line[Private].unreported
          /\ line'[Private].found = line[Private].found
          /\ line'[Private].seq = line[Private].seq
          /\ line[Private].state = "closed" => line'[Private].state = "closed"
       \/ line'[Private].unreported = {} /\ line'[Private].state = "closed"
       \/ /\ line'[Private].unreported = {} /\ line'[Private].seq = 0
          /\ line'[Private].found = lastSeq

\* The private loop may start to read where it had nothing to remember.
FeedMoves ==
    /\ UNCHANGED feedVars
    /\ LineIsNoNews
    /\ stage' = "build" => stage = "build"
    /\ phase'[Private] = "restoring" /\ at'[Private] > 4 =>
           phase[Private] = "restoring" /\ at[Private] > 4
    /\ phase'[Private] = "receiving" =>
           \/ stage = "build"
           \/ phase[Private] = "restoring" /\ at[Private] > 4
           \/ /\ phase[Private] = "receiving"
              /\ line'[Private].accepted = line[Private].accepted
              /\ line'[Private].snapshot = line[Private].snapshot

\* Then what is known of the private feed holds on.
LEMMA FeedMovesKeeps ==
    ASSUME TypeOK, TypeOK', FeedInv, FeedMoves
    PROVE  FeedInv'
<1>1. UNCHANGED <<counter, lastSeq, balances>>
  BY DEF FeedMoves, feedVars
<1>2. lastSeq' # Nothing => lastSeq' >= line'[Private].seq
  <2>1. Private \in Conns
    BY DEF Conns
  <2>2. line[Private].seq \in Nat /\ line'[Private].seq \in Nat
    BY <2>1 DEF TypeOK, LineType
  <2>3. lastSeq \in Nat \cup {Nothing}
    BY DEF TypeOK
  <2> QED BY <1>1, <2>2, <2>3 DEF FeedInv, FeedMoves, LineIsNoNews
<1>3. /\ GapsAreReported'
      /\ line'[Private].state # "closed" => lastSeq' = WatermarkOn(line'[Private])
  <2> DEFINE l == line[Private]
             n == line'[Private]
  <2>1. Private \in Conns
    BY DEF Conns
  <2>2. lastSeq' = lastSeq /\ lastSeq \in Nat \cup {Nothing}
    BY <1>1 DEF TypeOK
  <2>3. /\ n.gap => n.skipped
        /\ l.state # "closed" => lastSeq = WatermarkOn(l)
        /\ \A q \in l.unreported : q <= Blind(l) + 1
    BY DEF FeedInv, FeedMoves, LineIsNoNews, GapsAreReported
  <2>4. \/ /\ n.unreported = l.unreported /\ n.found = l.found /\ n.seq = l.seq
           /\ l.state = "closed" => n.state = "closed"
        \/ n.unreported = {} /\ n.state = "closed"
        \/ n.unreported = {} /\ n.seq = 0 /\ n.found = lastSeq
    BY DEF FeedMoves, LineIsNoNews
  <2> HIDE DEF l, n
  <2>5. /\ n.state # "closed" => lastSeq = WatermarkOn(n)
        /\ \A q \in n.unreported : q <= Blind(n) + 1
    BY <2>2, <2>3, <2>4 DEF WatermarkOn, Blind
  <2> QED BY <2>2, <2>3, <2>5 DEF GapsAreReported, l, n
<1>4. stage' = "build" \/ (phase'[Private] = "restoring" /\ at'[Private] > 4) =>
          balances' = Nothing /\ Forgotten'
  BY <1>1 DEF FeedInv, FeedMoves, Forgotten
<1>5. CASE phase'[Private] = "receiving" /\ balances = Nothing /\ Forgotten
  BY <1>1, <1>2, <1>3, <1>4, <1>5 DEF FeedInv, Forgotten
<1>6. CASE /\ phase'[Private] = "receiving" /\ phase[Private] = "receiving"
           /\ line'[Private].accepted = line[Private].accepted
           /\ line'[Private].snapshot = line[Private].snapshot
  BY <1>1, <1>2, <1>3, <1>4, <1>6 DEF FeedInv, Forgotten
<1>7. CASE phase'[Private] # "receiving"
  BY <1>2, <1>3, <1>4, <1>7 DEF FeedInv
<1> QED BY <1>5, <1>6, <1>7 DEF FeedMoves, FeedInv

-----------------------------------------------------------------------------
(* The clock, the network, and what ends the run. *)

\* The constants are positive numbers.
LEMMA Threshold ==
    /\ BURST_CAPACITY \in Nat \ {0} /\ RATE \in Nat \ {0}
    /\ PING_INTERVAL \in Nat \ {0} /\ PONG_TIMEOUT \in Nat \ {0}
    /\ ZOMBIE_THRESHOLD \in Nat \ {0} /\ T_SILENT \in Nat \ {0}
    /\ LongestPing - 1 \in Nat
BY ConnectionsAssumption DEF LongestPing

KeepaliveType == [ping : Nat, data : Nat, awaiting : BOOLEAN]
PairType == [state : {"initial", "subscribed", "data_ready", "data_pending"}, age : Nat]

\* An age stays a number, though it stops at its threshold.
LEMMA AgedIsNat == ASSUME NEW a \in Nat, NEW t \in Nat PROVE Aged(a, t) \in Nat
BY DEF Aged

\* A tick ages a keepalive and a pair, and changes the state of neither.
LEMMA OlderTypes ==
    /\ \A k \in KeepaliveType : Older(k) \in KeepaliveType
    /\ \A m \in PairType : OlderPair(m) \in PairType /\ OlderPair(m).state = m.state
<1>1. ASSUME NEW k \in KeepaliveType PROVE Older(k) \in KeepaliveType
  <2>1. k.ping \in Nat /\ k.data \in Nat
    BY DEF KeepaliveType
  <2>2. Aged(k.ping, LongestPing - 1) \in Nat /\ Aged(k.data, ZOMBIE_THRESHOLD) \in Nat
    BY <2>1, AgedIsNat, Threshold
  <2> QED BY <2>2 DEF Older, KeepaliveType
<1>2. ASSUME NEW m \in PairType
      PROVE  OlderPair(m) \in PairType /\ OlderPair(m).state = m.state
  <2>1. Aged(m.age, T_SILENT) \in Nat
    BY AgedIsNat, Threshold DEF PairType
  <2> QED BY <2>1 DEF OlderPair, PairType
<1> QED BY <1>1, <1>2

\* The clock keeps the invariant.
LEMMA TickInv == ASSUME SocketsInv, Tick PROVE SocketsInv'
<1>1. TypeOK
  BY DEF SocketsInv
<1>2. TypeOK'
  <2>1. keepalive' \in [Conns -> KeepaliveType]
    BY <1>1, OlderTypes DEF Tick, TypeOK, KeepaliveType
  <2>2. silent' \in [Pairs -> PairType]
    BY <1>1, OlderTypes DEF Tick, TypeOK, PairType
  <2>3. tokens' \in 0 .. BURST_CAPACITY
    BY <1>1, Threshold DEF Tick, TypeOK, Refilled
  <2>4. wake' \in [Conns -> Nat]
    BY <1>1 DEF Tick, TypeOK
  <2> QED BY <1>1, <2>1, <2>2, <2>3, <2>4 DEF Tick, TypeOK, KeepaliveType, PairType, feedVars
<1>3. ASSUME NEW d \in Conns PROVE ConnInv(d)'
  <2>1. \A p \in PairsOn(d) : silent'[p].state = silent[p].state
    <3>1. PairsOn(d) \subseteq Pairs
      BY DEF PairsOn, PairsOf, Pairs, Conns
    <3> QED BY <1>1, <3>1, OlderTypes DEF Tick, TypeOK, PairType
  <2>2. Alike(d)
    BY <2>1 DEF Tick, Alike
  <2> QED BY <2>2, AlikeKeeps DEF SocketsInv
<1>4. FeedMoves
  <2>1. line[Private].seq \in Nat
    BY <1>1 DEF TypeOK, LineType, Conns
  <2> QED BY <2>1 DEF Tick, FeedMoves, LineIsNoNews
<1> QED BY <1>1, <1>2, <1>3, <1>4, FeedMovesKeeps DEF SocketsInv

\* A line of one connection is replaced.
LEMMA NewLine ==
    ASSUME TypeOK, NEW c \in Conns, NEW l \in LineType, line' = [line EXCEPT ![c] = l]
    PROVE  /\ line' \in [Conns -> LineType] /\ line'[c] = l
           /\ \A d \in Conns : d # c => line'[d] = line[d]
BY DEF TypeOK

\* What the network does to a line is not what a loop knows it by.
LEMMA NewState ==
    ASSUME NEW l \in LineType, NEW state \in {"open", "closed", "stalled", "mute"}
    PROVE  /\ [l EXCEPT !.state = state] \in LineType
           /\ LET n == [l EXCEPT !.state = state] IN
                 /\ n.sent = l.sent /\ n.acked = l.acked /\ n.accepted = l.accepted
                 /\ n.seq = l.seq /\ n.told = l.told /\ n.heard = l.heard /\ n.gap = l.gap
                 /\ n.skipped = l.skipped /\ n.snapshot = l.snapshot /\ n.seq \in Nat
                 /\ n.unreported = l.unreported /\ n.found = l.found /\ n.state = state
BY DEF LineType

\* A line that is lost, stalls or goes mute keeps the invariant.
LEMMA LineGoesInv ==
    ASSUME SocketsInv, NEW c \in Conns, NEW state \in {"closed", "stalled", "mute"},
           LineGoes(c, state)
    PROVE  SocketsInv'
<1>1. TypeOK
  BY DEF SocketsInv
<1>2. line' = [line EXCEPT ![c].state = state] /\ drops > 0 /\ drops' = drops - 1
      /\ UNCHANGED << active, faults, stage, phase, driverVars, maintenance, keepalive, silent,
                      tokens, feedVars >> /\ routed' = FALSE
  BY DEF LineGoes
<1>3. /\ line' \in [Conns -> LineType]
      /\ \A d \in Conns :
             /\ line'[d].sent = line[d].sent /\ line'[d].acked = line[d].acked
             /\ line'[d].accepted = line[d].accepted /\ line'[d].seq = line[d].seq
             /\ line'[d].told = line[d].told /\ line'[d].heard = line[d].heard
             /\ line'[d].gap = line[d].gap /\ line'[d].skipped = line[d].skipped
             /\ line'[d].snapshot = line[d].snapshot /\ line[d].seq \in Nat
             /\ line'[d].unreported = line[d].unreported /\ line'[d].found = line[d].found
             /\ line[d].state = "closed" => line'[d].state = "closed"
  <2> DEFINE l == [line[c] EXCEPT !.state = state]
  <2>1. line[c] \in LineType /\ \A d \in Conns : line[d].seq \in Nat
    BY <1>1 DEF TypeOK, LineType
  <2>2. l \in LineType /\ line' = [line EXCEPT ![c] = l]
    BY <1>2, <2>1, NewState
  <2>3. /\ l.sent = line[c].sent /\ l.acked = line[c].acked /\ l.accepted = line[c].accepted
        /\ l.seq = line[c].seq /\ l.told = line[c].told /\ l.heard = line[c].heard
        /\ l.gap = line[c].gap /\ l.skipped = line[c].skipped /\ l.snapshot = line[c].snapshot
        /\ l.unreported = line[c].unreported /\ l.found = line[c].found
        /\ line[c].state = "open"
    BY <2>1, NewState DEF LineGoes
  <2> HIDE DEF l
  <2>4. /\ line' \in [Conns -> LineType] /\ line'[c] = l
        /\ \A d \in Conns : d # c => line'[d] = line[d]
    BY <1>1, <2>2, NewLine
  <2> QED BY <2>1, <2>3, <2>4
<1>4. TypeOK'
  <2>1. drops' \in Nat
    BY <1>1, <1>2 DEF TypeOK
  <2>2. line' \in [Conns -> LineType]
    BY <1>3
  <2> QED BY <1>1, <1>2, <2>1, <2>2 DEF TypeOK, driverVars, feedVars
<1>5. ASSUME NEW d \in Conns PROVE ConnInv(d)'
  <2>1. Alike(d)
    BY <1>2, <1>3 DEF Alike, driverVars
  <2> QED BY <2>1, AlikeKeeps DEF SocketsInv
<1>6. FeedMoves
  BY <1>2, <1>3 DEF FeedMoves, LineIsNoNews, Conns, driverVars
<1> QED BY <1>1, <1>4, <1>5, <1>6, FeedMovesKeeps DEF SocketsInv

\* A coroutine that raises ends the run, and the invariant holds on.
LEMMA EndInv ==
    ASSUME SocketsInv, NEW c \in Conns, Abandon(c) \/ BuildFails(c)
    PROVE  SocketsInv'
<1>1. TypeOK
  BY DEF SocketsInv
<1>2. /\ stage' = "ended" /\ stage # "ended" /\ routed' = FALSE
      /\ UNCHANGED << active, faults, phase, at, todo, attempt, wake, maintenance, keepalive,
                      silent, feedVars, line, drops >>
      /\ inProgress' \in [Conns -> {Nothing, "scenario_a", "scenario_b"}]
      /\ tokens' \in 0 .. BURST_CAPACITY
  <2>1. CASE Abandon(c)
    BY <1>1, <2>1 DEF Abandon, Restoring, TypeOK
  <2>2. CASE BuildFails(c)
    <3>1. tokens' \in 0 .. BURST_CAPACITY
      BY <1>1, <2>2, Threshold DEF BuildFails, TakeToken, TypeOK
    <3> QED BY <1>1, <2>2, <3>1 DEF BuildFails, TypeOK, driverVars
  <2> QED BY <2>1, <2>2
<1>3. TypeOK'
  BY <1>1, <1>2 DEF TypeOK, feedVars
<1>4. ASSUME NEW d \in Conns PROVE ConnInv(d)'
  <2>1. Alike(d)
    BY <1>2 DEF Alike
  <2> QED BY <2>1, AlikeKeeps DEF SocketsInv
<1>5. FeedMoves
  <2>1. line[Private].seq \in Nat
    BY <1>1 DEF TypeOK, LineType, Conns
  <2> QED BY <1>2, <2>1 DEF FeedMoves, LineIsNoNews
<1> QED BY <1>1, <1>3, <1>4, <1>5, FeedMovesKeeps DEF SocketsInv

-----------------------------------------------------------------------------
(* The driver. *)

Phases == {"unopened", "opened", "ready", "subscribing", "receiving", "sleeping", "restoring"}

\* A connection that is somewhere in its restore is one of the bot's.
LEMMA RestoringIsActive ==
    ASSUME NEW c \in Conns, ControlInv(c), stage = "run",
           phase[c] \in {"subscribing", "receiving", "sleeping", "restoring"}
    PROVE  c \in active /\ (inProgress[c] # Nothing <=> phase[c] # "receiving")
BY DEF ControlInv

\* The driver moves on by one step, or is done.
Advances(c) ==
    /\ at' \in [Conns -> Nat] /\ phase' \in [Conns -> Phases]
    /\ attempt' \in [Conns -> Nat]
    /\ inProgress' \in [Conns -> {Nothing, "scenario_a", "scenario_b"}]
    /\ wake' = wake
    /\ \A d \in Conns : d # c =>
           phase'[d] = phase[d] /\ at'[d] = at[d] /\ inProgress'[d] = inProgress[d]
    /\ \/ /\ at'[c] = at[c] + 1 /\ at'[c] \in 1 .. Len(SequenceOf(c))
          /\ phase'[c] = "restoring" /\ inProgress'[c] = inProgress[c]
       \/ /\ at[c] = Len(SequenceOf(c))
          /\ phase'[c] = "receiving" /\ inProgress'[c] = Nothing

\* This is what Advance does.
LEMMA AdvanceAdvances ==
    ASSUME TypeOK, NEW c \in Conns, at[c] \in 1 .. Len(SequenceOf(c)), Advance(c)
    PROVE  Advances(c)
<1>1. Len(SequenceOf(c)) \in Nat
  BY SequenceFacts
<1>2. at[c] \in Nat /\ at[c] + 1 \in Nat /\ at[c] >= 1 /\ at[c] <= Len(SequenceOf(c))
  BY <1>1
<1>3. CASE at[c] < Len(SequenceOf(c))
  <2>1. /\ at' = [at EXCEPT ![c] = at[c] + 1] /\ phase' = [phase EXCEPT ![c] = "restoring"]
        /\ attempt' = attempt /\ wake' = wake /\ inProgress' = inProgress
    BY <1>3 DEF Advance
  <2>2. at' \in [Conns -> Nat] /\ at'[c] = at[c] + 1 /\ (\A d \in Conns : d # c => at'[d] = at[d])
    BY <1>2, <2>1 DEF TypeOK
  <2>3. /\ phase' \in [Conns -> Phases] /\ phase'[c] = "restoring"
        /\ (\A d \in Conns : d # c => phase'[d] = phase[d])
    BY <2>1 DEF TypeOK, Phases
  <2>4. at'[c] \in 1 .. Len(SequenceOf(c))
    BY <1>1, <1>2, <1>3, <2>2
  <2> QED BY <2>1, <2>2, <2>3, <2>4 DEF Advances, TypeOK
<1>4. CASE ~(at[c] < Len(SequenceOf(c)))
  <2>1. /\ at' = [at EXCEPT ![c] = 0] /\ phase' = [phase EXCEPT ![c] = "receiving"]
        /\ attempt' = [attempt EXCEPT ![c] = 0] /\ wake' = wake
        /\ inProgress' = [inProgress EXCEPT ![c] = Nothing]
    BY <1>4 DEF Advance
  <2>2. at' \in [Conns -> Nat] /\ (\A d \in Conns : d # c => at'[d] = at[d])
    BY <2>1 DEF TypeOK
  <2>3. /\ phase' \in [Conns -> Phases] /\ phase'[c] = "receiving"
        /\ (\A d \in Conns : d # c => phase'[d] = phase[d])
    BY <2>1 DEF TypeOK, Phases
  <2>4. /\ inProgress' \in [Conns -> {Nothing, "scenario_a", "scenario_b"}]
        /\ inProgress'[c] = Nothing
        /\ (\A d \in Conns : d # c => inProgress'[d] = inProgress[d])
    BY <2>1 DEF TypeOK
  <2>5. attempt' \in [Conns -> Nat]
    BY <2>1 DEF TypeOK
  <2>6. at[c] = Len(SequenceOf(c))
    BY <1>1, <1>2, <1>4
  <2> QED BY <2>1, <2>2, <2>3, <2>4, <2>5, <2>6 DEF Advances
<1> QED BY <1>3, <1>4

\* What a step of the restore has done to the line when the driver moves on.
StepDone(c) ==
    \/ phase[c] = "restoring" /\ at[c] > ResubscribeStep(c) /\ line'[c] = line[c]
    \/ phase[c] = "restoring" /\ at[c] + 1 < ResubscribeStep(c) /\ line'[c] = line[c]
    \/ phase[c] = "restoring" /\ at[c] + 1 = ResubscribeStep(c) /\ line'[c] = Opened
    \/ /\ phase[c] = "subscribing" /\ at[c] = ResubscribeStep(c)
       /\ line'[c].sent = Len(RequestsOf(c))
       /\ line'[c].acked = line[c].acked /\ line'[c].accepted = line[c].accepted

\* The task stays where the sequence says.
LEMMA AdvanceKeepsControl ==
    ASSUME NEW c \in Conns, ControlInv(c), stage = "run", stage' = "run",
           active' = active, at[c] \in 1 .. Len(SequenceOf(c)), Advances(c), StepDone(c)
    PROVE  ControlInv(c)'
<1>1. phase[c] \in {"restoring", "subscribing"}
  BY DEF StepDone
<1>2. c \in active /\ inProgress[c] # Nothing
  BY <1>1, RestoringIsActive
<1> QED BY <1>1, <1>2 DEF ControlInv, Advances

\* The subscribes that went out stay accounted for.
LEMMA AdvanceKeepsSent ==
    ASSUME NEW c \in Conns, SentInv(c), at[c] \in 1 .. Len(SequenceOf(c)), Advances(c),
           StepDone(c)
    PROVE  SentInv(c)'
<1>1. /\ Len(RequestsOf(c)) \in Nat
      /\ Len(SequenceOf(c)) \in Nat /\ ResubscribeStep(c) \in Nat
      /\ ResubscribeStep(c) < Len(SequenceOf(c))
  BY Requests, SequenceFacts DEF RequestFacts
<1>2. CASE phase[c] = "restoring" /\ at[c] > ResubscribeStep(c) /\ line'[c] = line[c]
  <2>1. Restored(c)
    BY <1>2 DEF Restored
  <2>2. phase'[c] = "receiving" \/ (phase'[c] = "restoring" /\ at'[c] > ResubscribeStep(c))
    BY <1>1, <1>2 DEF Advances
  <2> QED BY <1>1, <1>2, <2>1, <2>2 DEF SentInv, Restored
<1>3. CASE phase[c] = "restoring" /\ at[c] + 1 < ResubscribeStep(c) /\ line'[c] = line[c]
  <2>1. /\ phase'[c] = "restoring" /\ at'[c] # ResubscribeStep(c)
        /\ ~(at'[c] > ResubscribeStep(c))
    BY <1>1, <1>3 DEF Advances
  <2>2. /\ line[c].sent <= Len(RequestsOf(c)) /\ line[c].acked <= line[c].sent
        /\ line[c].accepted \subseteq 1 .. line[c].acked
    BY DEF SentInv
  <2> QED BY <1>3, <2>1, <2>2 DEF SentInv, Restored
<1>4. CASE phase[c] = "restoring" /\ at[c] + 1 = ResubscribeStep(c) /\ line'[c] = Opened
  <2>1. phase'[c] = "restoring" /\ at'[c] = ResubscribeStep(c)
    BY <1>1, <1>4 DEF Advances
  <2>2. line'[c].sent = 0 /\ line'[c].acked = 0 /\ line'[c].accepted = {}
    BY <1>4 DEF FreshLine, Opened
  <2> QED BY <1>1, <2>1, <2>2 DEF SentInv, Restored
<1>5. CASE /\ phase[c] = "subscribing" /\ at[c] = ResubscribeStep(c)
           /\ line'[c].sent = Len(RequestsOf(c))
           /\ line'[c].acked = line[c].acked /\ line'[c].accepted = line[c].accepted
  <2>1. phase'[c] = "restoring" /\ at'[c] > ResubscribeStep(c)
    BY <1>1, <1>5 DEF Advances
  <2>2. line[c].acked = 0
    BY <1>5 DEF SentInv
  <2> QED BY <1>1, <1>5, <2>1, <2>2 DEF SentInv, Restored
<1> QED BY <1>2, <1>3, <1>4, <1>5 DEF StepDone

\* No pair passes for ready before the socket is read.
LEMMA AdvanceKeepsHeard ==
    ASSUME NEW c \in Conns, HeardInv(c), at[c] \in 1 .. Len(SequenceOf(c)), Advances(c),
           StepDone(c), maintenance' = maintenance, silent' = silent
    PROVE  HeardInv(c)'
<1>1. /\ Len(SequenceOf(c)) \in Nat /\ ResubscribeStep(c) \in Nat
      /\ ResubscribeStep(c) < Len(SequenceOf(c))
  BY SequenceFacts
<1>2. phase[c] \in {"restoring", "subscribing"} /\ ~maintenance[c]
  BY DEF StepDone, HeardInv
<1>3. CASE phase[c] = "subscribing" \/ Restored(c)
  <2>1. \A p \in PairsOn(c) : silent'[p].state # "data_ready"
    BY <1>3 DEF HeardInv
  <2> QED BY <1>2, <2>1 DEF HeardInv
<1>4. CASE phase[c] = "restoring" /\ at[c] < ResubscribeStep(c)
  <2>1. phase'[c] = "restoring" /\ ~(at'[c] > ResubscribeStep(c))
    BY <1>1, <1>4 DEF Advances
  <2> QED BY <1>2, <2>1 DEF HeardInv, Restored
<1> QED BY <1>1, <1>3, <1>4 DEF StepDone, Restored

\* The step is done and the driver moves on.
LEMMA AdvanceInv ==
    ASSUME SocketsInv, TypeOK', NEW c \in Conns, stage = "run", stage' = "run", active' = active,
           at[c] \in 1 .. Len(SequenceOf(c)), Advances(c), StepDone(c),
           todo' = todo \/ (phase[c] = "subscribing" /\ todo' = [todo EXCEPT ![c] = @ - 1]),
           UNCHANGED <<maintenance, silent>>,
           \A d \in Conns : d # c => line'[d] = line[d]
    PROVE  \A d \in Conns : ConnInv(d)'
<1>1. TypeOK /\ ConnInv(c)
  BY DEF SocketsInv
<1>2. ConnInv(c)'
  <2>1. ControlInv(c)'
    BY <1>1, AdvanceKeepsControl DEF ConnInv
  <2>2. HeardInv(c)'
    BY <1>1, AdvanceKeepsHeard DEF ConnInv
  <2>3. SentInv(c)'
    BY <1>1, AdvanceKeepsSent DEF ConnInv
  <2> QED BY <2>1, <2>2, <2>3 DEF ConnInv
<1>3. ASSUME NEW d \in Conns, d # c PROVE ConnInv(d)'
  <2>1. Alike(d)
    BY <1>1, <1>3 DEF Alike, Advances, TypeOK
  <2> QED BY <2>1, AlikeKeeps DEF SocketsInv
<1> QED BY <1>2, <1>3

\* A line that was left alone brings no news.
LEMMA SameLineIsNoNews ==
    ASSUME TypeOK, line'[Private] = line[Private] PROVE LineIsNoNews
<1>1. line[Private].seq \in Nat
  BY DEF TypeOK, LineType, Conns
<1> QED BY <1>1 DEF LineIsNoNews

\* Nothing was sent, heard or told on a socket that is new or gone.
LEMMA FreshLineIsALine ==
    /\ lastSeq \in Nat \cup {Nothing} =>
           /\ Opened \in LineType /\ Opened.sent = 0 /\ Opened.acked = 0
           /\ Opened.accepted = {} /\ Opened.seq = 0 /\ ~Opened.gap
           /\ Opened.told = FALSE /\ Opened.heard = {}
           /\ Opened.unreported = {} /\ Opened.found = lastSeq
    /\ NoLine \in LineType /\ NoLine.sent = 0 /\ NoLine.acked = 0
    /\ NoLine.accepted = {} /\ NoLine.seq = 0 /\ ~NoLine.gap
    /\ NoLine.told = FALSE /\ NoLine.heard = {}
    /\ NoLine.unreported = {} /\ NoLine.state = "closed"
BY DEF FreshLine, Opened, NoLine, LineType

\* Nor does a socket that is new or gone.
LEMMA NewLineIsNoNews ==
    ASSUME TypeOK, NEW c \in Conns, NEW l \in {Opened, NoLine}, line' = [line EXCEPT ![c] = l]
    PROVE  LineIsNoNews
<1>1. Private \in Conns /\ line[Private].seq \in Nat
  BY DEF TypeOK, LineType, Conns
<1>2. /\ l \in LineType /\ l.seq = 0 /\ ~l.gap /\ l.unreported = {}
      /\ l.state = "closed" \/ l.found = lastSeq
  BY FreshLineIsALine DEF TypeOK
<1>3. line'[Private] = line[Private] \/ line'[Private] = l
  BY <1>1, <1>2, NewLine
<1> QED BY <1>1, <1>2, <1>3 DEF LineIsNoNews

\* The driver touches the feed only where it resets it.
LEMMA AdvanceMovesFeed ==
    ASSUME NEW c \in Conns, ControlInv(c), stage = "run", stage' = "run",
           at[c] \in 1 .. Len(SequenceOf(c)), Advances(c), StepDone(c),
           phase[c] = "restoring" => ~(c = Private /\ at[c] = 4),
           UNCHANGED feedVars, LineIsNoNews, c # Private => line'[Private] = line[Private]
    PROVE  FeedMoves
<1>1. CASE c # Private
  <2>1. phase'[Private] = phase[Private] /\ at'[Private] = at[Private]
    BY <1>1 DEF Advances, Conns
  <2> QED BY <1>1, <2>1 DEF FeedMoves, LineIsNoNews
<1>2. CASE c = Private
  <2>1. Len(SequenceOf(c)) = 6 /\ ResubscribeStep(c) = 3
    BY <1>2, SequenceFacts
  <2>2. at[c] \in {1, 2, 3, 4, 5, 6}
    BY <2>1
  <2> QED BY <1>2, <2>1, <2>2 DEF FeedMoves, LineIsNoNews, Advances, StepDone
<1> QED BY <1>1, <1>2

-----------------------------------------------------------------------------
(* The steps of the driver that only move on. *)

\* The sleep of the driver ends.
LEMMA WakeInv ==
    ASSUME SocketsInv, NEW c \in Conns, Wake(c)
    PROVE  SocketsInv'
<1>1. TypeOK /\ ConnInv(c)
  BY DEF SocketsInv
<1>2. /\ stage = "run" /\ stage' = "run" /\ active' = active /\ phase[c] = "sleeping"
      /\ phase' = [phase EXCEPT ![c] = "restoring"] /\ at' = [at EXCEPT ![c] = 1]
      /\ UNCHANGED << todo, inProgress, maintenance, silent, feedVars, line >>
  BY DEF Wake
<1>3. TypeOK'
  BY <1>1 DEF Wake, TypeOK, feedVars
<1>4. phase'[c] = "restoring" /\ at'[c] = 1
  BY <1>1, <1>2 DEF TypeOK
<1>5. Len(SequenceOf(c)) \in Nat /\ 1 \in 1 .. Len(SequenceOf(c)) /\ ~(1 > ResubscribeStep(c))
      /\ 1 # ResubscribeStep(c)
  BY SequenceFacts
<1>6. ConnInv(c)'
  <2>1. c \in active /\ inProgress[c] # Nothing
    BY <1>1, <1>2, RestoringIsActive DEF ConnInv
  <2>2. ControlInv(c)'
    BY <1>2, <1>4, <1>5, <2>1 DEF ControlInv
  <2>3. SentInv(c)'
    BY <1>1, <1>2, <1>4, <1>5 DEF ConnInv, SentInv, Restored
  <2>4. HeardInv(c)'
    BY <1>1, <1>2, <1>4, <1>5 DEF ConnInv, HeardInv, Restored
  <2> QED BY <2>2, <2>3, <2>4 DEF ConnInv
<1>7. ASSUME NEW d \in Conns, d # c PROVE ConnInv(d)'
  <2>1. Alike(d)
    BY <1>1, <1>2, <1>7 DEF Alike, TypeOK
  <2> QED BY <2>1, AlikeKeeps DEF SocketsInv
<1>8. FeedMoves
  <2>1. LineIsNoNews
    BY <1>1, <1>2, SameLineIsNoNews
  <2>2. CASE c = Private
    BY <1>2, <1>4, <2>1, <2>2 DEF FeedMoves, LineIsNoNews
  <2>3. CASE c # Private
    <3>1. phase'[Private] = phase[Private] /\ at'[Private] = at[Private]
      BY <1>1, <1>2, <2>3 DEF TypeOK, Conns
    <3> QED BY <1>2, <2>1, <3>1 DEF FeedMoves, LineIsNoNews
  <2> QED BY <2>2, <2>3
<1> QED BY <1>1, <1>3, <1>6, <1>7, <1>8, FeedMovesKeeps DEF SocketsInv

\* A step that leaves the line alone.
LEMMA PlainStepInv ==
    ASSUME SocketsInv, NEW c \in Conns, AcquireToken(c) \/ ResumeKeepalive(c) \/ LastStep(c)
    PROVE  SocketsInv'
<1>1. TypeOK /\ ConnInv(c) /\ ControlInv(c)
  BY DEF SocketsInv, ConnInv
<1>2. /\ Advance(c) /\ UNCHANGED << active, faults, stage, todo, maintenance, silent, tokens,
                                    feedVars, line, drops >>
      /\ routed' = FALSE
  BY DEF AcquireToken, ResumeKeepalive, LastStep
<1>3. PICK step \in {"ACQUIRE_WS_TOKEN", "RESUME_KEEPALIVE", "RESTORE_POSITION_MIRROR",
                     "RESTORE_TICKER_TRIGGER"} : Restoring(c, step)
  BY DEF AcquireToken, ResumeKeepalive, LastStep
<1>4. keepalive' \in [Conns -> KeepaliveType]
  <2>1. Reset \in KeepaliveType
    BY DEF Reset, KeepaliveType
  <2> QED BY <1>1, <2>1 DEF AcquireToken, ResumeKeepalive, LastStep, TypeOK, KeepaliveType
<1>5. /\ phase[c] = "restoring" /\ stage = "run" /\ at[c] \in 1 .. Len(SequenceOf(c))
      /\ at[c] + 1 < ResubscribeStep(c) \/ (at[c] > ResubscribeStep(c) /\ (c = Private => at[c] > 4))
  BY <1>1, <1>3, StepIsAt
<1>6. Advances(c)
  BY <1>1, <1>2, <1>5, AdvanceAdvances
<1>7. StepDone(c)
  BY <1>2, <1>5 DEF StepDone
<1>8. TypeOK'
  BY <1>1, <1>2, <1>4, <1>6 DEF TypeOK, Advances, Phases, KeepaliveType, feedVars
<1>9. \A d \in Conns : ConnInv(d)'
  BY <1>2, <1>5, <1>6, <1>7, <1>8, AdvanceInv
<1>10. FeedMoves
  <2>1. LineIsNoNews
    BY <1>1, <1>2, SameLineIsNoNews
  <2>2. ~(c = Private /\ at[c] = 4)
    <3>1. c = Private => ResubscribeStep(c) = 3
      BY SequenceFacts
    <3> QED BY <1>5, <3>1
  <2> QED BY <1>1, <1>2, <1>5, <1>6, <1>7, <2>1, <2>2, AdvanceMovesFeed
<1> QED BY <1>1, <1>8, <1>9, <1>10, FeedMovesKeeps DEF SocketsInv

\* A fresh socket has nothing sent on it.
LEMMA ReconnectSocketInv ==
    ASSUME SocketsInv, NEW c \in Conns, ReconnectSocket(c)
    PROVE  SocketsInv'
<1>1. TypeOK /\ ConnInv(c) /\ ControlInv(c)
  BY DEF SocketsInv, ConnInv
<1>2. /\ Advance(c) /\ line' = [line EXCEPT ![c] = Opened]
      /\ UNCHANGED << active, faults, stage, todo, maintenance, keepalive, silent, tokens,
                      feedVars, drops >>
      /\ routed' = FALSE
  BY DEF ReconnectSocket
<1>3. /\ phase[c] = "restoring" /\ stage = "run" /\ at[c] \in 1 .. Len(SequenceOf(c))
      /\ at[c] + 1 = ResubscribeStep(c)
  BY <1>1, StepIsAt DEF ReconnectSocket
<1>4. Advances(c)
  BY <1>1, <1>2, <1>3, AdvanceAdvances
<1>5. /\ line' \in [Conns -> LineType] /\ line'[c] = Opened
      /\ \A d \in Conns : d # c => line'[d] = line[d]
  BY <1>1, <1>2, NewLine, FreshLineIsALine DEF TypeOK
<1>6. StepDone(c)
  BY <1>3, <1>5 DEF StepDone
<1>7. TypeOK'
  BY <1>1, <1>2, <1>4, <1>5 DEF TypeOK, Advances, Phases, feedVars
<1>8. \A d \in Conns : ConnInv(d)'
  BY <1>2, <1>3, <1>4, <1>5, <1>6, <1>7, AdvanceInv
<1>9. FeedMoves
  <2>1. LineIsNoNews
    BY <1>1, <1>2, NewLineIsNoNews
  <2>2. ~(c = Private /\ at[c] = 4)
    <3>1. c = Private => ResubscribeStep(c) = 3
      BY SequenceFacts
    <3> QED BY <1>3, <3>1
  <2>3. c # Private => line'[Private] = line[Private]
    BY <1>5 DEF Conns
  <2> QED BY <1>1, <1>2, <1>3, <1>4, <1>6, <2>1, <2>2, <2>3, AdvanceMovesFeed
<1> QED BY <1>1, <1>7, <1>8, <1>9, FeedMovesKeeps DEF SocketsInv

-----------------------------------------------------------------------------
(* The steps that reset, re-arm, subscribe and fail. *)

\* Counter and balances are forgotten before the private loop reads again.
LEMMA ResetRateCeilingInv ==
    ASSUME SocketsInv, NEW c \in Conns, ResetRateCeiling(c)
    PROVE  SocketsInv'
<1>1. TypeOK /\ ConnInv(c) /\ ControlInv(c) /\ FeedInv
  BY DEF SocketsInv, ConnInv
<1>2. /\ Advance(c) /\ counter' = ResetCounter(counter) /\ balances' = Nothing
      /\ UNCHANGED << active, faults, stage, todo, maintenance, keepalive, silent, tokens,
                      lastSeq, line, drops >>
      /\ routed' = FALSE
  BY DEF ResetRateCeiling
<1>3. /\ phase[c] = "restoring" /\ stage = "run" /\ at[c] \in 1 .. Len(SequenceOf(c))
      /\ c = Private /\ at[c] = 4
  BY <1>1, StepIsAt DEF ResetRateCeiling
<1>4. Advances(c)
  BY <1>1, <1>2, <1>3, AdvanceAdvances
<1>5. Len(SequenceOf(c)) = 6 /\ ResubscribeStep(c) = 3
  BY <1>3, SequenceFacts
<1>6. StepDone(c)
  BY <1>2, <1>3, <1>5 DEF StepDone
<1>7. /\ counter' \in [ceiling : Nat \cup {Nothing}, value : Nat \cup {Nothing},
                       suppressed : BOOLEAN]
      /\ Forgotten'
  BY <1>1, <1>2 DEF ResetCounter, TypeOK, Forgotten
<1>8. TypeOK'
  BY <1>1, <1>2, <1>4, <1>7 DEF TypeOK, Advances, Phases
<1>9. \A d \in Conns : ConnInv(d)'
  BY <1>2, <1>3, <1>4, <1>6, <1>8, AdvanceInv
<1>10. FeedInv'
  <2>1. phase'[Private] = "restoring"
    BY <1>3, <1>4, <1>5 DEF Advances
  <2> QED BY <1>1, <1>2, <1>7, <2>1 DEF FeedInv, GapsAreReported
<1> QED BY <1>8, <1>9, <1>10 DEF SocketsInv

\* The pairs of a connection are no other's.
LEMMA PairsOnAreApart ==
    ASSUME NEW c \in Conns, NEW d \in Conns, c # d, NEW p \in PairsOn(d)
    PROVE  p \notin PairsOn(c)
BY PairsAreApart DEF PairsOn, Conns

\* The pairs of a connection are pairs of the universe.
LEMMA PairsOnArePairs == ASSUME NEW c \in Conns PROVE PairsOn(c) \subseteq Pairs
BY DEF PairsOn, PairsOf, Pairs, Conns

\* The pairs are re-armed and every request is to be sent again.
LEMMA ResubscribeInv ==
    ASSUME SocketsInv, NEW c \in Conns, Resubscribe(c)
    PROVE  SocketsInv'
<1>1. TypeOK /\ ConnInv(c) /\ ControlInv(c)
  BY DEF SocketsInv, ConnInv
<1>2. /\ phase' = [phase EXCEPT ![c] = "subscribing"]
      /\ todo' = [todo EXCEPT ![c] = Len(RequestsOf(c))]
      /\ silent' = [p \in Pairs |-> IF p \in PairsOn(c) THEN MarkShardReconnect(silent[p])
                                    ELSE silent[p]]
      /\ routed' = FALSE
      /\ UNCHANGED << active, faults, stage, at, attempt, wake, inProgress, maintenance,
                      keepalive, tokens, feedVars, line, drops >>
  BY DEF Resubscribe
<1>3. /\ phase[c] = "restoring" /\ stage = "run" /\ at[c] = ResubscribeStep(c)
  <2>1. PICK step \in {"RESUBSCRIBE_PUBLIC", "RESUBSCRIBE_PRIVATE"} : Restoring(c, step)
    BY DEF Resubscribe
  <2> QED BY <1>1, <2>1, StepIsAt
<1>4. Len(RequestsOf(c)) \in Nat \ {0}
  BY Requests DEF RequestFacts
<1>5. /\ phase'[c] = "subscribing" /\ todo'[c] = Len(RequestsOf(c))
      /\ \A d \in Conns : d # c => phase'[d] = phase[d] /\ todo'[d] = todo[d]
  BY <1>1, <1>2 DEF TypeOK
<1>6. silent' \in [Pairs -> PairType]
  BY <1>1, <1>2 DEF MarkShardReconnect, TypeOK, PairType
<1>7. TypeOK'
  <2>1. phase' \in [Conns -> Phases]
    BY <1>1, <1>2 DEF TypeOK, Phases
  <2>2. todo' \in [Conns -> Nat]
    BY <1>1, <1>2, <1>4 DEF TypeOK
  <2> QED BY <1>1, <1>2, <1>6, <2>1, <2>2 DEF TypeOK, PairType, Phases, feedVars
<1>8. ConnInv(c)'
  <2>1. c \in active /\ inProgress[c] # Nothing
    BY <1>1, <1>3, RestoringIsActive
  <2>2. ControlInv(c)'
    BY <1>2, <1>3, <1>5, <2>1 DEF ControlInv
  <2>3. SentInv(c)'
    <3>1. line[c].sent = 0 /\ line[c].acked <= line[c].sent
          /\ line[c].accepted \subseteq 1 .. line[c].acked
      BY <1>1, <1>3 DEF ConnInv, SentInv
    <3>2. line[c].acked = 0
      BY <1>1, <3>1 DEF TypeOK, LineType
    <3> QED BY <1>2, <1>4, <1>5, <3>1, <3>2 DEF SentInv, Restored
  <2>4. HeardInv(c)'
    <3>1. ~maintenance[c]
      BY <1>1, <1>3 DEF ConnInv, HeardInv
    <3>2. \A p \in PairsOn(c) : silent'[p].state = "subscribed"
      BY <1>2, PairsOnArePairs DEF MarkShardReconnect
    <3> QED BY <1>2, <1>5, <3>1, <3>2 DEF HeardInv
  <2> QED BY <2>2, <2>3, <2>4 DEF ConnInv
<1>9. ASSUME NEW d \in Conns, d # c PROVE ConnInv(d)'
  <2>1. \A p \in PairsOn(d) : silent'[p].state = silent[p].state
    BY <1>2, <1>9, PairsOnArePairs, PairsOnAreApart
  <2>2. Alike(d)
    BY <1>2, <1>5, <1>9, <2>1 DEF Alike
  <2> QED BY <2>2, AlikeKeeps DEF SocketsInv
<1>10. FeedMoves
  <2>1. LineIsNoNews
    BY <1>1, <1>2, SameLineIsNoNews
  <2>2. phase'[Private] = phase[Private] \/ phase'[Private] = "subscribing"
    BY <1>5 DEF Conns
  <2> QED BY <1>2, <2>1, <2>2 DEF FeedMoves, LineIsNoNews
<1> QED BY <1>1, <1>7, <1>8, <1>9, <1>10, FeedMovesKeeps DEF SocketsInv

\* Every attempt waits a number of ticks.
LEMMA DelayIsNat ==
    ASSUME NEW scenario, NEW a \in Nat \ {0}
    PROVE  ReconnectDelay(scenario, a) \in Nat
BY PlanAssumption DEF ReconnectDelay

\* A reconnect, or its next attempt, waits: the socket is gone.
Sleeps(c) ==
    /\ phase' = [phase EXCEPT ![c] = "sleeping"]
    /\ line' = [line EXCEPT ![c] = NoLine]
    /\ attempt' \in [Conns -> Nat] /\ wake' \in [Conns -> Nat]
    /\ at' \in [Conns -> Nat] /\ todo' \in [Conns -> Nat]
    /\ inProgress' \in [Conns -> {Nothing, "scenario_a", "scenario_b"}]
    /\ inProgress'[c] # Nothing
    /\ ~maintenance'[c] /\ maintenance' \in [Conns -> BOOLEAN]
    /\ \A d \in Conns : d # c =>
           /\ at'[d] = at[d] /\ todo'[d] = todo[d] /\ inProgress'[d] = inProgress[d]
           /\ maintenance'[d] = maintenance[d]
    /\ UNCHANGED << active, stage >>

\* The invariant holds of a connection that waits, and on of the others.
LEMMA SleepsKeeps ==
    ASSUME SocketsInv, NEW c \in Conns, stage = "run",
           phase[c] \in {"subscribing", "receiving"}, Sleeps(c),
           \A d \in Conns : d # c => \A p \in PairsOn(d) : silent'[p].state = silent[p].state
    PROVE  \A d \in Conns : ConnInv(d)'
<1>1. TypeOK /\ ConnInv(c) /\ ControlInv(c)
  BY DEF SocketsInv, ConnInv
<1>2. /\ phase'[c] = "sleeping" /\ stage' = "run" /\ active' = active
      /\ \A d \in Conns : d # c => phase'[d] = phase[d]
  BY <1>1 DEF Sleeps, TypeOK
<1>3. line'[c] = NoLine /\ \A d \in Conns : d # c => line'[d] = line[d]
  BY <1>1, NewLine, FreshLineIsALine DEF Sleeps
<1>4. ConnInv(c)'
  <2>1. c \in active
    BY <1>1, RestoringIsActive
  <2>2. ControlInv(c)'
    BY <1>2, <2>1 DEF ControlInv, Sleeps
  <2>3. SentInv(c)'
    <3>1. Len(RequestsOf(c)) \in Nat
      BY Requests DEF RequestFacts
    <3> QED BY <1>2, <1>3, <3>1, FreshLineIsALine DEF SentInv, Restored
  <2>4. HeardInv(c)'
    BY <1>2 DEF HeardInv, Restored, Sleeps
  <2> QED BY <2>2, <2>3, <2>4 DEF ConnInv
<1>5. ASSUME NEW d \in Conns, d # c PROVE ConnInv(d)'
  <2>1. Alike(d)
    BY <1>2, <1>3, <1>5 DEF Alike, Sleeps
  <2> QED BY <2>1, AlikeKeeps DEF SocketsInv
<1> QED BY <1>4, <1>5

\* The feed takes no notice.
LEMMA SleepsMovesFeed ==
    ASSUME TypeOK, NEW c \in Conns, stage = "run", Sleeps(c), UNCHANGED feedVars
    PROVE  FeedMoves
<1>1. LineIsNoNews
  BY NewLineIsNoNews DEF Sleeps
<1>2. stage' = "run"
  BY DEF Sleeps
<1>3. CASE c = Private
  <2>1. phase'[Private] = "sleeping"
    BY <1>3 DEF Sleeps, TypeOK
  <2> QED BY <1>1, <1>2, <2>1 DEF FeedMoves, LineIsNoNews
<1>4. CASE c # Private
  <2>1. phase'[Private] = phase[Private] /\ at'[Private] = at[Private]
    BY <1>4 DEF Sleeps, TypeOK, Conns
  <2>2. line'[Private] = line[Private]
    BY <1>4, NewLine, FreshLineIsALine DEF Sleeps, Conns
  <2> QED BY <1>1, <1>2, <2>1, <2>2 DEF FeedMoves, LineIsNoNews
<1> QED BY <1>3, <1>4

\* A send that fails begins the next attempt.
LEMMA SubscribeFailsInv ==
    ASSUME SocketsInv, NEW c \in Conns, SubscribeFails(c)
    PROVE  SocketsInv'
<1>1. TypeOK /\ ConnInv(c) /\ ControlInv(c)
  BY DEF SocketsInv, ConnInv
<1>2. /\ stage = "run" /\ phase[c] = "subscribing"
      /\ phase' = [phase EXCEPT ![c] = "sleeping"]
      /\ attempt' = [attempt EXCEPT ![c] = Aged(@, Len(Backoff))]
      /\ wake' = [wake EXCEPT ![c] = ReconnectDelay(inProgress[c], attempt'[c])]
      /\ at' = [at EXCEPT ![c] = 0] /\ todo' = [todo EXCEPT ![c] = 0]
      /\ line' = [line EXCEPT ![c] = NoLine]
      /\ routed' = FALSE
      /\ UNCHANGED << active, faults, stage, inProgress, maintenance, keepalive, silent,
                      feedVars, drops >>
  BY DEF SubscribeFails
<1>3. tokens' \in 0 .. BURST_CAPACITY
  BY <1>1, Threshold DEF SubscribeFails, TakeToken, TypeOK
<1>4. attempt' \in [Conns -> Nat] /\ attempt'[c] \in Nat \ {0}
  <2>1. Aged(attempt[c], Len(Backoff)) \in Nat \ {0}
    <3>1. attempt[c] \in Nat /\ Len(Backoff) \in Nat
      BY <1>1, PlanAssumption DEF TypeOK
    <3> QED BY <3>1 DEF Aged
  <2> QED BY <1>1, <1>2, <2>1 DEF TypeOK
<1>5. wake' \in [Conns -> Nat]
  <2>1. ReconnectDelay(inProgress[c], attempt'[c]) \in Nat
    BY <1>4, DelayIsNat
  <2> QED BY <1>1, <1>2, <2>1 DEF TypeOK
<1>6. Sleeps(c)
  <2>1. inProgress[c] # Nothing
    BY <1>1, <1>2, RestoringIsActive
  <2>2. ~maintenance[c]
    BY <1>1, <1>2 DEF ConnInv, HeardInv
  <2> QED BY <1>1, <1>2, <1>4, <1>5, <2>1, <2>2 DEF Sleeps, TypeOK
<1>7. TypeOK'
  <2>1. phase' \in [Conns -> Phases]
    BY <1>1, <1>2 DEF TypeOK, Phases
  <2>2. line' \in [Conns -> LineType]
    BY <1>1, <1>2, NewLine, FreshLineIsALine
  <2> QED BY <1>1, <1>2, <1>3, <1>6, <2>1, <2>2 DEF Sleeps, TypeOK, Phases, feedVars
<1>8. \A d \in Conns : ConnInv(d)'
  BY <1>2, <1>6, SleepsKeeps
<1>9. FeedMoves
  BY <1>1, <1>2, <1>6, SleepsMovesFeed
<1> QED BY <1>1, <1>7, <1>8, <1>9, FeedMovesKeeps DEF SocketsInv

\* One request more changes nothing else of a line.
LEMMA NewSent ==
    ASSUME NEW l \in LineType
    PROVE  LET n == [l EXCEPT !.sent = @ + 1] IN
              /\ n \in LineType /\ n.sent = l.sent + 1
              /\ n.acked = l.acked /\ n.accepted = l.accepted
              /\ n.seq = l.seq /\ n.told = l.told /\ n.heard = l.heard /\ n.gap = l.gap
              /\ n.skipped = l.skipped /\ n.snapshot = l.snapshot /\ n.seq \in Nat
              /\ n.unreported = l.unreported /\ n.found = l.found /\ n.state = l.state
BY DEF LineType

\* One more request on the socket.
OneMoreSent(c) ==
    /\ line' \in [Conns -> LineType]
    /\ line'[c].sent = line[c].sent + 1 /\ line'[c].acked = line[c].acked
    /\ line'[c].accepted = line[c].accepted
    /\ line'[c].told = line[c].told /\ line'[c].heard = line[c].heard
    /\ line'[c].seq = line[c].seq /\ line'[c].gap = line[c].gap
    /\ line'[c].skipped = line[c].skipped /\ line'[c].unreported = line[c].unreported
    /\ line'[c].found = line[c].found /\ line'[c].state = line[c].state
    /\ line[c].seq \in Nat /\ line[c].sent \in Nat /\ line[c].acked \in Nat
    /\ \A d \in Conns : d # c => line'[d] = line[d]
    /\ todo' = [todo EXCEPT ![c] = @ - 1] /\ todo[c] \in Nat /\ todo'[c] = todo[c] - 1
    /\ todo' \in [Conns -> Nat] /\ \A d \in Conns : d # c => todo'[d] = todo[d]
    /\ tokens' \in 0 .. BURST_CAPACITY

\* This is what a send does.
LEMMA SendsOneMore ==
    ASSUME TypeOK, NEW c \in Conns, SendSubscribe(c), todo[c] > 0
    PROVE  OneMoreSent(c)
<1>1. line[c] \in LineType /\ line[c].seq \in Nat /\ line[c].sent \in Nat /\ line[c].acked \in Nat
  BY DEF TypeOK, LineType
<1> DEFINE l == [line[c] EXCEPT !.sent = @ + 1]
<1>2. /\ l \in LineType /\ l.sent = line[c].sent + 1
      /\ l.acked = line[c].acked /\ l.accepted = line[c].accepted
      /\ l.seq = line[c].seq /\ l.told = line[c].told /\ l.heard = line[c].heard
      /\ l.gap = line[c].gap /\ l.skipped = line[c].skipped
      /\ l.unreported = line[c].unreported /\ l.found = line[c].found
      /\ l.state = line[c].state
  BY <1>1, NewSent
<1>3. line' = [line EXCEPT ![c] = l]
  BY DEF SendSubscribe
<1> HIDE DEF l
<1>4. /\ line' \in [Conns -> LineType] /\ line'[c] = l
      /\ \A d \in Conns : d # c => line'[d] = line[d]
  BY <1>2, <1>3, NewLine
<1>5. /\ todo' = [todo EXCEPT ![c] = @ - 1] /\ todo[c] \in Nat /\ todo'[c] = todo[c] - 1
      /\ todo' \in [Conns -> Nat] /\ \A d \in Conns : d # c => todo'[d] = todo[d]
  BY DEF SendSubscribe, TypeOK
<1>6. tokens' \in 0 .. BURST_CAPACITY
  BY Threshold DEF SendSubscribe, TakeToken, TypeOK
<1> QED BY <1>1, <1>2, <1>4, <1>5, <1>6 DEF OneMoreSent

\* A send in the middle, the last of a restore and the last of the start-up.
LEMMA SendSubscribeInv ==
    ASSUME SocketsInv, NEW c \in Conns, SendSubscribe(c)
    PROVE  SocketsInv'
<1>1. TypeOK /\ ConnInv(c) /\ ControlInv(c) /\ SentInv(c) /\ HeardInv(c)
  BY DEF SocketsInv, ConnInv
<1>2. /\ stage # "ended" /\ phase[c] = "subscribing" /\ stage \in {"build", "run"}
      /\ UNCHANGED << active, faults, stage, maintenance, keepalive, silent, feedVars, drops >>
      /\ routed' = FALSE
  BY <1>1 DEF SendSubscribe, TypeOK
<1>3. /\ todo[c] > 0 /\ line[c].sent + todo[c] = Len(RequestsOf(c)) /\ line[c].acked = 0
      /\ line[c].accepted \subseteq 1 .. line[c].acked /\ Len(RequestsOf(c)) \in Nat \ {0}
  BY <1>1, <1>2, Requests DEF SentInv, RequestFacts
<1>4. OneMoreSent(c)
  BY <1>1, <1>3, SendsOneMore
<1>5. LineIsNoNews /\ (c # Private => line'[Private] = line[Private])
  <2>1. Private \in Conns /\ line[Private].seq \in Nat
    BY <1>1 DEF Conns, TypeOK, LineType
  <2> QED BY <1>4, <2>1 DEF OneMoreSent, LineIsNoNews
<1>6. CASE todo[c] > 1 /\ UNCHANGED << phase, at, attempt, wake, inProgress >>
  <2>1. TypeOK'
    BY <1>1, <1>2, <1>4, <1>6 DEF TypeOK, OneMoreSent, feedVars
  <2>2. ConnInv(c)'
    <3>1. ControlInv(c)'
      BY <1>1, <1>2, <1>6 DEF ControlInv
    <3>2. SentInv(c)'
      <4>1. /\ phase'[c] = "subscribing" /\ todo'[c] > 0
            /\ line'[c].sent + todo'[c] = Len(RequestsOf(c)) /\ line'[c].acked = 0
            /\ line'[c].accepted \subseteq 1 .. line'[c].acked
            /\ line'[c].acked <= line'[c].sent /\ line'[c].sent <= Len(RequestsOf(c))
        BY <1>2, <1>3, <1>4, <1>6 DEF OneMoreSent
      <4> QED BY <4>1 DEF SentInv, Restored
    <3>3. HeardInv(c)'
      BY <1>1, <1>2, <1>4, <1>6 DEF HeardInv, Restored, OneMoreSent
    <3> QED BY <3>1, <3>2, <3>3 DEF ConnInv
  <2>3. ASSUME NEW d \in Conns, d # c PROVE ConnInv(d)'
    <3>1. Alike(d)
      BY <1>2, <1>4, <1>6, <2>3 DEF Alike, OneMoreSent
    <3> QED BY <3>1, AlikeKeeps DEF SocketsInv
  <2>4. FeedMoves
    <3>1. phase[Private] = "receiving" => line'[Private] = line[Private]
      BY <1>2, <1>5
    <3> QED BY <1>2, <1>5, <1>6, <3>1 DEF FeedMoves, LineIsNoNews
  <2> QED BY <1>1, <2>1, <2>2, <2>3, <2>4, FeedMovesKeeps DEF SocketsInv
<1>7. CASE todo[c] = 1 /\ stage = "run" /\ Advance(c)
  <2>1. /\ at[c] = ResubscribeStep(c) /\ at[c] \in 1 .. Len(SequenceOf(c))
    BY <1>1, <1>2, <1>7, SequenceFacts DEF ControlInv
  <2>2. Advances(c)
    BY <1>1, <1>7, <2>1, AdvanceAdvances
  <2>3. StepDone(c)
    BY <1>2, <1>3, <1>4, <1>7, <2>1 DEF StepDone, OneMoreSent
  <2>4. TypeOK'
    BY <1>1, <1>2, <1>4, <2>2 DEF TypeOK, OneMoreSent, Advances, Phases, feedVars
  <2>5. /\ todo' = [todo EXCEPT ![c] = @ - 1] /\ stage' = "run" /\ active' = active
        /\ UNCHANGED << maintenance, silent >> /\ \A d \in Conns : d # c => line'[d] = line[d]
    BY <1>2, <1>4, <1>7 DEF OneMoreSent
  <2>6. \A d \in Conns : ConnInv(d)'
    BY <1>2, <1>7, <2>1, <2>2, <2>3, <2>4, <2>5, AdvanceInv
  <2>7. FeedMoves
    BY <1>1, <1>2, <1>5, <1>7, <2>1, <2>2, <2>3, <2>5, AdvanceMovesFeed
  <2> QED BY <1>1, <2>4, <2>6, <2>7, FeedMovesKeeps DEF SocketsInv
<1>8. CASE /\ todo[c] = 1 /\ stage = "build" /\ phase' = [phase EXCEPT ![c] = "ready"]
           /\ UNCHANGED << at, attempt, wake, inProgress >>
  <2>1. /\ phase' \in [Conns -> Phases] /\ phase'[c] = "ready"
        /\ \A d \in Conns : d # c => phase'[d] = phase[d]
    BY <1>1, <1>8 DEF TypeOK, Phases
  <2>2. TypeOK'
    BY <1>1, <1>2, <1>4, <1>8, <2>1 DEF TypeOK, OneMoreSent, Phases, feedVars
  <2>3. ConnInv(c)'
    <3>1. ControlInv(c)'
      BY <1>1, <1>2, <1>8, <2>1 DEF ControlInv
    <3>2. SentInv(c)'
      <4>1. /\ phase'[c] = "ready" /\ line'[c].sent = Len(RequestsOf(c)) /\ line'[c].acked = 0
            /\ line'[c].accepted \subseteq 1 .. line'[c].acked /\ line'[c].acked <= line'[c].sent
            /\ line'[c].sent <= Len(RequestsOf(c))
        BY <1>3, <1>4, <1>8, <2>1 DEF OneMoreSent
      <4> QED BY <4>1 DEF SentInv, Restored
    <3>3. HeardInv(c)'
      BY <1>1, <1>2, <1>4, <2>1 DEF HeardInv, Restored, OneMoreSent
    <3> QED BY <3>1, <3>2, <3>3 DEF ConnInv
  <2>4. ASSUME NEW d \in Conns, d # c PROVE ConnInv(d)'
    <3>1. Alike(d)
      BY <1>2, <1>4, <1>8, <2>1, <2>4 DEF Alike, OneMoreSent
    <3> QED BY <3>1, AlikeKeeps DEF SocketsInv
  <2>5. FeedMoves
    <3>1. phase'[Private] = "ready" \/ phase'[Private] = phase[Private]
      BY <2>1 DEF Conns
    <3> QED BY <1>2, <1>5, <1>8, <3>1 DEF FeedMoves, LineIsNoNews
  <2> QED BY <1>1, <2>2, <2>3, <2>4, <2>5, FeedMovesKeeps DEF SocketsInv
<1> QED BY <1>6, <1>7, <1>8 DEF SendSubscribe

-----------------------------------------------------------------------------
(* The start-up. *)

\* The start-up opens a socket.
LEMMA BuildOpenInv ==
    ASSUME SocketsInv, NEW c \in Conns, BuildOpen(c)
    PROVE  SocketsInv'
<1>1. TypeOK /\ ConnInv(c) /\ ControlInv(c) /\ HeardInv(c)
  BY DEF SocketsInv, ConnInv
<1>2. /\ stage = "build" /\ phase[c] = "unopened" /\ c \in active
      /\ phase' = [phase EXCEPT ![c] = "opened"] /\ line' = [line EXCEPT ![c] = Opened]
      /\ keepalive' = [keepalive EXCEPT ![c] = Reset] /\ routed' = FALSE
      /\ UNCHANGED << active, faults, stage, driverVars, maintenance, silent, tokens, feedVars,
                      drops >>
  BY DEF BuildOpen
<1>3. /\ phase' \in [Conns -> Phases] /\ phase'[c] = "opened"
      /\ \A d \in Conns : d # c => phase'[d] = phase[d]
  BY <1>1, <1>2 DEF TypeOK, Phases
<1>4. /\ line' \in [Conns -> LineType] /\ line'[c] = Opened
      /\ \A d \in Conns : d # c => line'[d] = line[d]
  BY <1>1, <1>2, NewLine, FreshLineIsALine DEF TypeOK
<1>5. TypeOK'
  <2>1. keepalive' \in [Conns -> KeepaliveType]
    BY <1>1, <1>2 DEF TypeOK, Reset, KeepaliveType
  <2> QED BY <1>1, <1>2, <1>3, <1>4, <2>1 DEF TypeOK, Phases, KeepaliveType, feedVars, driverVars
<1>6. ConnInv(c)'
  <2>1. ControlInv(c)'
    BY <1>1, <1>2, <1>3 DEF ControlInv, driverVars
  <2>2. SentInv(c)'
    <3>1. Len(RequestsOf(c)) \in Nat
      BY Requests DEF RequestFacts
    <3> QED BY <1>1, <1>3, <1>4, <3>1, FreshLineIsALine DEF SentInv, Restored, TypeOK
  <2>3. HeardInv(c)'
    BY <1>1, <1>2, <1>3 DEF HeardInv, Restored
  <2> QED BY <2>1, <2>2, <2>3 DEF ConnInv
<1>7. ASSUME NEW d \in Conns, d # c PROVE ConnInv(d)'
  <2>1. Alike(d)
    BY <1>2, <1>3, <1>4, <1>7 DEF Alike, driverVars
  <2> QED BY <2>1, AlikeKeeps DEF SocketsInv
<1>8. FeedMoves
  <2>1. LineIsNoNews
    BY <1>1, <1>2, NewLineIsNoNews
  <2>2. phase'[Private] = "opened" \/ phase'[Private] = phase[Private]
    BY <1>3 DEF Conns
  <2> QED BY <1>2, <2>1, <2>2 DEF FeedMoves, LineIsNoNews, driverVars
<1> QED BY <1>1, <1>5, <1>6, <1>7, <1>8, FeedMovesKeeps DEF SocketsInv

\* The start-up begins to subscribe.
LEMMA BuildSubscribeInv ==
    ASSUME SocketsInv, NEW c \in Conns, BuildSubscribe(c)
    PROVE  SocketsInv'
<1>1. TypeOK /\ ConnInv(c) /\ ControlInv(c) /\ HeardInv(c) /\ SentInv(c)
  BY DEF SocketsInv, ConnInv
<1>2. /\ stage = "build" /\ phase[c] = "opened"
      /\ phase' = [phase EXCEPT ![c] = "subscribing"]
      /\ todo' = [todo EXCEPT ![c] = Len(RequestsOf(c))] /\ routed' = FALSE
      /\ UNCHANGED << active, faults, stage, at, attempt, wake, inProgress, maintenance,
                      keepalive, silent, tokens, feedVars, line, drops >>
  BY DEF BuildSubscribe
<1>3. /\ phase' \in [Conns -> Phases] /\ phase'[c] = "subscribing"
      /\ \A d \in Conns : d # c => phase'[d] = phase[d]
  BY <1>1, <1>2 DEF TypeOK, Phases
<1>4. Len(RequestsOf(c)) \in Nat \ {0}
  BY Requests DEF RequestFacts
<1>5. /\ todo' \in [Conns -> Nat] /\ todo'[c] = Len(RequestsOf(c))
      /\ \A d \in Conns : d # c => todo'[d] = todo[d]
  BY <1>1, <1>2, <1>4 DEF TypeOK
<1>6. TypeOK'
  BY <1>1, <1>2, <1>3, <1>5 DEF TypeOK, Phases, feedVars
<1>7. ConnInv(c)'
  <2>1. ControlInv(c)'
    BY <1>1, <1>2, <1>3 DEF ControlInv
  <2>2. SentInv(c)'
    <3>1. line[c].sent = 0 /\ line[c].acked <= line[c].sent
          /\ line[c].accepted \subseteq 1 .. line[c].acked
      BY <1>1, <1>2 DEF SentInv
    <3>2. line[c].acked = 0
      BY <1>1, <3>1 DEF TypeOK, LineType
    <3> QED BY <1>2, <1>3, <1>4, <1>5, <3>1, <3>2 DEF SentInv, Restored
  <2>3. HeardInv(c)'
    BY <1>1, <1>2, <1>3 DEF HeardInv, Restored
  <2> QED BY <2>1, <2>2, <2>3 DEF ConnInv
<1>8. ASSUME NEW d \in Conns, d # c PROVE ConnInv(d)'
  <2>1. Alike(d)
    BY <1>2, <1>3, <1>5, <1>8 DEF Alike
  <2> QED BY <2>1, AlikeKeeps DEF SocketsInv
<1>9. FeedMoves
  <2>1. LineIsNoNews
    BY <1>1, <1>2, SameLineIsNoNews
  <2>2. phase'[Private] = "subscribing" \/ phase'[Private] = phase[Private]
    BY <1>3 DEF Conns
  <2> QED BY <1>2, <2>1, <2>2 DEF FeedMoves, LineIsNoNews
<1> QED BY <1>1, <1>6, <1>7, <1>8, <1>9, FeedMovesKeeps DEF SocketsInv

\* The loops begin to read when every connection has sent its requests.
LEMMA RunInv == ASSUME SocketsInv, Run PROVE SocketsInv'
<1>1. TypeOK /\ FeedInv
  BY DEF SocketsInv
<1>2. /\ stage = "build" /\ stage' = "run" /\ (\A c \in active : phase[c] = "ready")
      /\ phase' = [c \in Conns |-> IF c \in active THEN "receiving" ELSE phase[c]]
      /\ routed' = FALSE
      /\ UNCHANGED << active, faults, driverVars, maintenance, keepalive, silent, tokens,
                      feedVars, line, drops >>
  BY DEF Run
<1>3. TypeOK'
  <2>1. phase' \in [Conns -> Phases]
    BY <1>1, <1>2 DEF TypeOK, Phases
  <2> QED BY <1>1, <1>2, <2>1 DEF TypeOK, Phases, feedVars, driverVars
<1>4. ASSUME NEW d \in Conns PROVE ConnInv(d)'
  <2>1. ControlInv(d) /\ SentInv(d) /\ HeardInv(d)
    BY DEF SocketsInv, ConnInv
  <2>2. CASE d \in active
    <3>1. phase[d] = "ready" /\ phase'[d] = "receiving"
      BY <1>2, <2>2
    <3>2. ControlInv(d)'
      BY <1>2, <2>1, <2>2, <3>1 DEF ControlInv, driverVars
    <3>3. SentInv(d)'
      BY <1>2, <2>1, <3>1 DEF SentInv, Restored
    <3>4. HeardInv(d)'
      BY <1>2, <2>1, <3>1 DEF HeardInv, Restored
    <3> QED BY <3>2, <3>3, <3>4 DEF ConnInv
  <2>3. CASE d \notin active
    <3>1. phase[d] = "unopened" /\ phase'[d] = "unopened"
      BY <1>2, <2>1, <2>3 DEF ControlInv
    <3>2. ControlInv(d)'
      BY <1>2, <2>3, <3>1 DEF ControlInv
    <3>3. SentInv(d)'
      BY <1>2, <2>1, <3>1 DEF SentInv, Restored
    <3>4. HeardInv(d)'
      BY <1>2, <2>1, <3>1 DEF HeardInv, Restored
    <3> QED BY <3>2, <3>3, <3>4 DEF ConnInv
  <2> QED BY <2>2, <2>3
<1>5. FeedMoves
  <2>1. LineIsNoNews
    BY <1>1, <1>2, SameLineIsNoNews
  <2>2. phase'[Private] = "receiving" \/ phase'[Private] = phase[Private]
    BY <1>2 DEF Conns
  <2> QED BY <1>2, <2>1, <2>2 DEF FeedMoves, LineIsNoNews, driverVars
<1> QED BY <1>1, <1>3, <1>4, <1>5, FeedMovesKeeps DEF SocketsInv

\* The invariant holds before anything was opened.
LEMMA SocketsInitInv == ASSUME Init PROVE SocketsInv
<1>1. TypeOK
  <2>1. active \subseteq Conns /\ drops \in Nat
    BY DeploymentsAssumption DEF Init
  <2>2. NoLine \in LineType /\ Reset \in KeepaliveType
    BY FreshLineIsALine DEF Reset, KeepaliveType
  <2>3. /\ tokens \in 0 .. BURST_CAPACITY
        /\ counter \in [ceiling : Nat \cup {Nothing}, value : Nat \cup {Nothing},
                        suppressed : BOOLEAN]
    BY Threshold DEF Init
  <2>4. /\ stage = "build" /\ phase \in [Conns -> Phases]
        /\ at \in [Conns -> Nat] /\ todo \in [Conns -> Nat]
        /\ attempt \in [Conns -> Nat] /\ wake \in [Conns -> Nat]
        /\ inProgress \in [Conns -> {Nothing, "scenario_a", "scenario_b"}]
        /\ maintenance \in [Conns -> BOOLEAN]
    BY DEF Init, Phases
  <2>5. silent \in [Pairs -> PairType]
    BY DEF Init, PairType
  <2>6. keepalive \in [Conns -> KeepaliveType] /\ line \in [Conns -> LineType]
    BY <2>2 DEF Init
  <2>7. routed \in BOOLEAN /\ lastSeq = Nothing /\ balances = Nothing
    BY DEF Init
  <2> QED BY <2>1, <2>3, <2>4, <2>5, <2>6, <2>7 DEF TypeOK, KeepaliveType, PairType, Phases
<1>2. ASSUME NEW c \in Conns PROVE ConnInv(c)
  <2>1. ControlInv(c)
    BY DEF Init, ControlInv
  <2>2. SentInv(c)
    <3>1. Len(RequestsOf(c)) \in Nat
      BY Requests DEF RequestFacts
    <3> QED BY <3>1, FreshLineIsALine DEF Init, SentInv, Restored
  <2>3. HeardInv(c)
    BY PairsOnArePairs DEF Init, HeardInv, Restored
  <2> QED BY <2>1, <2>2, <2>3 DEF ConnInv
<1>3. FeedInv
  BY FreshLineIsALine DEF Init, FeedInv, GapsAreReported, Forgotten, Conns
<1> QED BY <1>1, <1>2, <1>3 DEF SocketsInv

-----------------------------------------------------------------------------
(* The receive loop. *)

\* A loop that begins a reconnect waits, for whatever reason.
LEMMA BeginReconnectSleeps ==
    ASSUME SocketsInv, NEW c \in Conns, NEW reason, stage = "run", UNCHANGED << active, stage >>,
           BeginReconnect(c, reason)
    PROVE  Sleeps(c)
<1>1. TypeOK
  BY DEF SocketsInv
<1>2. /\ phase' = [phase EXCEPT ![c] = "sleeping"]
      /\ inProgress' = [inProgress EXCEPT ![c] = SelectScenario(reason)]
      /\ attempt' = [attempt EXCEPT ![c] = 1]
      /\ wake' = [wake EXCEPT ![c] = ReconnectDelay(SelectScenario(reason), 1)]
      /\ maintenance' = [maintenance EXCEPT ![c] = FALSE]
      /\ line' = [line EXCEPT ![c] = NoLine]
      /\ UNCHANGED << at, todo >>
  BY DEF BeginReconnect, FlagConsumed
<1>3. ReconnectDelay(SelectScenario(reason), 1) \in Nat
  BY DelayIsNat
<1>4. SelectScenario(reason) \in {"scenario_a", "scenario_b"} /\ SelectScenario(reason) # Nothing
  BY ConnectionsAssumption DEF SelectScenario
<1>5. attempt' \in [Conns -> Nat] /\ wake' \in [Conns -> Nat]
  BY <1>1, <1>2, <1>3 DEF TypeOK
<1>6. /\ inProgress' \in [Conns -> {Nothing, "scenario_a", "scenario_b"}] /\ inProgress'[c] # Nothing
      /\ \A d \in Conns : d # c => inProgress'[d] = inProgress[d]
  BY <1>1, <1>2, <1>4 DEF TypeOK
<1>7. /\ maintenance' \in [Conns -> BOOLEAN] /\ ~maintenance'[c]
      /\ \A d \in Conns : d # c => maintenance'[d] = maintenance[d]
  BY <1>1, <1>2 DEF TypeOK
<1> QED BY <1>1, <1>2, <1>5, <1>6, <1>7 DEF Sleeps, TypeOK

\* A loop that meets a closed socket keeps the invariant.
LEMMA ReceiveClosedInv ==
    ASSUME SocketsInv, NEW c \in Conns, Listening(c), ReceiveClosed(c)
    PROVE  SocketsInv'
<1>1. TypeOK
  BY DEF SocketsInv
<1>2. /\ stage = "run" /\ phase[c] = "receiving" /\ routed' = FALSE
      /\ UNCHANGED << active, faults, stage, keepalive, silent, tokens, feedVars, drops >>
  BY DEF Listening, ReceiveClosed
<1>3. Sleeps(c)
  BY <1>2, BeginReconnectSleeps DEF ReceiveClosed
<1>4. TypeOK'
  <2>1. phase' \in [Conns -> Phases]
    BY <1>1, <1>3 DEF TypeOK, Phases, Sleeps
  <2>2. line' \in [Conns -> LineType]
    BY <1>1, <1>3, NewLine, FreshLineIsALine DEF Sleeps
  <2> QED BY <1>1, <1>2, <1>3, <2>1, <2>2 DEF Sleeps, TypeOK, Phases, feedVars
<1>5. \A d \in Conns : ConnInv(d)'
  BY <1>2, <1>3, SleepsKeeps
<1>6. FeedMoves
  BY <1>1, <1>2, <1>3, SleepsMovesFeed
<1> QED BY <1>1, <1>4, <1>5, <1>6, FeedMovesKeeps DEF SocketsInv

\* What a frame may carry.
MessageFacts(c, m) ==
    /\ m.class \in {"none", "heartbeat", "status", "pong", "ack", "data"}
    /\ m.class = "status" => m.system \in {"online", "maintenance"}
    /\ m.class = "ack" =>
           /\ m.request = line[c].acked + 1 /\ m.request \in 1 .. line[c].sent
           /\ m.success \in BOOLEAN
           /\ c = Private => m.maxratecount \in Nat
    /\ m.class = "data" =>
           /\ m.request \in line[c].accepted
           /\ m.value \in Nat \cup {Nothing} /\ m.skip \in {0, 1}
           /\ line[c].state = "open"
    /\ m.class \in {"ack", "data"} => m.request \in 1 .. Len(RequestsOf(c))

\* Every frame a loop may receive is of that kind.
LEMMA Messages ==
    ASSUME SocketsInv, NEW c \in Conns, NEW m \in Deliverable(c)
    PROVE  MessageFacts(c, m)
<1>1. TypeOK /\ SentInv(c)
  BY DEF SocketsInv, ConnInv
<1>2. line[c].acked \in Nat /\ line[c].sent \in Nat
  BY <1>1 DEF TypeOK, LineType
<1>3. /\ line[c].acked <= line[c].sent /\ line[c].sent <= Len(RequestsOf(c))
      /\ line[c].accepted \subseteq 1 .. line[c].acked /\ Len(RequestsOf(c)) \in Nat
  BY <1>1, Requests DEF SentInv, RequestFacts
<1>4. \/ m \in {Message("none"), Message("heartbeat"), Message("pong")}
      \/ m \in [class : {"status"}, system : {"online"} \cup ({"maintenance"} \cap faults)]
      \/ m \in Acks(c)
      \/ m \in Data(c) /\ line[c].state = "open"
  BY DEF Deliverable
<1>5. CASE m \in {Message("none"), Message("heartbeat"), Message("pong")}
  BY <1>5 DEF Message, MessageFacts
<1>6. CASE m \in [class : {"status"}, system : {"online"} \cup ({"maintenance"} \cap faults)]
  BY <1>6 DEF MessageFacts
<1>7. CASE m \in Acks(c)
  <2>1. line[c].acked # line[c].sent
    BY <1>7 DEF Acks
  <2>2. /\ m.class = "ack" /\ m.success \in BOOLEAN /\ m.request = line[c].acked + 1
        /\ c = Private => m.maxratecount \in Ceilings
    BY <1>7, <2>1 DEF Acks
  <2>3. m.request \in 1 .. line[c].sent /\ m.request \in 1 .. Len(RequestsOf(c))
    BY <1>2, <1>3, <2>1, <2>2
  <2>4. c = Private => m.maxratecount \in Nat
    BY <2>2, ConnectionsAssumption
  <2> QED BY <2>2, <2>3, <2>4 DEF MessageFacts
<1>8. CASE m \in Data(c) /\ line[c].state = "open"
  <2>1. /\ m.class = "data" /\ m.request \in line[c].accepted
        /\ m.value \in RateValues \cup {Nothing} /\ m.skip \in {0, 1}
    BY <1>8 DEF Data
  <2>2. m.value \in Nat \cup {Nothing} /\ m.skip \in {0, 1}
    <3>1. RateValues \subseteq Nat
      BY ConnectionsAssumption
    <3> QED BY <2>1, <3>1
  <2>3. m.request \in 1 .. Len(RequestsOf(c))
    BY <1>2, <1>3, <2>1
  <2> QED BY <1>8, <2>1, <2>2, <2>3 DEF MessageFacts
<1> QED BY <1>4, <1>5, <1>6, <1>7, <1>8

\* The channel and the pair of a frame.
LEMMA Channels ==
    ASSUME NEW c \in Conns, NEW m, MessageFacts(c, m), m.class \in {"ack", "data"}
    PROVE  /\ SymbolOf(c, m) \in Pairs \cup {"none"}
           /\ c # Private => ChannelOf(c, m) \in {"instrument", "ohlc_5m", "ticker"}
           /\ ChannelOf(c, m) \in PerPairData => c # Private /\ SymbolOf(c, m) \in PairsOn(c)
           /\ ChannelOf(c, m) \in {"executions", "balances"} => c = Private
           /\ ChannelOf(c, m) = "executions" => m.request = 1
<1>1. m.request \in 1 .. Len(RequestsOf(c)) /\ RequestFacts(c)
  BY Requests DEF MessageFacts
<1> QED BY <1>1 DEF RequestFacts, SymbolOf, ChannelOf, PerPairData

\* What a frame does to the line, to the keepalive and to the flag.
LineFacts(l, c, m) ==
    /\ l \in LineType
    /\ l.sent = line[c].sent /\ l.acked <= l.sent /\ l.accepted \subseteq 1 .. l.acked
    /\ line[c].accepted \subseteq l.accepted
    /\ MaintenanceAfter(c, m) => l.told
    /\ line[c].heard \subseteq l.heard
    /\ c # Private /\ m.class = "data" => SymbolOf(c, m) \in l.heard

\* A ping changes nothing else of a line.
LEMMA PingedLine ==
    ASSUME NEW l \in LineType, NEW b \in BOOLEAN
    PROVE  LET n == [l EXCEPT !.pings = b] IN
              /\ n \in LineType /\ n.sent = l.sent /\ n.acked = l.acked
              /\ n.accepted = l.accepted /\ n.told = l.told /\ n.heard = l.heard
              /\ n.seq = l.seq /\ n.gap = l.gap
              /\ n.skipped = l.skipped /\ n.snapshot = l.snapshot
              /\ n.unreported = l.unreported /\ n.found = l.found /\ n.state = l.state
BY DEF LineType

\* What a frame does to what the feed knows of the line.
UnreportedAfter(c, m) ==
    IF m.skip > 0 /\ ~GapAt(lastSeq, SequenceAt(c, m))
    THEN line[c].unreported \cup {SequenceAt(c, m)} ELSE line[c].unreported
FeedFacts(l, c, m) ==
    /\ l.found = line[c].found /\ l.state = line[c].state
    /\ IF Arrives(c, m, "executions")
       THEN l.unreported = UnreportedAfter(c, m) ELSE l.unreported = line[c].unreported
    /\ IF Arrives(c, m, "executions")
       THEN /\ l.seq = SequenceAt(c, m) /\ l.seq \in Nat
            /\ l.skipped = (line[c].skipped \/ m.skip > 0)
            /\ l.gap = (line[c].gap \/ GapAt(lastSeq, SequenceAt(c, m)))
            /\ l.snapshot = line[c].snapshot
       ELSE /\ l.seq = line[c].seq /\ l.skipped = line[c].skipped /\ l.gap = line[c].gap
            /\ l.snapshot = (line[c].snapshot \/ Arrives(c, m, "balances"))

\* Every frame leaves such a line.
LEMMA LineAfterFacts ==
    ASSUME SocketsInv, NEW c \in Conns, NEW m \in Deliverable(c), Listening(c)
    PROVE  LineFacts(LineAfter(c, m), c, m) /\ FeedFacts(LineAfter(c, m), c, m)
<1>1. TypeOK /\ SentInv(c) /\ HeardInv(c) /\ MessageFacts(c, m)
  BY Messages DEF SocketsInv, ConnInv
<1>2. /\ line[c] \in LineType /\ line[c].acked \in Nat /\ line[c].sent \in Nat
      /\ line[c].seq \in Nat /\ line[c].heard \subseteq Pairs \cup {"none"}
      /\ line[c].told \in BOOLEAN /\ line[c].gap \in BOOLEAN /\ line[c].skipped \in BOOLEAN
      /\ line[c].snapshot \in BOOLEAN /\ line[c].unreported \in SUBSET Nat
  BY <1>1 DEF TypeOK, LineType
<1>3. /\ line[c].acked <= line[c].sent
          /\ line[c].accepted \subseteq 1 .. line[c].acked
      /\ maintenance[c] => line[c].told
  BY <1>1 DEF SentInv, HeardInv
<1> DEFINE l == LineAfter(c, m)
<1>4. CASE m.class = "pong"
  <2>1. l = [line[c] EXCEPT !.pings = FALSE]
    BY <1>4 DEF LineAfter
  <2> HIDE DEF l
  <2>2. /\ l \in LineType /\ l.sent = line[c].sent /\ l.acked = line[c].acked
        /\ l.accepted = line[c].accepted /\ l.told = line[c].told /\ l.heard = line[c].heard
        /\ l.seq = line[c].seq /\ l.gap = line[c].gap
        /\ l.skipped = line[c].skipped /\ l.snapshot = line[c].snapshot
        /\ l.unreported = line[c].unreported /\ l.found = line[c].found
        /\ l.state = line[c].state
    BY <1>2, <2>1, PingedLine
  <2>3. LineFacts(l, c, m)
    BY <1>2, <1>3, <1>4, <2>2 DEF LineFacts, MaintenanceAfter
  <2>4. FeedFacts(l, c, m)
    BY <1>2, <1>4, <2>2 DEF FeedFacts, Arrives
  <2> QED BY <2>3, <2>4 DEF l
<1>5. CASE m.class = "status"
  <2>1. l = [line[c] EXCEPT !.told = (m.system = "maintenance")]
    BY <1>5 DEF LineAfter
  <2> HIDE DEF l
  <2> DEFINE b == m.system = "maintenance"
  <2>2. /\ l \in LineType /\ l.sent = line[c].sent /\ l.acked = line[c].acked
        /\ l.accepted = line[c].accepted /\ l.told = b /\ l.heard = line[c].heard
        /\ l.seq = line[c].seq /\ l.gap = line[c].gap
        /\ l.skipped = line[c].skipped /\ l.snapshot = line[c].snapshot
        /\ l.unreported = line[c].unreported /\ l.found = line[c].found
        /\ l.state = line[c].state
    <3>1. b \in BOOLEAN
      OBVIOUS
    <3> HIDE DEF b
    <3>2. l = [line[c] EXCEPT !.told = b]
      BY <2>1 DEF b
    <3> DEFINE z == line[c]
    <3>3. z \in LineType /\ l = [z EXCEPT !.told = b]
      BY <1>2, <3>2
    <3> HIDE DEF z
    <3>4. /\ l \in LineType /\ l.sent = z.sent /\ l.acked = z.acked
          /\ l.accepted = z.accepted /\ l.told = b /\ l.heard = z.heard
          /\ l.seq = z.seq /\ l.gap = z.gap /\ l.skipped = z.skipped /\ l.snapshot = z.snapshot
          /\ l.unreported = z.unreported /\ l.found = z.found /\ l.state = z.state
      BY <3>1, <3>3 DEF LineType
    <3> QED BY <3>4 DEF z
  <2>3. LineFacts(l, c, m)
    BY <1>2, <1>3, <1>5, <2>2 DEF LineFacts, MaintenanceAfter
  <2>4. FeedFacts(l, c, m)
    BY <1>2, <1>5, <2>2 DEF FeedFacts, Arrives
  <2> QED BY <2>3, <2>4 DEF l
<1>6. CASE m.class = "ack"
  <2> DEFINE r == m.request
             a == IF m.success THEN line[c].accepted \cup {r} ELSE line[c].accepted
  <2>1. l = [line[c] EXCEPT !.acked = r, !.accepted = a]
    BY <1>6 DEF LineAfter
  <2>2. m.request = line[c].acked + 1 /\ m.request \in 1 .. line[c].sent /\ m.success \in BOOLEAN
        /\ m.request \in Nat
    BY <1>1, <1>2, <1>6 DEF MessageFacts
  <2> HIDE DEF l
  <2>3. /\ l \in LineType /\ l.sent = line[c].sent /\ l.acked = r /\ l.accepted = a
        /\ l.told = line[c].told /\ l.heard = line[c].heard
        /\ l.seq = line[c].seq /\ l.gap = line[c].gap
        /\ l.skipped = line[c].skipped /\ l.snapshot = line[c].snapshot
        /\ l.unreported = line[c].unreported /\ l.found = line[c].found
        /\ l.state = line[c].state
    <3>1. r \in Nat /\ a \in SUBSET Nat
      BY <1>3, <2>2
    <3> HIDE DEF r, a
    <3> DEFINE z == line[c]
    <3>2. z \in LineType /\ l = [z EXCEPT !.acked = r, !.accepted = a]
      BY <1>2, <2>1
    <3> HIDE DEF z
    <3>3. /\ l \in LineType /\ l.sent = z.sent /\ l.acked = r
          /\ l.accepted = a /\ l.told = z.told /\ l.heard = z.heard
          /\ l.seq = z.seq /\ l.gap = z.gap /\ l.skipped = z.skipped /\ l.snapshot = z.snapshot
          /\ l.unreported = z.unreported /\ l.found = z.found /\ l.state = z.state
      BY <3>1, <3>2 DEF LineType
    <3> QED BY <3>3 DEF z
  <2>4. l.acked <= l.sent /\ l.accepted \subseteq 1 .. l.acked
        /\ line[c].accepted \subseteq l.accepted
    BY <1>2, <1>3, <2>2, <2>3
  <2>5. LineFacts(l, c, m)
    BY <1>3, <1>6, <2>3, <2>4 DEF LineFacts, MaintenanceAfter
  <2>6. FeedFacts(l, c, m)
    BY <1>2, <1>6, <2>3 DEF FeedFacts, Arrives
  <2> QED BY <2>5, <2>6 DEF l
<1>7. CASE m.class = "data"
  <2> DEFINE h == IF c = Private THEN line[c].heard ELSE line[c].heard \cup {SymbolOf(c, m)}
             s == line[c].snapshot \/ ChannelOf(c, m) = "balances"
             q == IF ChannelOf(c, m) = "executions" THEN SequenceAt(c, m) ELSE line[c].seq
             k == line[c].skipped \/ (ChannelOf(c, m) = "executions" /\ m.skip > 0)
             g == line[c].gap \/ (ChannelOf(c, m) = "executions"
                                  /\ GapAt(lastSeq, SequenceAt(c, m)))
             u == IF ChannelOf(c, m) = "executions" THEN UnreportedAfter(c, m)
                  ELSE line[c].unreported
  <2>1. l = [line[c] EXCEPT !.heard = h, !.snapshot = s, !.seq = q, !.skipped = k, !.gap = g,
                            !.unreported = u]
    BY <1>7 DEF LineAfter, UnreportedAfter
  <2>2. SequenceAt(c, m) \in Nat
    BY <1>1, <1>2, <1>7 DEF SequenceAt, MessageFacts
  <2>3. /\ h \in SUBSET (Pairs \cup {"none"}) /\ s \in BOOLEAN /\ q \in Nat /\ k \in BOOLEAN
        /\ g \in BOOLEAN /\ u \in SUBSET Nat
    <3>1. SymbolOf(c, m) \in Pairs \cup {"none"}
      BY <1>1, <1>7, Channels
    <3> QED BY <1>2, <2>2, <3>1 DEF GapAt, UnreportedAfter
  <2>4. /\ line[c].heard \subseteq h /\ (c # Private => SymbolOf(c, m) \in h)
    OBVIOUS
  <2>5. IF ChannelOf(c, m) = "executions"
        THEN /\ q = SequenceAt(c, m) /\ k = (line[c].skipped \/ m.skip > 0)
             /\ g = (line[c].gap \/ GapAt(lastSeq, SequenceAt(c, m))) /\ s = line[c].snapshot
             /\ u = UnreportedAfter(c, m)
        ELSE /\ q = line[c].seq /\ k = line[c].skipped /\ g = line[c].gap
             /\ u = line[c].unreported
             /\ s = (line[c].snapshot \/ ChannelOf(c, m) = "balances")
    BY <1>2
  <2> HIDE DEF l, h, s, q, k, g, u
  <2>6. /\ l \in LineType /\ l.sent = line[c].sent /\ l.acked = line[c].acked
        /\ l.accepted = line[c].accepted /\ l.told = line[c].told /\ l.heard = h
        /\ l.snapshot = s /\ l.seq = q /\ l.skipped = k /\ l.gap = g
        /\ l.unreported = u /\ l.found = line[c].found /\ l.state = line[c].state
    <3> DEFINE z == line[c]
    <3>1. z \in LineType
      BY <1>2
    <3>2. l = [z EXCEPT !.heard = h, !.snapshot = s, !.seq = q, !.skipped = k, !.gap = g,
                        !.unreported = u]
      BY <2>1
    <3> HIDE DEF z
    <3>3. /\ l \in LineType /\ l.sent = z.sent /\ l.acked = z.acked
          /\ l.accepted = z.accepted /\ l.told = z.told /\ l.heard = h
          /\ l.snapshot = s /\ l.seq = q /\ l.skipped = k /\ l.gap = g
          /\ l.unreported = u /\ l.found = z.found /\ l.state = z.state
      BY <2>3, <3>1, <3>2 DEF LineType
    <3> QED BY <3>3 DEF z
  <2>7. LineFacts(l, c, m)
    BY <1>2, <1>3, <1>7, <2>4, <2>6 DEF LineFacts, MaintenanceAfter
  <2>8. FeedFacts(l, c, m)
    <3>1. Arrives(c, m, "executions") = (ChannelOf(c, m) = "executions")
      BY <1>7 DEF Arrives
    <3>2. Arrives(c, m, "balances") = (ChannelOf(c, m) = "balances")
      BY <1>7 DEF Arrives
    <3> QED BY <2>2, <2>5, <2>6, <3>1, <3>2 DEF FeedFacts
  <2> QED BY <2>7, <2>8 DEF l
<1>8. CASE m.class \in {"none", "heartbeat"}
  <2>1. l = line[c]
    BY <1>8 DEF LineAfter
  <2> HIDE DEF l
  <2>2. LineFacts(l, c, m)
    BY <1>2, <1>3, <1>8, <2>1 DEF LineFacts, MaintenanceAfter
  <2>3. FeedFacts(l, c, m)
    BY <1>2, <1>8, <2>1 DEF FeedFacts, Arrives
  <2> QED BY <2>2, <2>3 DEF l
<1> QED BY <1>1, <1>4, <1>5, <1>6, <1>7, <1>8 DEF MessageFacts

\* A frame leaves a keepalive and a flag.
LEMMA OtherAfterFacts ==
    ASSUME SocketsInv, NEW c \in Conns, NEW m \in Deliverable(c)
    PROVE  KeepaliveAfter(c, m) \in KeepaliveType /\ MaintenanceAfter(c, m) \in BOOLEAN
<1>1. TypeOK /\ MessageFacts(c, m)
  BY Messages DEF SocketsInv
<1>2. keepalive[c] \in KeepaliveType /\ maintenance[c] \in BOOLEAN
  BY <1>1 DEF TypeOK, KeepaliveType
<1>3. KeepaliveAfter(c, m) \in KeepaliveType
  BY <1>2 DEF KeepaliveAfter, MarkPong, MarkRealData, KeepaliveType
<1>4. MaintenanceAfter(c, m) \in BOOLEAN
  BY <1>1, <1>2 DEF MaintenanceAfter, MessageFacts
<1> QED BY <1>3, <1>4

\* The machines of the pairs: only those of the connection move, and one is ready
\* only if it was or if this frame was its data.
PairFacts(c, m) ==
    /\ silent' \in [Pairs -> PairType]
    /\ \A p \in Pairs : p \notin PairsOn(c) => silent'[p] = silent[p]
    /\ \A p \in PairsOn(c) :
           silent'[p].state = "data_ready" =>
               \/ silent[p].state = "data_ready"
               \/ m.class = "data" /\ c # Private /\ p = SymbolOf(c, m)

\* The steps of the machine of a pair, and which of them make it ready.
LEMMA EvaluateTypes ==
    ASSUME NEW r \in PairType
    PROVE  /\ Evaluate(r) \in PairType
           /\ Evaluate(r).state = "data_ready" => r.state = "data_ready"
           /\ MarkSubscribed(r) \in PairType /\ MarkSubscribed(r).state # "data_ready"
           /\ MarkData(r) \in PairType
BY DEF Evaluate, MarkSubscribed, MarkData, PairType

\* Every frame and the timers after it leave such machines.
LEMMA SilentAfterFacts ==
    ASSUME SocketsInv, NEW c \in Conns, NEW m \in Deliverable(c),
           silent' = [p \in Pairs |-> IF p \in PairsOn(c) THEN Evaluate(SilentAfter(c, m)[p])
                                      ELSE SilentAfter(c, m)[p]]
    PROVE  PairFacts(c, m)
<1>1. TypeOK /\ MessageFacts(c, m)
  BY Messages DEF SocketsInv
<1>2. silent \in [Pairs -> PairType]
  BY <1>1 DEF TypeOK, PairType
<1>3. /\ SilentAfter(c, m) \in [Pairs -> PairType]
      /\ \A p \in Pairs : p \notin PairsOn(c) => SilentAfter(c, m)[p] = silent[p]
      /\ \A p \in PairsOn(c) :
             SilentAfter(c, m)[p].state = "data_ready" =>
                 \/ silent[p].state = "data_ready"
                 \/ m.class = "data" /\ c # Private /\ p = SymbolOf(c, m)
  <2> DEFINE x == SymbolOf(c, m)
  <2>1. CASE m.class = "ack" /\ m.success /\ SymbolOf(c, m) \in PairsOn(c)
    <3>1. x \in PairsOn(c) /\ x \in Pairs
      BY <2>1, PairsOnArePairs
    <3>2. SilentAfter(c, m) = [silent EXCEPT ![x] = MarkSubscribed(silent[x])]
      BY <2>1 DEF SilentAfter
    <3>3. MarkSubscribed(silent[x]) \in PairType /\ MarkSubscribed(silent[x]).state # "data_ready"
      BY <1>2, <3>1, EvaluateTypes
    <3> HIDE DEF x
    <3> QED BY <1>2, <3>1, <3>2, <3>3, PairsOnArePairs
  <2>2. CASE m.class = "data" /\ ChannelOf(c, m) \in PerPairData
    <3>1. x \in PairsOn(c) /\ x \in Pairs /\ c # Private
      BY <1>1, <2>2, PairsOnArePairs, Channels
    <3>2. SilentAfter(c, m) = [silent EXCEPT ![x] = MarkData(silent[x])]
      BY <2>2 DEF SilentAfter
    <3>3. MarkData(silent[x]) \in PairType
      BY <1>2, <3>1, EvaluateTypes
    <3>4. /\ SilentAfter(c, m) \in [Pairs -> PairType]
          /\ \A p \in Pairs : p # x => SilentAfter(c, m)[p] = silent[p]
      <4> HIDE DEF x
      <4> QED BY <1>2, <3>1, <3>2, <3>3
    <3> QED BY <2>2, <3>1, <3>4, PairsOnArePairs
  <2>3. CASE /\ ~(m.class = "ack" /\ m.success /\ SymbolOf(c, m) \in PairsOn(c))
             /\ ~(m.class = "data" /\ ChannelOf(c, m) \in PerPairData)
    <3>1. SilentAfter(c, m) = silent
      BY <2>3 DEF SilentAfter
    <3> QED BY <1>2, <3>1
  <2> QED BY <2>1, <2>2, <2>3
<1>4. silent' \in [Pairs -> PairType]
  BY <1>3, EvaluateTypes
<1>5. ASSUME NEW p \in Pairs, p \notin PairsOn(c) PROVE silent'[p] = silent[p]
  BY <1>3, <1>5
<1>6. ASSUME NEW p \in PairsOn(c), silent'[p].state = "data_ready"
      PROVE  \/ silent[p].state = "data_ready"
             \/ m.class = "data" /\ c # Private /\ p = SymbolOf(c, m)
  <2>1. p \in Pairs /\ SilentAfter(c, m)[p] \in PairType
    BY <1>3, PairsOnArePairs
  <2>2. silent'[p] = Evaluate(SilentAfter(c, m)[p])
    BY <2>1
  <2>3. SilentAfter(c, m)[p].state = "data_ready"
    BY <1>6, <2>1, <2>2, EvaluateTypes
  <2> QED BY <1>3, <2>3
<1> QED BY <1>4, <1>5, <1>6 DEF PairFacts

\* A share of the ceiling that is above the higher percentage is above the lower one.
LEMMA AboveWarning ==
    ASSUME NEW v \in Nat, NEW n \in Nat, Above(v, n, CriticalPct)
    PROVE  Above(v, n, WarningPct)
<1>1. \A a \in Nat, b \in Nat, x \in Nat : a <= b => x * a <= x * b
  OBVIOUS
<1>2. n * WarningPct <= n * CriticalPct
  BY <1>1, ConnectionsAssumption
<1>3. n * WarningPct \in Nat /\ n * CriticalPct \in Nat /\ v * 100 \in Nat
  BY ConnectionsAssumption
<1> QED BY <1>2, <1>3 DEF Above

CounterType ==
    [ceiling : Nat \cup {Nothing}, value : Nat \cup {Nothing}, suppressed : BOOLEAN]

\* The latch agrees with the value that was last observed under this ceiling.
Latch(r) ==
    r.ceiling # Nothing =>
        /\ r.suppressed => r.value # Nothing /\ Above(r.value, r.ceiling, WarningPct)
        /\ r.value # Nothing /\ Above(r.value, r.ceiling, CriticalPct) => r.suppressed

\* An observed value leaves the latch in agreement with it.
LEMMA ObserveLatches ==
    ASSUME NEW r \in CounterType, NEW v \in Nat
    PROVE  Observe(r, v) \in CounterType /\ Latch(Observe(r, v))
<1>1. v # Nothing
  BY ConnectionsAssumption
<1>2. CASE r.ceiling = Nothing
  <2>1. Observe(r, v) = [r EXCEPT !.value = v, !.suppressed = @]
    BY <1>2 DEF Observe
  <2> QED BY <1>2, <2>1 DEF CounterType, Latch
<1>3. CASE r.ceiling # Nothing
  <2> DEFINE critical == Above(v, r.ceiling, CriticalPct)
             warning == Above(v, r.ceiling, WarningPct)
             s == critical \/ (r.suppressed /\ warning)
             n == Observe(r, v)
  <2>1. r.ceiling \in Nat
    BY <1>3 DEF CounterType
  <2>2. critical => warning
    BY <2>1, AboveWarning
  <2>3. n = [r EXCEPT !.value = v, !.suppressed = s]
    BY <1>3 DEF Observe
  <2>4. s \in BOOLEAN /\ (s => warning) /\ (critical => s)
    BY <2>2 DEF Above
  <2> HIDE DEF s, n
  <2>5. n \in CounterType /\ n.ceiling = r.ceiling /\ n.value = v /\ n.suppressed = s
    BY <2>3, <2>4 DEF CounterType
  <2> QED BY <1>1, <2>4, <2>5 DEF Latch, n
<1> QED BY <1>2, <1>3

\* So does a ceiling that is set before any value was seen.
LEMMA SetCeilingLatches ==
    ASSUME NEW r \in CounterType, NEW n \in Nat, r.value = Nothing, ~r.suppressed
    PROVE  SetCeiling(r, n) \in CounterType /\ Latch(SetCeiling(r, n))
BY DEF SetCeiling, CounterType, Latch

\* The feed of a connection that is not the private one.
LEMMA PublicFeed ==
    ASSUME NEW c \in Conns, c # Private, NEW m, MessageFacts(c, m)
    PROVE  /\ CounterAfter(c, m) = counter /\ LastSeqAfter(c, m) = lastSeq
           /\ BalancesAfter(c, m) = balances
<1>1. m.class \in {"ack", "data"} => ChannelOf(c, m) \notin {"executions", "balances"}
  BY Channels
<1>2. ~Arrives(c, m, "executions") /\ ~Arrives(c, m, "balances")
  BY <1>1 DEF Arrives
<1> QED BY <1>1, <1>2 DEF CounterAfter, LastSeqAfter, BalancesAfter

\* What a private frame makes of the feed, given the line l it leaves.
FeedAfter(l, m) ==
    /\ CounterAfter(Private, m) \in CounterType
    /\ LastSeqAfter(Private, m) \in Nat \cup {Nothing}
    /\ BalancesAfter(Private, m) \in {Nothing, "seen"}
    /\ LastSeqAfter(Private, m) # Nothing => LastSeqAfter(Private, m) >= l.seq
    /\ l.gap => l.skipped
    /\ \A n \in l.unreported : n <= Blind(l) + 1
    /\ l.state # "closed" => LastSeqAfter(Private, m) = WatermarkOn(l)
    /\ BalancesAfter(Private, m) # Nothing => l.snapshot
    /\ 1 \notin l.accepted =>
           CounterAfter(Private, m).value = Nothing /\ ~CounterAfter(Private, m).suppressed
    /\ Latch(CounterAfter(Private, m))

\* A private frame leaves the feed as its socket says.
LEMMA PrivateFeed ==
    ASSUME SocketsInv, NEW m \in Deliverable(Private), Listening(Private), NEW l,
           l = LineAfter(Private, m)
    PROVE  FeedAfter(l, m)
<1>1. TypeOK /\ SentInv(Private) /\ FeedInv /\ MessageFacts(Private, m) /\ Private \in Conns
  BY Messages DEF SocketsInv, ConnInv, Conns
<1>2. LineFacts(l, Private, m) /\ FeedFacts(l, Private, m)
  BY <1>1, LineAfterFacts
<1>3. /\ stage = "run" /\ phase[Private] = "receiving"
      /\ line[Private].seq \in Nat /\ line[Private].acked \in Nat
      /\ counter \in CounterType /\ lastSeq \in Nat \cup {Nothing}
      /\ balances \in {Nothing, "seen"}
  BY <1>1 DEF Listening, TypeOK, LineType, CounterType
<1>4. /\ lastSeq # Nothing => lastSeq >= line[Private].seq
      /\ line[Private].gap => line[Private].skipped
      /\ \A n \in line[Private].unreported : n <= Blind(line[Private]) + 1
      /\ line[Private].state # "closed" => lastSeq = WatermarkOn(line[Private])
      /\ balances # Nothing => line[Private].snapshot
      /\ 1 \notin line[Private].accepted => Forgotten
      /\ Latch(counter)
  BY <1>1, <1>3 DEF FeedInv, GapsAreReported, Latch
<1>5. CASE Arrives(Private, m, "executions")
  <2> DEFINE q == SequenceAt(Private, m)
  <2>1. /\ m.class = "data" /\ m.request = 1 /\ 1 \in line[Private].accepted
        /\ m.value \in Nat \cup {Nothing} /\ m.skip \in Nat /\ q = line[Private].seq + 1 + m.skip
        /\ q \in Nat
    BY <1>1, <1>3, <1>5, Channels DEF Arrives, MessageFacts, SequenceAt
  <2>2. 1 \in l.accepted
    BY <1>2, <2>1 DEF LineFacts
  <2>3. ~Arrives(Private, m, "balances")
    BY <1>5 DEF Arrives
  <2>4. l.seq = q /\ l.skipped = (line[Private].skipped \/ m.skip > 0)
        /\ l.gap = (line[Private].gap \/ GapAt(lastSeq, q)) /\ l.snapshot = line[Private].snapshot
    BY <1>2, <1>5 DEF FeedFacts
  <2>5. l.gap => l.skipped
    <3>1. GapAt(lastSeq, q) => m.skip > 0
      BY <1>3, <1>4, <2>1 DEF GapAt
    <3> QED BY <1>4, <2>4, <3>1
  <2>6. /\ LastSeqAfter(Private, m) \in Nat /\ LastSeqAfter(Private, m) >= l.seq
    <3>1. LastSeqAfter(Private, m) = Watermark(lastSeq, q)
      BY <1>5 DEF LastSeqAfter
    <3> HIDE DEF q
    <3> QED BY <1>3, <2>1, <2>4, <3>1 DEF Watermark
  <2>7. BalancesAfter(Private, m) = balances
    BY <2>3 DEF BalancesAfter
  <2>8. CounterAfter(Private, m) \in CounterType /\ Latch(CounterAfter(Private, m))
    <3>1. CASE m.value = Nothing
      <4>1. CounterAfter(Private, m) = counter
        BY <2>1, <3>1 DEF CounterAfter
      <4> QED BY <1>3, <1>4, <4>1
    <3>2. CASE m.value # Nothing
      <4>1. CounterAfter(Private, m) = Observe(counter, m.value)
        BY <1>5, <2>1, <3>2 DEF CounterAfter
      <4> QED BY <1>3, <2>1, <3>2, <4>1, ObserveLatches
    <3> QED BY <3>1, <3>2
  <2>9. /\ \A n \in l.unreported : n <= Blind(l) + 1
        /\ l.state # "closed" => LastSeqAfter(Private, m) = WatermarkOn(l)
    <3> DEFINE z == line[Private]
    <3>1. /\ z.found \in Nat \cup {Nothing} /\ z.seq \in Nat /\ z.unreported \in SUBSET Nat
          /\ z.state # "closed"
      <4>1. z \in LineType
        BY <1>1 DEF TypeOK
      <4>2. z.state # "closed"
        BY <1>1, <1>5 DEF MessageFacts, Arrives
      <4> QED BY <4>1, <4>2 DEF LineType
    <3>2. /\ l.found = z.found /\ l.state = z.state
          /\ l.unreported = IF m.skip > 0 /\ ~GapAt(lastSeq, q) THEN z.unreported \cup {q}
                             ELSE z.unreported
      BY <1>2, <1>5 DEF FeedFacts, UnreportedAfter
    <3>3. /\ lastSeq = WatermarkOn(z) /\ \A n \in z.unreported : n <= Blind(z) + 1
      BY <1>4, <3>1
    <3>4. l.seq = q /\ LastSeqAfter(Private, m) = Watermark(lastSeq, q)
      BY <1>5, <2>4 DEF LastSeqAfter
    <3>5. q = z.seq + 1 + m.skip /\ q \in Nat /\ m.skip \in {0, 1}
      BY <1>1, <2>1 DEF MessageFacts
    <3>6. Blind(l) = Blind(z)
      BY <3>2 DEF Blind
    <3> HIDE DEF z, q
    <3>7. m.skip > 0 /\ ~GapAt(lastSeq, q) => q <= Blind(z) + 1
      BY <1>3, <3>1, <3>3, <3>5, ConnectionsAssumption DEF GapAt, Blind, WatermarkOn
    <3>8. \A n \in l.unreported : n <= Blind(l) + 1
      BY <3>2, <3>3, <3>6, <3>7
    <3>9. Watermark(lastSeq, q) = WatermarkOn(l)
      BY <1>3, <3>1, <3>2, <3>3, <3>4, <3>5, ConnectionsAssumption DEF Watermark, WatermarkOn
    <3> QED BY <3>4, <3>8, <3>9
  <2> QED BY <1>3, <1>4, <2>2, <2>4, <2>5, <2>6, <2>7, <2>8, <2>9 DEF FeedAfter
<1>6. CASE ~Arrives(Private, m, "executions")
  <2>1. LastSeqAfter(Private, m) = lastSeq
    BY <1>6 DEF LastSeqAfter
  <2>2. /\ l.seq = line[Private].seq /\ l.skipped = line[Private].skipped
        /\ l.gap = line[Private].gap /\ l.unreported = line[Private].unreported
        /\ l.found = line[Private].found /\ l.state = line[Private].state
        /\ l.snapshot = (line[Private].snapshot \/ Arrives(Private, m, "balances"))
        /\ line[Private].accepted \subseteq l.accepted
    BY <1>2, <1>6 DEF FeedFacts, LineFacts
  <2>3. BalancesAfter(Private, m) \in {Nothing, "seen"}
        /\ (BalancesAfter(Private, m) # Nothing => l.snapshot)
    BY <1>3, <1>4, <2>2 DEF BalancesAfter
  <2>4. /\ CounterAfter(Private, m) \in CounterType /\ Latch(CounterAfter(Private, m))
        /\ 1 \notin l.accepted =>
               CounterAfter(Private, m).value = Nothing /\ ~CounterAfter(Private, m).suppressed
    <3>1. CASE m.class = "ack" /\ m.success /\ ChannelOf(Private, m) = "executions"
      <4>1. CounterAfter(Private, m) = SetCeiling(counter, m.maxratecount)
        BY <1>6, <3>1 DEF CounterAfter
      <4>2. m.request = 1 /\ m.maxratecount \in Nat /\ m.request = line[Private].acked + 1
        BY <1>1, <3>1, Channels DEF MessageFacts
      <4>3. 1 \notin line[Private].accepted
        <5>1. line[Private].accepted \subseteq 1 .. line[Private].acked
          BY <1>1 DEF SentInv
        <5> QED BY <1>3, <4>2, <5>1
      <4>4. counter.value = Nothing /\ ~counter.suppressed
        BY <1>4, <4>3 DEF Forgotten
      <4>5. 1 \in l.accepted
        <5>1. l = [line[Private] EXCEPT !.acked = m.request, !.accepted = @ \cup {m.request}]
          BY <3>1 DEF LineAfter
        <5>2. line[Private] \in LineType
          BY <1>1 DEF TypeOK
        <5> QED BY <4>2, <5>1, <5>2 DEF LineType
      <4> QED BY <1>3, <4>1, <4>2, <4>4, <4>5, SetCeilingLatches
    <3>2. CASE ~(m.class = "ack" /\ m.success /\ ChannelOf(Private, m) = "executions")
      <4>1. CounterAfter(Private, m) = counter
        BY <1>6, <3>2 DEF CounterAfter
      <4> QED BY <1>3, <1>4, <2>2, <4>1 DEF Forgotten
    <3> QED BY <3>1, <3>2
  <2>5. Blind(l) = Blind(line[Private]) /\ WatermarkOn(l) = WatermarkOn(line[Private])
    BY <2>2 DEF Blind, WatermarkOn
  <2> QED BY <1>3, <1>4, <2>1, <2>2, <2>3, <2>4, <2>5 DEF FeedAfter
<1> QED BY <1>5, <1>6

\* The frame was handled and no reconnect begins.
Stays(c, m, l) ==
    /\ line' = [line EXCEPT ![c] = l] /\ l \in LineType
    /\ maintenance' = [maintenance EXCEPT ![c] = MaintenanceAfter(c, m)]
    /\ UNCHANGED << phase, driverVars, active, stage >>

\* The invariant holds on of a connection that heard a frame, and of the others.
LEMMA StaysKeeps ==
    ASSUME SocketsInv, NEW c \in Conns, NEW m \in Deliverable(c), Listening(c), NEW l,
           LineFacts(l, c, m), PairFacts(c, m), Stays(c, m, l)
    PROVE  \A d \in Conns : ConnInv(d)'
<1>1. TypeOK /\ ControlInv(c) /\ SentInv(c) /\ HeardInv(c) /\ phase[c] = "receiving" /\ stage = "run"
  BY DEF SocketsInv, ConnInv, Listening
<1>2. /\ line'[c] = l /\ \A d \in Conns : d # c => line'[d] = line[d]
  BY <1>1, NewLine DEF Stays
<1>3. /\ maintenance'[c] = MaintenanceAfter(c, m)
      /\ \A d \in Conns : d # c => maintenance'[d] = maintenance[d]
  BY <1>1 DEF Stays, TypeOK
<1>4. UNCHANGED << phase, at, todo, attempt, wake, inProgress, active, stage >>
  BY DEF Stays, driverVars
<1>5. ConnInv(c)'
  <2>1. ControlInv(c)'
    BY <1>1, <1>4 DEF ControlInv
  <2>2. SentInv(c)'
    BY <1>1, <1>2, <1>4 DEF SentInv, Restored, LineFacts
  <2>3. HeardInv(c)'
    <3>1. maintenance'[c] => line'[c].told
      BY <1>2, <1>3 DEF LineFacts
    <3>2. ASSUME NEW p \in PairsOn(c), silent'[p].state = "data_ready" PROVE p \in line'[c].heard
      BY <1>1, <1>2, <3>2 DEF PairFacts, LineFacts, HeardInv
    <3> QED BY <1>1, <1>4, <3>1, <3>2 DEF HeardInv, Restored
  <2> QED BY <2>1, <2>2, <2>3 DEF ConnInv
<1>6. ASSUME NEW d \in Conns, d # c PROVE ConnInv(d)'
  <2>1. \A p \in PairsOn(d) : silent'[p].state = silent[p].state
    BY <1>6, PairsOnArePairs, PairsOnAreApart DEF PairFacts
  <2>2. Alike(d)
    BY <1>2, <1>3, <1>4, <1>6, <2>1 DEF Alike
  <2> QED BY <2>2, AlikeKeeps DEF SocketsInv
<1> QED BY <1>5, <1>6

\* Whatever the timers say, the loop either stays or begins a reconnect.
LEMMA TimersLeaveOrStay ==
    ASSUME SocketsInv, NEW c \in Conns, NEW m \in Deliverable(c), Listening(c),
           UNCHANGED << active, stage >>,
           OnTick(c, KeepaliveAfter(c, m), MaintenanceAfter(c, m), LineAfter(c, m))
    PROVE  /\ keepalive' \in [Conns -> KeepaliveType]
           /\ \/ Sleeps(c)
              \/ \E l : /\ Stays(c, m, l) /\ LineFacts(l, c, m)
                        /\ c = Private => FeedAfter(l, m)
<1>1. TypeOK /\ stage = "run" /\ keepalive \in [Conns -> KeepaliveType]
  BY DEF SocketsInv, Listening, TypeOK, KeepaliveType
<1>2. KeepaliveAfter(c, m) \in KeepaliveType
  BY OtherAfterFacts
<1>3. LineFacts(LineAfter(c, m), c, m)
  BY LineAfterFacts
<1>4. c = Private => FeedAfter(LineAfter(c, m), m)
  BY PrivateFeed
<1> DEFINE k == KeepaliveAfter(c, m)
           a == MaintenanceAfter(c, m)
           n == LineAfter(c, m)
<1>5. \/ keepalive' = [keepalive EXCEPT ![c] = k] /\ \E reason : BeginReconnect(c, reason)
      \/ /\ keepalive' = [keepalive EXCEPT ![c] = MarkPingSent(k)]
         /\ line' = [line EXCEPT ![c] = [n EXCEPT !.pings = (n.state # "stalled")]]
         /\ maintenance' = [maintenance EXCEPT ![c] = a] /\ UNCHANGED << phase, driverVars >>
      \/ /\ keepalive' = [keepalive EXCEPT ![c] = k] /\ line' = [line EXCEPT ![c] = n]
         /\ maintenance' = [maintenance EXCEPT ![c] = a] /\ UNCHANGED << phase, driverVars >>
  BY DEF OnTick
<1>6. n \in LineType
  BY <1>3 DEF LineFacts
<1> HIDE DEF k, a, n
<1>7. k \in KeepaliveType /\ MarkPingSent(k) \in KeepaliveType
  BY <1>2 DEF k, MarkPingSent, KeepaliveType
<1>8. CASE keepalive' = [keepalive EXCEPT ![c] = k] /\ \E reason : BeginReconnect(c, reason)
  <2>1. Sleeps(c)
    BY <1>1, <1>8, BeginReconnectSleeps
  <2> QED BY <1>1, <1>7, <1>8, <2>1
<1>9. CASE /\ keepalive' = [keepalive EXCEPT ![c] = MarkPingSent(k)]
           /\ line' = [line EXCEPT ![c] = [n EXCEPT !.pings = (n.state # "stalled")]]
           /\ maintenance' = [maintenance EXCEPT ![c] = a] /\ UNCHANGED << phase, driverVars >>
  <2> DEFINE b == n.state # "stalled"
             l == [n EXCEPT !.pings = b]
  <2>1. b \in BOOLEAN
    OBVIOUS
  <2>2. line' = [line EXCEPT ![c] = l]
    BY <1>9
  <2> HIDE DEF b
  <2>3. /\ l \in LineType /\ l.sent = n.sent /\ l.acked = n.acked
        /\ l.accepted = n.accepted /\ l.told = n.told /\ l.heard = n.heard
        /\ l.seq = n.seq /\ l.gap = n.gap /\ l.skipped = n.skipped /\ l.snapshot = n.snapshot
        /\ l.unreported = n.unreported /\ l.found = n.found /\ l.state = n.state
    BY <1>6, <2>1 DEF LineType
  <2> HIDE DEF l
  <2>4. Stays(c, m, l)
    BY <1>9, <2>2, <2>3 DEF Stays, a
  <2>5. LineFacts(l, c, m)
    BY <1>3, <2>3 DEF LineFacts, n
  <2>6. c = Private => FeedAfter(l, m)
    BY <1>4, <2>3 DEF FeedAfter, Blind, WatermarkOn, n
  <2> QED BY <1>1, <1>7, <1>9, <2>4, <2>5, <2>6
<1>10. CASE /\ keepalive' = [keepalive EXCEPT ![c] = k] /\ line' = [line EXCEPT ![c] = n]
            /\ maintenance' = [maintenance EXCEPT ![c] = a] /\ UNCHANGED << phase, driverVars >>
  <2>1. Stays(c, m, n)
    BY <1>6, <1>10 DEF Stays, a
  <2>2. LineFacts(n, c, m) /\ (c = Private => FeedAfter(n, m))
    BY <1>3, <1>4 DEF n
  <2> QED BY <1>1, <1>7, <1>10, <2>1, <2>2
<1> QED BY <1>5, <1>8, <1>9, <1>10

\* A frame and the timers after it keep the invariant.
LEMMA ReceiveInv ==
    ASSUME SocketsInv, NEW c \in Conns, NEW m \in Deliverable(c), Listening(c), Receive(c, m)
    PROVE  SocketsInv'
<1>1. TypeOK /\ FeedInv /\ MessageFacts(c, m) /\ stage = "run" /\ phase[c] = "receiving"
  BY Messages DEF SocketsInv, Listening
<1>2. /\ counter' = CounterAfter(c, m) /\ lastSeq' = LastSeqAfter(c, m)
      /\ balances' = BalancesAfter(c, m) /\ routed' = Commits(c, m)
      /\ UNCHANGED << active, faults, stage, tokens, drops >>
  BY DEF Receive
<1>3. PairFacts(c, m)
  BY SilentAfterFacts DEF Receive
<1>4. /\ keepalive' \in [Conns -> KeepaliveType]
      /\ \/ Sleeps(c)
         \/ \E l : /\ Stays(c, m, l) /\ LineFacts(l, c, m)
                   /\ c = Private => FeedAfter(l, m)
  <2>1. OnTick(c, KeepaliveAfter(c, m), MaintenanceAfter(c, m), LineAfter(c, m))
    BY DEF Receive
  <2> QED BY <1>2, <2>1, TimersLeaveOrStay
<1>5. /\ counter' \in CounterType /\ lastSeq' \in Nat \cup {Nothing}
      /\ balances' \in {Nothing, "seen"} /\ routed' \in BOOLEAN
  <2>1. routed' \in BOOLEAN
    BY <1>2 DEF Commits
  <2>2. CASE c = Private
    BY <1>2, <2>1, <2>2, PrivateFeed DEF FeedAfter
  <2>3. CASE c # Private
    <3>1. UNCHANGED << counter, lastSeq, balances >>
      BY <1>1, <1>2, <2>3, PublicFeed
    <3> QED BY <1>1, <2>1, <3>1 DEF TypeOK, CounterType
  <2> QED BY <2>2, <2>3
<1>6. c # Private => UNCHANGED feedVars
  BY <1>1, <1>2, PublicFeed DEF feedVars
<1>7. CASE Sleeps(c)
  <2>1. line' \in [Conns -> LineType] /\ line'[c] = NoLine
    BY <1>1, <1>7, NewLine, FreshLineIsALine DEF Sleeps
  <2>2. phase' \in [Conns -> Phases] /\ phase'[c] = "sleeping"
    BY <1>1, <1>7 DEF Sleeps, TypeOK, Phases
  <2>3. TypeOK'
    BY <1>1, <1>2, <1>3, <1>4, <1>5, <1>7, <2>1, <2>2
       DEF TypeOK, Sleeps, Phases, KeepaliveType, CounterType, PairFacts, PairType
  <2>4. \A d \in Conns : ConnInv(d)'
    <3>1. ASSUME NEW d \in Conns, d # c
          PROVE  \A p \in PairsOn(d) : silent'[p].state = silent[p].state
      BY <1>3, <3>1, PairsOnArePairs, PairsOnAreApart DEF PairFacts
    <3> QED BY <1>1, <1>7, <3>1, SleepsKeeps
  <2>5. FeedInv'
    <3>1. CASE c = Private
      <4>1. line'[Private].seq = 0 /\ ~line'[Private].gap /\ phase'[Private] = "sleeping"
        BY <2>1, <2>2, <3>1, FreshLineIsALine
      <4>5. line'[Private].unreported = {} /\ line'[Private].state = "closed"
        BY <2>1, <3>1, FreshLineIsALine
      <4>2. stage' = "run"
        BY <1>1, <1>2
      <4>3. lastSeq' # Nothing => lastSeq' >= 0
        BY <1>5
      <4> QED BY <4>1, <4>2, <4>3, <4>5 DEF FeedInv, GapsAreReported
    <3>2. CASE c # Private
      BY <1>1, <1>6, <1>7, <2>3, <3>2, SleepsMovesFeed, FeedMovesKeeps
    <3> QED BY <3>1, <3>2
  <2> QED BY <2>3, <2>4, <2>5 DEF SocketsInv
<1>8. ASSUME NEW l, Stays(c, m, l), LineFacts(l, c, m), c = Private => FeedAfter(l, m)
      PROVE  SocketsInv'
  <2>1. line' \in [Conns -> LineType] /\ line'[c] = l /\ \A d \in Conns : d # c => line'[d] = line[d]
    BY <1>1, <1>8, NewLine DEF Stays
  <2>2. maintenance' \in [Conns -> BOOLEAN]
    BY <1>1, <1>8, OtherAfterFacts DEF Stays, TypeOK
  <2>3. UNCHANGED << phase, at, todo, attempt, wake, inProgress, active, stage >>
    BY <1>8 DEF Stays, driverVars
  <2>4. TypeOK'
    BY <1>1, <1>2, <1>3, <1>4, <1>5, <2>1, <2>2, <2>3
       DEF TypeOK, KeepaliveType, CounterType, PairFacts, PairType
  <2>5. \A d \in Conns : ConnInv(d)'
    BY <1>3, <1>8, StaysKeeps
  <2>6. FeedInv'
    <3>1. CASE c = Private
      <4>1. FeedAfter(l, m) /\ line'[Private] = l
        BY <1>8, <2>1, <3>1
      <4>2. phase'[Private] = "receiving" /\ stage' = "run"
        BY <1>1, <2>3, <3>1
      <4>3. Latch(counter')
        BY <1>2, <3>1, <4>1 DEF FeedAfter
      <4>4. 1 \notin l.accepted => Forgotten'
        BY <1>2, <3>1, <4>1 DEF FeedAfter, Forgotten
      <4>5. lastSeq' # Nothing => lastSeq' >= l.seq
        BY <1>2, <3>1, <4>1 DEF FeedAfter
      <4>6. (l.gap => l.skipped) /\ (balances' # Nothing => l.snapshot)
        BY <1>2, <3>1, <4>1 DEF FeedAfter
      <4>7. /\ \A n \in l.unreported : n <= Blind(l) + 1
            /\ l.state # "closed" => lastSeq' = WatermarkOn(l)
        BY <1>2, <3>1, <4>1 DEF FeedAfter
      <4> QED BY <4>1, <4>2, <4>3, <4>4, <4>5, <4>6, <4>7 DEF FeedInv, GapsAreReported, Latch
    <3>2. CASE c # Private
      <4>1. line'[Private] = line[Private]
        BY <2>1, <3>2 DEF Conns
      <4>2. FeedMoves
        <5>1. LineIsNoNews
          BY <1>1, <4>1, SameLineIsNoNews
        <5> QED BY <1>6, <2>3, <3>2, <4>1, <5>1 DEF FeedMoves, LineIsNoNews
      <4> QED BY <1>1, <2>4, <4>2, FeedMovesKeeps
    <3> QED BY <3>1, <3>2
  <2> QED BY <2>4, <2>5, <2>6 DEF SocketsInv
<1> QED BY <1>4, <1>7, <1>8

-----------------------------------------------------------------------------
(* The theorems. *)

\* Every step keeps the invariant.
LEMMA SocketsStepInv == ASSUME SocketsInv, Next PROVE SocketsInv'
<1>1. CASE Tick
  BY <1>1, TickInv
<1>2. CASE Run
  BY <1>2, RunInv
<1>3. ASSUME NEW c \in Conns, Loop(c) PROVE SocketsInv'
  BY <1>3, ReceiveInv, ReceiveClosedInv DEF Loop
<1>4. ASSUME NEW c \in Conns, Drive(c) PROVE SocketsInv'
  BY <1>4, WakeInv, PlainStepInv, ReconnectSocketInv, ResubscribeInv, ResetRateCeilingInv DEF Drive
<1>5. ASSUME NEW c \in Conns, Subscribe(c) PROVE SocketsInv'
  BY <1>5, SendSubscribeInv, SubscribeFailsInv DEF Subscribe
<1>6. ASSUME NEW c \in Conns, Build(c) PROVE SocketsInv'
  BY <1>6, BuildOpenInv, BuildSubscribeInv DEF Build
<1>7. ASSUME NEW c \in Conns, Abandon(c) \/ BuildFails(c) PROVE SocketsInv'
  BY <1>7, EndInv
<1>8. ASSUME NEW c \in Conns, NEW state \in {"closed", "stalled", "mute"}, LineGoes(c, state)
      PROVE  SocketsInv'
  BY <1>8, LineGoesInv
<1> QED BY <1>1, <1>2, <1>3, <1>4, <1>5, <1>6, <1>7, <1>8 DEF Next

\* So does a step of nobody.
LEMMA SocketsStutterInv == ASSUME SocketsInv, UNCHANGED vars PROVE SocketsInv'
<1>1. TypeOK /\ FeedInv
  BY DEF SocketsInv
<1>2. UNCHANGED << active, faults, stage, phase, at, todo, attempt, wake, inProgress, maintenance,
                   keepalive, silent, tokens, counter, lastSeq, balances, routed, line, drops >>
  BY DEF vars
<1>3. TypeOK'
  BY <1>1, <1>2 DEF TypeOK
<1>4. ASSUME NEW d \in Conns PROVE ConnInv(d)'
  <2>1. Alike(d)
    BY <1>2 DEF Alike
  <2> QED BY <2>1, AlikeKeeps DEF SocketsInv
<1>5. FeedMoves
  <2>1. LineIsNoNews
    BY <1>1, <1>2, SameLineIsNoNews
  <2> QED BY <1>2, <2>1 DEF FeedMoves, LineIsNoNews, feedVars
<1> QED BY <1>1, <1>3, <1>4, <1>5, FeedMovesKeeps DEF SocketsInv

\* The invariant of the connections: where the task of each is, which subscribes
\* went out on its socket, what was heard there, and what the feed remembers.
THEOREM SocketsInvariant == Spec => []SocketsInv
<1>1. Init => SocketsInv
  BY SocketsInitInv
<1>2. SocketsInv /\ [Next]_vars => SocketsInv'
  BY SocketsStepInv, SocketsStutterInv
<1> QED BY <1>1, <1>2, PTL DEF Spec

\* The invariant says what the loops may believe.
LEMMA Believes == ASSUME SocketsInv PROVE BelievesThisSocketOnly
<1>1. TypeOK /\ FeedInv /\ \A c \in Conns : ControlInv(c) /\ SentInv(c) /\ HeardInv(c)
  BY DEF SocketsInv, ConnInv
<1>2. SubscribedOnThisSocket
  BY <1>1 DEF SubscribedOnThisSocket, Listening, SentInv
<1>3. GateCoversRestore
  BY <1>1 DEF GateCoversRestore, ControlInv, TypeOK
<1>4. ReadyIsHeardHere
  BY <1>1 DEF ReadyIsHeardHere, Listening, HeardInv, Conns
<1>5. MaintenanceIsOfThisSocket
  BY <1>1 DEF MaintenanceIsOfThisSocket, HeardInv
<1>6. SuppressionFollowsTheCounter
  BY <1>1 DEF SuppressionFollowsTheCounter, FeedInv, Listening
<1>7. BalancesAreOfThisSocket
  BY <1>1 DEF BalancesAreOfThisSocket, FeedInv, Listening
<1>8. GapsAreReported
  BY <1>1 DEF FeedInv
<1> QED BY <1>1, <1>2, <1>3, <1>4, <1>5, <1>6, <1>7, <1>8 DEF BelievesThisSocketOnly

\* What a loop takes for true, of its channels, its pairs, a maintenance, its rate
\* counter and its wallets, it learnt on the socket it reads, however many sockets
\* were lost before; a gap it reports happened, and a skip it does not report lies
\* within the watermark that the sockets before this one left it.
THEOREM LoopsBelieveTheirSocket == Spec => []BelievesThisSocketOnly
BY SocketsInvariant, Believes, PTL

\* Only a frame of a shard routes a candle, and only while no shard is restored.
LEMMA RoutedIsOfALivingShard ==
    ASSUME SocketsInv, Next, routed'
    PROVE  \A d \in Shards : inProgress[d] = Nothing
<1>1. PICK c \in Conns : \E m \in Deliverable(c) : Receive(c, m)
  <2>1. ~(Tick \/ Run)
    BY DEF Tick, Run
  <2>2. ASSUME NEW d \in Conns
        PROVE  ~(Drive(d) \/ Subscribe(d) \/ Build(d) \/ Abandon(d) \/ BuildFails(d))
    BY DEF Drive, Subscribe, Build, Abandon, BuildFails, Wake, AcquireToken, ReconnectSocket,
           Resubscribe, ResetRateCeiling, ResumeKeepalive, LastStep, SendSubscribe, SubscribeFails,
           BuildOpen, BuildSubscribe
  <2>3. ASSUME NEW d \in Conns, NEW state PROVE ~LineGoes(d, state)
    BY DEF LineGoes
  <2>4. ASSUME NEW d \in Conns PROVE ~ReceiveClosed(d)
    BY DEF ReceiveClosed
  <2>5. \E d \in Conns : Loop(d)
    BY <2>1, <2>2, <2>3 DEF Next
  <2> QED BY <2>4, <2>5 DEF Loop
<1>2. PICK m \in Deliverable(c) : Receive(c, m)
  BY <1>1
<1>3. m.class = "data" /\ ChannelOf(c, m) = "ohlc_5m" /\ ~AnyReconnecting(c)
  BY <1>2 DEF Receive, Commits
<1>4. c # Private
  BY <1>3, Messages, Channels DEF PerPairData
<1> QED BY <1>3, <1>4 DEF AnyReconnecting, Peers

\* No 5m candle reaches the pipeline while any shard is being restored.
THEOREM CandlesWaitForTheRestore == Spec => NoCandleWhileRestoring
<1>1. SocketsInv /\ [Next]_vars => [routed' => \A d \in Shards : inProgress[d] = Nothing]_vars
  BY RoutedIsOfALivingShard
<1> QED BY <1>1, SocketsInvariant, PTL DEF Spec, NoCandleWhileRestoring

\* HR-WM-031: every pair of the universe is on exactly one connection, however many
\* pairs one carries.
THEOREM EveryPairOnOneConnection ==
    \A p \in Pairs : \E c \in Shards : p \in PairsOf[c] /\ \A d \in Shards : p \in PairsOf[d] => d = c
BY PairsAreSomewhere, PairsAreApart

-----------------------------------------------------------------------------
(* The REST client and the cold start. *)

\* What any user of the client can do to it.
RestNext ==
    \/ \E calls : Ask(calls)
    \/ TakeSlot
    \/ Send
    \/ \E call, answer : Hear(call, answer)
    \/ RestTick

RestTypeOK ==
    /\ asleep \in BOOLEAN /\ pardoned \in BOOLEAN
    /\ slot \in Int /\ next \in Int /\ pace \in Int /\ hold \in Nat

\* The pace the calls must keep is kept by the next slot to be given and by the
\* slot that has been given, which the holder leaves behind by no more than a
\* late wake-up.
SlotKeepsThePace ==
    IF asleep
    THEN pace <= slot /\ slot <= next /\ slot >= -WakeDelay
    ELSE pace <= next /\ next >= 0

\* A penalty is out of reach of every slot but the one it came too late for.
SlotServesThePenalty ==
    hold > 0 => next >= hold /\ (asleep => pardoned \/ slot >= hold)

\* Only a holder is pardoned.
PardonIsTheHolders == pardoned => asleep

RestInv == RestTypeOK /\ SlotKeepsThePace /\ SlotServesThePenalty /\ PardonIsTheHolders

\* The constants are naturals.
LEMMA RestConstants ==
    MinInterval \in Nat /\ BackoffPenalty \in Nat /\ WakeDelay \in Nat
BY RestAssumption

\* The later of two times is one of them, and before neither.
LEMMA LaterIsLater ==
    ASSUME NEW s \in Int, NEW t \in Int
    PROVE  Later(s, t) \in Int /\ Later(s, t) >= s /\ Later(s, t) >= t
           /\ (Later(s, t) = s \/ Later(s, t) = t)
BY DEF Later

\* A client that has just been made keeps the invariant.
LEMMA RestInitInv == RestInit => RestInv
<1> SUFFICES ASSUME RestInit PROVE RestInv
  OBVIOUS
<1>1. ~asleep /\ ~pardoned /\ slot = 0 /\ next = 0 /\ hold = 0 /\ pace = -WakeDelay
  BY DEF RestInit
<1>2. asleep = FALSE /\ pardoned = FALSE
  BY DEF RestInit
<1>3. pace \in Int /\ pace <= next
  BY <1>1, RestConstants
<1>4. RestTypeOK
  <2>1. asleep \in BOOLEAN /\ pardoned \in BOOLEAN
    BY <1>2
  <2>2. slot \in Int /\ next \in Int /\ hold \in Nat
    BY <1>1
  <2> QED BY <2>1, <2>2, <1>3 DEF RestTypeOK
<1>5. SlotKeepsThePace
  BY <1>1, <1>3 DEF SlotKeepsThePace
<1>6. SlotServesThePenalty /\ PardonIsTheHolders
  BY <1>1 DEF SlotServesThePenalty, PardonIsTheHolders
<1> QED BY <1>4, <1>5, <1>6 DEF RestInv

\* Every step of the client keeps it.
LEMMA RestStepInv == RestInv /\ [RestNext]_restVars => RestInv'
<1> SUFFICES ASSUME RestInv, [RestNext]_restVars PROVE RestInv'
  OBVIOUS
<1> USE RestConstants DEF RestInv, RestTypeOK, SlotKeepsThePace, SlotServesThePenalty,
    PardonIsTheHolders
<1>1. ASSUME NEW calls, Ask(calls) PROVE RestInv'
  BY <1>1 DEF Ask
<1>2. CASE TakeSlot
  BY <1>2 DEF TakeSlot, SlotIn
<1>3. CASE Send
  <2>1. /\ asleep /\ slot <= 0 /\ slot >= -WakeDelay /\ pace <= slot /\ slot <= next
        /\ asleep' = FALSE /\ slot' = 0 /\ pardoned' = FALSE /\ hold' = hold
        /\ next' = Later(0, next + MinInterval)
        /\ pace' = Later(pace, -WakeDelay) + MinInterval
    BY <1>3 DEF Send, NextAfterSend
  <2>2. next' \in Int /\ next' >= 0 /\ next' >= next + MinInterval
    BY <2>1, LaterIsLater
  <2>3. Later(pace, -WakeDelay) \in Int /\ Later(pace, -WakeDelay) <= slot
    <3>1. -WakeDelay \in Int
      OBVIOUS
    <3>2. /\ Later(pace, -WakeDelay) \in Int
          /\ Later(pace, -WakeDelay) = pace \/ Later(pace, -WakeDelay) = -WakeDelay
      BY <3>1, LaterIsLater
    <3> QED BY <2>1, <3>2
  <2>4. pace' \in Int /\ pace' <= next'
    BY <2>1, <2>2, <2>3
  <2>5. hold' > 0 => next' >= hold'
    BY <2>1, <2>2
  <2>6. asleep' \in BOOLEAN /\ pardoned' \in BOOLEAN /\ slot' \in Int
    <3>1. asleep' = FALSE /\ pardoned' = FALSE /\ slot' = 0
      BY <2>1
    <3>2. asleep' \in BOOLEAN /\ pardoned' \in BOOLEAN
      BY <3>1
    <3>3. slot' \in Int
      BY <3>1
    <3> QED BY <3>2, <3>3
  <2>7. hold' \in Nat
    BY <2>1
  <2>8. RestTypeOK'
    BY <2>2, <2>4, <2>6, <2>7
  <2>9. SlotKeepsThePace'
    BY <2>1, <2>2, <2>4
  <2>10. SlotServesThePenalty' /\ PardonIsTheHolders'
    BY <2>1, <2>5
  <2> QED BY <2>8, <2>9, <2>10
<1>4. ASSUME NEW call, NEW answer, Hear(call, answer) PROVE RestInv'
  <2>1. CASE answer = "limited"
    BY <1>4, <2>1 DEF Hear, Penalized, Later
  <2>2. CASE answer # "limited"
    BY <1>4, <2>2 DEF Hear
  <2> QED BY <2>1, <2>2
<1>5. CASE RestTick
  BY <1>5 DEF RestTick, Later
<1>6. CASE UNCHANGED restVars
  BY <1>6 DEF restVars
<1> QED BY <1>1, <1>2, <1>3, <1>4, <1>5, <1>6 DEF RestNext

\* Only a send puts a call in flight.
LEMMA OnlySendSends ==
    ASSUME [RestNext]_restVars, DOMAIN inFlight' \ DOMAIN inFlight # {} PROVE Send
<1>1. ASSUME NEW calls, Ask(calls) PROVE DOMAIN inFlight' = DOMAIN inFlight
  BY <1>1 DEF Ask
<1>2. ASSUME TakeSlot PROVE DOMAIN inFlight' = DOMAIN inFlight
  BY <1>2 DEF TakeSlot
<1>3. ASSUME NEW call, NEW answer, Hear(call, answer)
      PROVE  DOMAIN inFlight' = DOMAIN inFlight \ {call}
  BY <1>3 DEF Hear
<1>4. ASSUME RestTick PROVE DOMAIN inFlight' = DOMAIN inFlight
  BY <1>4 DEF RestTick
<1>5. ASSUME UNCHANGED restVars PROVE DOMAIN inFlight' = DOMAIN inFlight
  BY <1>5 DEF restVars
<1> QED BY <1>1, <1>2, <1>3, <1>4, <1>5 DEF RestNext

\* A call goes out at its slot, and no earlier than the pace and the penalty let it.
LEMMA SendIsDue ==
    ASSUME RestInv, Send PROVE pace <= 0 /\ (hold = 0 \/ pardoned)
BY RestConstants DEF RestInv, RestTypeOK, SlotKeepsThePace, SlotServesThePenalty, Send

-----------------------------------------------------------------------------
\* What the cold start does to the client is what any user may do.
LEMMA StartUsesTheClient ==
    [StartNext]_<<restVars, startVars>> => [RestNext]_restVars
<1> SUFFICES ASSUME [StartNext]_<<restVars, startVars>> PROVE [RestNext]_restVars
  OBVIOUS
<1>1. CASE Configure \/ LoadUniverse
  BY <1>1 DEF Configure, LoadUniverse
<1>2. CASE AskNext \/ AskFirst
  BY <1>2 DEF AskNext, AskFirst, RestNext
<1>3. CASE \E s \in SymbolSet : AskSecond(s)
  BY <1>3 DEF AskSecond, RestNext
<1>4. CASE TakeSlot \/ Send
  BY <1>4 DEF RestNext
<1>5. CASE \E answer \in Answers : BulkAnswer(answer) \/ SymbolAnswer(answer)
  BY <1>5 DEF BulkAnswer, SymbolAnswer, Note, RestNext
<1>6. CASE \E s \in SymbolSet, answer \in Answers : WarmAnswer(s, answer)
  BY <1>6 DEF WarmAnswer, Note, RestNext
<1>7. CASE \E call \in DOMAIN inFlight, answer \in Answers : Dies(call, answer)
  BY <1>7 DEF Dies, Note, RestNext
<1>8. CASE ScreenEnds \/ WarmEnds \/ DailyEnds \/ Assembled
  BY <1>8 DEF ScreenEnds, WarmEnds, DailyEnds, Assembled
<1>9. CASE Wait
  BY <1>9 DEF Wait, RestNext
<1>10. CASE UNCHANGED <<restVars, startVars>>
  BY <1>10
<1> QED
  BY <1>1, <1>2, <1>3, <1>4, <1>5, <1>6, <1>7, <1>8, <1>9, <1>10 DEF StartNext

\* The cold start keeps the client's invariant.
THEOREM StartInvariant == StartSpec => []RestInv
<1>1. StartInit => RestInv
  BY RestInitInv DEF StartInit
<1>2. RestInv /\ [StartNext]_<<restVars, startVars>> => RestInv'
  BY RestStepInv, StartUsesTheClient
<1> QED BY <1>1, <1>2, PTL DEF StartSpec

\* However many pairs there are to warm, n calls of the cold start never go out in
\* less than n - 1 intervals, but for the lateness of one wake-up.
THEOREM StartIsPaced == StartSpec => CallsArePaced
<1>1. RestInv /\ [StartNext]_<<restVars, startVars>>
        => [DOMAIN inFlight' \ DOMAIN inFlight # {} => pace <= 0]_restVars
  BY OnlySendSends, SendIsDue, StartUsesTheClient
<1> QED BY <1>1, StartInvariant, PTL DEF StartSpec, CallsArePaced

\* However the answers come in, no call of the cold start goes out during a
\* penalty, but for one that had its slot when the penalty came.
THEOREM StartServesPenalties == StartSpec => PenaltyIsServed
<1>1. RestInv /\ [StartNext]_<<restVars, startVars>>
        => [DOMAIN inFlight' \ DOMAIN inFlight # {} => hold = 0 \/ pardoned]_restVars
  BY OnlySendSends, SendIsDue, StartUsesTheClient
<1> QED BY <1>1, StartInvariant, PTL DEF StartSpec, PenaltyIsServed

\* Both together, as the run checks them.
THEOREM StartKeepsThePace == StartSpec => ClientIsPaced
BY StartIsPaced, StartServesPenalties DEF ClientIsPaced

-----------------------------------------------------------------------------
(* Lists, and what is kept of one. *)

-----------------------------------------------------------------------------
\* A list with one element more; a list without its first.
LEMMA TailHas ==
    ASSUME NEW X, NEW q \in Seq(X), q # <<>>
    PROVE  /\ Head(q) \in X /\ Tail(q) \in Seq(X)
           /\ \A y : Has(y, q) <=> Has(y, Tail(q)) \/ y = Head(q)
           /\ EachOnce(q) => EachOnce(Tail(q)) /\ ~Has(Head(q), Tail(q))
<1>1. PICK n \in Nat : Len(q) = n + 1 /\ DOMAIN q = 1..(n + 1)
  <2>1. Len(q) \in Nat /\ Len(q) # 0 /\ DOMAIN q = 1..Len(q)
    OBVIOUS
  <2>2. Len(q) - 1 \in Nat /\ Len(q) = (Len(q) - 1) + 1
    BY <2>1
  <2> QED BY <2>1, <2>2
<1>2. PICK t : t = Tail(q)
  OBVIOUS
<1>3. PICK h : h = Head(q)
  OBVIOUS
<1>4. t \in Seq(X) /\ DOMAIN t = 1..n /\ \A i \in 1..n : t[i] = q[i + 1]
  BY <1>1, <1>2
<1>5. h \in X /\ h = q[1]
  BY <1>1, <1>3
<1>6. ASSUME NEW y PROVE Has(y, q) <=> Has(y, t) \/ y = h
  <2>1. ASSUME Has(y, q) PROVE Has(y, t) \/ y = h
    <3>1. PICK i \in 1..(n + 1) : q[i] = y
      BY <1>1, <2>1 DEF Has
    <3>2. CASE i = 1
      BY <1>5, <3>1, <3>2
    <3>3. CASE i # 1
      <4>1. i - 1 \in 1..n /\ (i - 1) + 1 = i
        BY <3>3
      <4> QED BY <1>4, <3>1, <4>1 DEF Has
    <3> QED BY <3>2, <3>3
  <2>2. ASSUME Has(y, t) PROVE Has(y, q)
    <3>1. PICK i \in 1..n : t[i] = y
      BY <1>4, <2>2 DEF Has
    <3>2. i + 1 \in 1..(n + 1) /\ q[i + 1] = y
      BY <1>4, <3>1
    <3> QED BY <1>1, <3>2 DEF Has
  <2>3. ASSUME y = h PROVE Has(y, q)
    BY <1>1, <1>5, <2>3, 1 \in 1..(n + 1) DEF Has
  <2> QED BY <2>1, <2>2, <2>3
<1>7. ASSUME EachOnce(q) PROVE EachOnce(t) /\ ~Has(h, t)
  <2>1. ASSUME NEW i \in 1..n, NEW j \in 1..n, t[i] = t[j] PROVE i = j
    <3>1. i + 1 \in 1..(n + 1) /\ j + 1 \in 1..(n + 1) /\ q[i + 1] = q[j + 1]
      BY <1>4, <2>1
    <3>2. i + 1 = j + 1
      BY <1>1, <1>7, <3>1 DEF EachOnce
    <3> QED BY <3>2
  <2>2. ASSUME NEW i \in 1..n, t[i] = h PROVE FALSE
    <3>1. i + 1 \in 1..(n + 1) /\ 1 \in 1..(n + 1) /\ q[i + 1] = q[1]
      BY <1>4, <1>5, <2>2
    <3>2. i + 1 = 1
      BY <1>1, <1>7, <3>1 DEF EachOnce
    <3> QED BY <3>2
  <2>3. EachOnce(t)
    BY <1>4, <2>1 DEF EachOnce
  <2>4. ~Has(h, t)
    BY <1>4, <2>2 DEF Has
  <2> QED BY <2>3, <2>4
<1> QED BY <1>2, <1>3, <1>4, <1>5, <1>6, <1>7

-----------------------------------------------------------------------------
(* The calls in the client's hands. *)

Kinds == {"volumes", "names", "screen", "5m", "60m", "daily", "ticker"}
Callings == (SymbolSet \cup {"all"}) \X Kinds
InHand == DOMAIN inFlight \cup Range(callers)

\* Each call waits or is in flight, once; the holder of the lock is a caller.
CallsInv ==
    /\ callers \in Seq(Callings) /\ DOMAIN inFlight \subseteq Callings
    /\ EachOnce(callers)
    /\ \A call \in DOMAIN inFlight : ~Has(call, callers)
    /\ asleep => callers # <<>>

\* To be in the range of a list is to be in the list.
LEMMA RangeIn == \A q, y : y \in Range(q) <=> Has(y, q)
BY DEF Range, Has

\* The calls that are outstanding are those in the client's hands.
LEMMA OutstandingIsInHand == \A call : Outstanding(call) <=> call \in InHand
BY DEF Outstanding, InHand

\* A call that is asked for is one more in hand.
LEMMA AskOne ==
    ASSUME CallsInv, NEW call \in Callings, ~Outstanding(call), Ask(<<call>>)
    PROVE  CallsInv' /\ InHand' = InHand \cup {call}
<1>1. callers' = Append(callers, call) /\ asleep' = asleep /\ inFlight' = inFlight
  <2>1. callers' = callers \o <<call>> /\ asleep' = asleep /\ inFlight' = inFlight
    BY DEF Ask
  <2>2. callers \o <<call>> = Append(callers, call)
    BY DEF CallsInv
  <2> QED BY <2>1, <2>2
<1>2. ~Has(call, callers) /\ call \notin DOMAIN inFlight
  BY RangeIn DEF Outstanding
<1>3. /\ callers' \in Seq(Callings) /\ EachOnce(callers')
      /\ \A y : Has(y, callers') <=> Has(y, callers) \/ y = call
  <2>1. callers \in Seq(Callings) /\ EachOnce(callers)
    BY DEF CallsInv
  <2>2. /\ Append(callers, call) \in Seq(Callings)
        /\ \A y : Has(y, Append(callers, call)) <=> Has(y, callers) \/ y = call
        /\ EachOnce(callers) /\ ~Has(call, callers) => EachOnce(Append(callers, call))
    BY <2>1, AppendHas
  <2> QED BY <1>1, <1>2, <2>1, <2>2
<1>4. callers' # <<>>
  <2>1. Append(callers, call) # <<>>
    BY DEF CallsInv
  <2> QED BY <1>1, <2>1
<1>5. CallsInv'
  BY <1>1, <1>2, <1>3, <1>4 DEF CallsInv
<1>6. \A y : y \in Range(callers') <=> y \in Range(callers) \/ y = call
  BY <1>3, RangeIn
<1> QED BY <1>1, <1>5, <1>6 DEF InHand

\* Neither a slot nor time changes what is in hand.
LEMMA HoldsOn ==
    ASSUME CallsInv, TakeSlot \/ RestTick PROVE CallsInv' /\ InHand' = InHand
<1>1. CASE TakeSlot
  BY <1>1 DEF TakeSlot, CallsInv, InHand
<1>2. CASE RestTick
  <2>1. callers' = callers /\ asleep' = asleep /\ DOMAIN inFlight' = DOMAIN inFlight
    BY <1>2 DEF RestTick
  <2> QED BY <2>1 DEF CallsInv, InHand
<1> QED BY <1>1, <1>2

\* A call that goes out stays in hand.
LEMMA SendsOne == ASSUME CallsInv, Send PROVE CallsInv' /\ InHand' = InHand
<1>1. PICK h : h = Head(callers)
  OBVIOUS
<1>2. /\ callers' = Tail(callers) /\ DOMAIN inFlight' = DOMAIN inFlight \cup {h} /\ ~asleep'
      /\ callers # <<>>
  BY <1>1 DEF Send, CallsInv
<1>3. /\ h \in Callings /\ callers' \in Seq(Callings)
      /\ \A y : Has(y, callers) <=> Has(y, callers') \/ y = h
      /\ EachOnce(callers') /\ ~Has(h, callers')
  <2>1. callers \in Seq(Callings) /\ EachOnce(callers)
    BY DEF CallsInv
  <2> QED BY <1>1, <1>2, <2>1, TailHas
<1>4. CallsInv'
  BY <1>2, <1>3 DEF CallsInv
<1>5. \A y : y \in Range(callers) <=> y \in Range(callers') \/ y = h
  BY <1>3, RangeIn
<1> QED BY <1>2, <1>4, <1>5 DEF InHand

\* A call that is answered is in hand no longer.
LEMMA HearsOne ==
    ASSUME CallsInv, NEW call, NEW answer, Hear(call, answer)
    PROVE  CallsInv' /\ InHand' = InHand \ {call} /\ call \in InHand
<1>1. /\ call \in DOMAIN inFlight /\ DOMAIN inFlight' = DOMAIN inFlight \ {call}
      /\ callers' = callers /\ asleep' = asleep
  BY DEF Hear
<1>2. CallsInv'
  BY <1>1 DEF CallsInv
<1>3. call \notin Range(callers)
  BY <1>1, RangeIn DEF CallsInv
<1> QED BY <1>1, <1>2, <1>3 DEF InHand

\* Calls asked for at once, when there was none.
LEMMA AskAll ==
    ASSUME CallsInv, InHand = {}, NEW q \in Seq(Callings), EachOnce(q), Ask(q)
    PROVE  CallsInv' /\ InHand' = Range(q)
<1>1. callers = <<>> /\ DOMAIN inFlight = {} /\ ~asleep
  <2>1. DOMAIN inFlight = {} /\ Range(callers) = {}
    BY DEF InHand
  <2>2. callers \in Seq(Callings) /\ DOMAIN callers = {}
    BY <2>1 DEF CallsInv, Range
  <2>3. callers = <<>>
    BY <2>2
  <2> QED BY <2>1, <2>3 DEF CallsInv
<1>2. callers' = q /\ asleep' = asleep /\ inFlight' = inFlight
  <2>1. callers' = callers \o q /\ asleep' = asleep /\ inFlight' = inFlight
    BY DEF Ask
  <2>2. <<>> \o q = q
    OBVIOUS
  <2> QED BY <1>1, <2>1, <2>2
<1>3. CallsInv'
  BY <1>1, <1>2 DEF CallsInv
<1> QED BY <1>1, <1>2, <1>3 DEF InHand

-----------------------------------------------------------------------------
(* The phases. *)

Early == {"configure", "load", "volumes", "names"}
Late == {"daily", "ticker", "up"}
Boots == Early \cup {"screen", "warm", "dead"} \cup Late
TaskStates == {"none", "5m", "pause", "60m", "warm", "failed"}

StartTypes ==
    /\ setting \in Settings /\ listing \in Listings /\ boot \in Boots
    /\ universe \subseteq SymbolSet /\ toAsk \in Seq(SymbolSet)
    /\ volumes \in [SymbolSet -> Nat]
    /\ scored \in [SymbolSet -> Int \cup {None}]
    /\ task \in [SymbolSet -> TaskStates]
    /\ warmups \in [SymbolSet -> SymbolSet \cup {None}]

\* A phase asks for symbols of the universe, and leaves none it has not asked for.
AskingInv ==
    /\ boot \notin {"screen", "daily", "ticker", "dead"} => toAsk = <<>>
    /\ \A s : Has(s, toAsk) => s \in universe

\* The warm-ups run between the screens and the daily bars.
TasksInv ==
    /\ \A s \in SymbolSet : task[s] # "none" => s \in universe
    /\ boot \in Early \cup {"screen"} => \A s \in SymbolSet : task[s] = "none"
    /\ boot = "warm" => \/ \A s \in universe : task[s] = "none"
                       \/ \A s \in universe : task[s] # "none"
    /\ boot = "warm" => \A s \in SymbolSet :
                           task[s] \in {"5m", "60m"} => <<s, task[s]>> \in InHand
    /\ boot \in Late => \A s \in universe :
                           /\ task[s] \in {"warm", "failed"}
                           /\ warmups[s] = IF task[s] = "warm" THEN s ELSE None

HandInv == boot # "dead" => InHand \subseteq Awaited

\* What is stored of a symbol is what was answered well.
AnswersInv ==
    \A s \in SymbolSet :
        /\ s \in regimes <=> <<s, "daily">> \in heard
        /\ s \in liquid <=> <<s, "ticker">> \in heard
        /\ scored[s] = IF <<s, "screen">> \in heard THEN Scores[s] ELSE None
        /\ <<s, "5m">> \in heard => task[s] \notin {"none", "5m"}
        /\ <<s, "60m">> \in heard => task[s] = "warm"
        /\ task[s] \in {"pause", "60m", "warm"} => <<s, "5m">> \in heard
        /\ task[s] = "warm" => <<s, "60m">> \in heard

\* And nothing is answered before its phase.
PhaseInv ==
    /\ regimes \subseteq universe /\ liquid \subseteq universe
    /\ boot \notin Late \cup {"dead"} => regimes = {} /\ liquid = {}
    /\ boot \in Early => /\ <<"all", "names">> \notin heard
                         /\ \A s \in SymbolSet : <<s, "screen">> \notin heard
    /\ boot \in {"load", "volumes", "names", "screen"} => setting.pinned = {}
    /\ <<"all", "names">> \in heard => setting.pinned = {}
    /\ boot = "screen" => setting.capacity > 0
    /\ \A s \in SymbolSet : <<s, "screen">> \in heard =>
           /\ setting.pinned = {} /\ setting.capacity > 0
           /\ boot = "screen" => s \in universe

\* What the universe is chosen from.
Base == IF setting.pinned = {} THEN Derived ELSE setting.pinned \cup AlwaysInclude

Settled == {"warm"} \cup Late

BestByVolume ==
    boot \in Settled /\ setting.capacity = 0 /\ <<"all", "names">> \in heard =>
        \A s \in universe \ AlwaysInclude, t \in Base \ universe : volumes[s] >= volumes[t]

BestByScore ==
    boot \in Settled /\ setting.capacity > 0 /\ setting.pinned = {} =>
        \A s \in universe \ AlwaysInclude :
            /\ scored[s] # None /\ scored[s] > 0
            /\ \A t \in SymbolSet \ universe :
                   <<t, "screen">> \in heard /\ Scores[t] # None => Scores[s] >= Scores[t]

UniverseInv ==
    /\ boot \notin {"configure", "load", "dead"} =>
           AlwaysInclude \subseteq universe /\ universe \subseteq Base
    /\ boot \in {"volumes", "names"} \/ (boot \in Settled /\ setting.pinned # {}) => universe = Base
    /\ BestByVolume /\ BestByScore

ColdStartInv ==
    /\ CallsInv /\ StartTypes /\ AskingInv /\ TasksInv /\ HandInv /\ AnswersInv /\ PhaseInv
    /\ UniverseInv

\* The symbols, their order and their numbers.
LEMMA ColdConstants ==
    /\ SymbolSet = Range(Names) /\ Names \in Seq(SymbolSet) /\ EachOnce(Names)
    /\ IsFiniteSet(SymbolSet) /\ AlwaysInclude \subseteq SymbolSet /\ None \notin SymbolSet
    /\ Volumes \in [SymbolSet -> Nat] /\ Scores \in [SymbolSet -> Int \cup {None}]
    /\ \A s \in Settings : s.pinned \subseteq SymbolSet /\ s.capacity \in Nat /\ s.topN \in Nat
<1>1. SymbolSet = Range(Names)
  BY DEF SymbolSet
<1>2. Names \in Seq(STRING) /\ EachOnce(Names)
  BY StartAssumption DEF EachOnce
<1>3. Names \in Seq(SymbolSet)
  <2>1. \A i \in DOMAIN Names : Names[i] \in SymbolSet
    BY <1>1 DEF Range
  <2>2. PICK n \in Nat : DOMAIN Names = 1..n /\ Names = [i \in 1..n |-> Names[i]]
    BY <1>2
  <2>3. [i \in 1..n |-> Names[i]] \in Seq(SymbolSet)
    BY <2>1, <2>2
  <2> QED BY <2>2, <2>3
<1>4. IsFiniteSet(SymbolSet)
  <2>1. PICK n \in Nat : DOMAIN Names = 1..n
    BY <1>2
  <2>2. IsFiniteSet(1..n)
    BY <2>1, FS_Interval
  <2>3. Names \in Surjection(1..n, SymbolSet)
    BY <1>1, <1>3, <2>1 DEF Range, Surjection
  <2> QED BY <2>2, <2>3, FS_Surjection
<1> QED BY <1>1, <1>2, <1>3, <1>4, StartAssumption

\* Nobody waits while the phases before the calls, or between them, are on.
LEMMA NothingInHand ==
    ASSUME ColdStartInv, boot \notin {"warm", "dead"}, NextCall = {} PROVE InHand = {}
<1>1. \A s \in universe : task[s] \notin {"5m", "60m"}
  <2>1. boot \in Early \cup {"screen"} \/ boot \in Late
    BY DEF ColdStartInv, StartTypes, Boots
  <2>2. universe \subseteq SymbolSet
    BY DEF ColdStartInv, StartTypes
  <2> QED BY <2>1, <2>2 DEF ColdStartInv, TasksInv
<1>2. Awaited = {}
  BY <1>1 DEF Awaited
<1> QED BY <1>2 DEF ColdStartInv, HandInv

\* Steps of the client, and of time, change nothing of the phase.
LEMMA QuietStep ==
    ASSUME ColdStartInv, CallsInv', InHand \subseteq InHand', InHand' \subseteq InHand \cup NextCall,
           UNCHANGED <<setting, listing, boot, universe, volumes, toAsk, scored, task, warmups,
                       regimes, liquid, heard>>
    PROVE  ColdStartInv'
<1>1. StartTypes' /\ AskingInv'
  BY DEF ColdStartInv, StartTypes, AskingInv
<1>2. TasksInv'
  BY DEF ColdStartInv, TasksInv
<1>3. HandInv'
  <2>1. Awaited' = Awaited /\ NextCall \subseteq Awaited
    BY DEF Awaited, NextCall
  <2> QED BY <2>1 DEF ColdStartInv, HandInv
<1>4. AnswersInv' /\ PhaseInv'
  BY DEF ColdStartInv, AnswersInv, PhaseInv
<1>5. UniverseInv'
  BY DEF ColdStartInv, UniverseInv, BestByVolume, BestByScore, Base, Derived
<1> QED BY <1>1, <1>2, <1>3, <1>4, <1>5 DEF ColdStartInv

\* Asking, the slot, the request and time.
LEMMA StepsOfTheClient ==
    ASSUME ColdStartInv, ~Over, AskNext \/ ((TakeSlot \/ Send) /\ UNCHANGED startVars) \/ Wait
    PROVE  ColdStartInv'
<1>1. CASE AskNext
  <2>1. PICK call \in NextCall : ~Outstanding(call) /\ Ask(<<call>>)
    BY <1>1 DEF AskNext
  <2>2. call \in Callings
    <3>1. CASE boot \in {"volumes", "names"}
      BY <2>1, <3>1 DEF NextCall, Callings, Kinds
    <3>2. CASE boot \notin {"volumes", "names"}
      <4>1. PICK i \in DOMAIN toAsk : call = <<Head(toAsk), boot>>
        BY <2>1, <3>2 DEF NextCall
      <4>2. toAsk \in Seq(SymbolSet) /\ toAsk # <<>>
        BY <4>1 DEF ColdStartInv, StartTypes
      <4>3. Head(toAsk) \in SymbolSet
        BY <4>2
      <4>4. boot \in {"screen", "daily", "ticker"}
        BY <4>2 DEF ColdStartInv, AskingInv, Over
      <4> QED BY <4>1, <4>3, <4>4 DEF Callings, Kinds
    <3> QED BY <3>1, <3>2
  <2>3. CallsInv' /\ InHand' = InHand \cup {call}
    BY <2>1, <2>2, AskOne DEF ColdStartInv
  <2> QED BY <1>1, <2>1, <2>3, QuietStep DEF AskNext, startVars
<1>2. CASE (TakeSlot \/ Send) /\ UNCHANGED startVars
  <2>1. CallsInv' /\ InHand' = InHand
    BY <1>2, HoldsOn, SendsOne DEF ColdStartInv
  <2> QED BY <1>2, <2>1, QuietStep DEF startVars
<1>3. CASE Wait
  <2>1. CallsInv' /\ InHand' = InHand
    BY <1>3, HoldsOn DEF ColdStartInv, Wait
  <2> QED BY <1>3, <2>1, QuietStep DEF Wait
<1> QED BY <1>1, <1>2, <1>3

-----------------------------------------------------------------------------
\* A cold start begins with nothing.
LEMMA BeginsCold == StartInit => ColdStartInv
<1> SUFFICES ASSUME StartInit PROVE ColdStartInv
  OBVIOUS
<1>1. /\ callers = <<>> /\ asleep = FALSE /\ inFlight = <<>> /\ setting \in Settings /\ listing \in Listings
      /\ boot = "configure" /\ universe = {} /\ toAsk = <<>> /\ regimes = {} /\ liquid = {}
      /\ heard = {} /\ volumes = [s \in SymbolSet |-> 0]
      /\ scored = [s \in SymbolSet |-> None] /\ task = [s \in SymbolSet |-> "none"]
      /\ warmups = [s \in SymbolSet |-> None]
  BY DEF StartInit, RestInit, Unknown
<1>2. /\ DOMAIN inFlight = {} /\ \A y : ~Has(y, <<>>)
      /\ EachOnce(<<>>) /\ Range(<<>>) = {}
  BY <1>1 DEF Has, EachOnce, Range
<1>3. CallsInv /\ InHand = {}
  BY <1>1, <1>2 DEF CallsInv, InHand
<1>4. StartTypes
  BY <1>1 DEF StartTypes, Boots, Early, TaskStates
<1>5. AskingInv /\ HandInv
  BY <1>1, <1>2, <1>3 DEF AskingInv, HandInv
<1>6. TasksInv /\ AnswersInv /\ PhaseInv
  BY <1>1 DEF TasksInv, AnswersInv, PhaseInv, Late, Early
<1>7. UniverseInv
  BY <1>1 DEF UniverseInv, BestByVolume, BestByScore, Settled, Late
<1> QED BY <1>3, <1>4, <1>5, <1>6, <1>7 DEF ColdStartInv

\* A process that dies leaves everything where it is.
LEMMA DiesAsItIs ==
    ASSUME ColdStartInv, CallsInv', boot' = "dead",
           UNCHANGED <<setting, listing, universe, volumes, toAsk, scored, task, warmups,
                       regimes, liquid, heard>>
    PROVE  ColdStartInv'
<1>1. StartTypes' /\ AskingInv' /\ HandInv'
  BY DEF ColdStartInv, StartTypes, AskingInv, HandInv, Boots
<1>2. TasksInv' /\ AnswersInv'
  BY DEF ColdStartInv, TasksInv, AnswersInv, Early, Late
<1>3. PhaseInv' /\ UniverseInv'
  BY DEF ColdStartInv, PhaseInv, UniverseInv, BestByVolume, BestByScore, Settled, Early, Late
<1> QED BY <1>1, <1>2, <1>3 DEF ColdStartInv

\* The universe in the order of the names.
LEMMA SortedHas ==
    ASSUME NEW S \in SUBSET SymbolSet
    PROVE  /\ Sorted(S) \in Seq(SymbolSet) /\ EachOnce(Sorted(S))
           /\ \A y : Has(y, Sorted(S)) <=> y \in S
<1>1. Names \in Seq(SymbolSet) /\ EachOnce(Names) /\ \A y : Has(y, Names) <=> y \in SymbolSet
  BY ColdConstants, RangeIn
<1>2. /\ Kept(Names, S) \in Seq(SymbolSet)
      /\ \A y : Has(y, Kept(Names, S)) <=> y \in S /\ Has(y, Names)
      /\ EachOnce(Names) => EachOnce(Kept(Names, S))
  BY <1>1, KeptHas
<1> QED BY <1>1, <1>2 DEF Sorted

\* A phase that is entered asks for the universe it is given, in the order of the names.
LEMMA Enters ==
    ASSUME NEW p \in Boots \ {"dead"}, NEW S \in SUBSET SymbolSet, Enter(p, S)
    PROVE  /\ boot' = p /\ universe' = S /\ toAsk' \in Seq(SymbolSet) /\ AskingInv'
<1>1. boot' = p /\ universe' = S
      /\ toAsk' = IF p \in {"screen", "daily", "ticker"} THEN Sorted(S) ELSE <<>>
  BY DEF Enter
<1>2. Sorted(S) \in Seq(SymbolSet) /\ \A y : Has(y, Sorted(S)) => y \in S
  BY SortedHas
<1>3. \A y : ~Has(y, <<>>)
  BY DEF Has
<1>4. toAsk' \in Seq(SymbolSet)
  BY <1>1, <1>2
<1>5. AskingInv'
  BY <1>1, <1>2, <1>3 DEF AskingInv
<1> QED BY <1>1, <1>4, <1>5

Single == {"screen", "5m", "60m", "daily", "ticker"}

\* What the universe is chosen from are symbols, and the anchor is among them.
LEMMA BaseIsOfSymbols ==
    ASSUME setting \in Settings PROVE Base \in SUBSET SymbolSet /\ AlwaysInclude \subseteq Base
BY ColdConstants DEF Base, Derived

\* From one phase of the screens to the next.
LEMMA ScreensGoOn ==
    ASSUME ColdStartInv, boot \in Early, CallsInv', InHand' = {},
           NEW p \in {"volumes", "names", "screen", "warm"},
           NEW S \in SUBSET Base, AlwaysInclude \subseteq S,
           boot' = p, universe' = S, toAsk' \in Seq(SymbolSet), AskingInv',
           volumes' \in [SymbolSet -> Nat],
           \A s \in SymbolSet, k \in Single : <<s, k>> \in heard' <=> <<s, k>> \in heard,
           p \in {"volumes", "names"} => S = Base /\ <<"all", "names">> \notin heard',
           p = "screen" => setting.capacity > 0,
           p # "warm" \/ <<"all", "names">> \in heard' => setting.pinned = {},
           p = "warm" /\ setting.pinned # {} => S = Base,
           p = "warm" /\ setting.pinned = {} =>
               /\ setting.capacity = 0
               /\ <<"all", "names">> \in heard' =>
                     \A s \in S \ AlwaysInclude, t \in Base \ S : volumes'[s] >= volumes'[t],
           UNCHANGED <<setting, listing, scored, task, warmups, regimes, liquid>>
    PROVE  ColdStartInv'
<1>1. Base' = Base /\ Base \in SUBSET SymbolSet
  BY BaseIsOfSymbols DEF Base, Derived, ColdStartInv, StartTypes
<1>2. \A s \in SymbolSet : task[s] = "none"
  BY DEF ColdStartInv, TasksInv
<1>3. StartTypes'
  BY <1>1 DEF ColdStartInv, StartTypes, Boots, Early
<1>4. TasksInv'
  BY <1>1, <1>2 DEF TasksInv, Late
<1>5. HandInv'
  BY DEF HandInv
<1>6. AnswersInv'
  BY DEF ColdStartInv, AnswersInv, Single
<1>7. PhaseInv'
  <2>1. regimes = {} /\ liquid = {} /\ \A s \in SymbolSet : <<s, "screen">> \notin heard'
    BY DEF ColdStartInv, PhaseInv, Early, Late, Single
  <2> QED BY <2>1 DEF PhaseInv, Early, Late
<1>8. UniverseInv'
  BY <1>1 DEF UniverseInv, BestByVolume, BestByScore, Settled, Late
<1> QED BY <1>3, <1>4, <1>5, <1>6, <1>7, <1>8 DEF ColdStartInv

\* Which phase comes next.
LEMMA OnwardIs ==
    ASSUME setting \in Settings, NEW done \in {"load", "names"}, NEW S
    PROVE  /\ Onward(done, S) \in {"volumes", "screen", "warm"}
           /\ Onward(done, S) = "volumes" => done = "load"
           /\ Onward(done, S) = "screen" => setting.capacity > 0
           /\ Onward(done, S) = "warm" => setting.capacity = 0
<1>1. setting.capacity \in Nat
  BY ColdConstants
<1> QED BY <1>1 DEF Onward

\* The configuration and the instrument snapshot.
LEMMA StepsOfTheLoad ==
    ASSUME ColdStartInv, Configure \/ LoadUniverse PROVE ColdStartInv'
<1>1. boot \in {"configure", "load"} /\ boot \in Early /\ boot \notin {"warm", "dead"}
  BY DEF Configure, LoadUniverse, Early
<1>2. NextCall = {}
  <2>1. toAsk = <<>>
    BY <1>1 DEF ColdStartInv, AskingInv
  <2> QED BY <1>1, <2>1 DEF NextCall
<1>3. InHand = {}
  BY <1>1, <1>2, NothingInHand
<1>4. CallsInv' /\ InHand' = {} /\ UNCHANGED restVars
  <2>1. UNCHANGED restVars
    BY DEF Configure, LoadUniverse
  <2> QED BY <1>3, <2>1 DEF restVars, ColdStartInv, CallsInv, InHand
<1>5. CASE boot' = "dead"
  <2>1. UNCHANGED <<setting, listing, universe, volumes, toAsk, scored, task, warmups,
                    regimes, liquid, heard>>
    <3>1. CASE Configure
      <4>1. CASE setting.live
        BY <3>1, <4>1 DEF Configure
      <4>2. CASE ~setting.live /\ setting.pinned # {}
        BY <1>5, <3>1, <4>2 DEF Configure, Enter
      <4>3. CASE ~setting.live /\ setting.pinned = {}
        BY <1>5, <3>1, <4>3 DEF Configure, Enter
      <4> QED BY <4>1, <4>2, <4>3
    <3>2. CASE LoadUniverse
      <4>1. CASE boot' = Onward("load", Derived)
        BY <1>5, <4>1, OnwardIs DEF ColdStartInv, StartTypes
      <4>2. CASE boot' # Onward("load", Derived)
        BY <3>2, <4>2 DEF LoadUniverse, Enter
      <4> QED BY <4>1, <4>2
    <3> QED BY <3>1, <3>2
  <2> QED BY <1>4, <1>5, <2>1, DiesAsItIs
<1>6. ASSUME NEW p \in {"volumes", "screen", "warm"}, Enter(p, Base),
             p = "screen" => setting.capacity > 0,
             p # "warm" => setting.pinned = {},
             p = "warm" /\ setting.pinned = {} => setting.capacity = 0,
             UNCHANGED <<setting, listing, volumes, scored, task, warmups, regimes, liquid, heard>>
      PROVE  ColdStartInv'
  <2>1. Base \in SUBSET SymbolSet /\ AlwaysInclude \subseteq Base
    BY BaseIsOfSymbols DEF ColdStartInv, StartTypes
  <2>2. boot' = p /\ universe' = Base /\ toAsk' \in Seq(SymbolSet) /\ AskingInv'
    <3>1. p \in Boots \ {"dead"}
      BY <1>6 DEF Boots, Early
    <3> QED BY <1>6, <2>1, <3>1, Enters
  <2>3. <<"all", "names">> \notin heard' /\ volumes' \in [SymbolSet -> Nat]
    BY <1>1, <1>6 DEF ColdStartInv, PhaseInv, StartTypes
  <2> QED BY <1>1, <1>4, <1>6, <2>1, <2>2, <2>3, ScreensGoOn
<1>7. CASE boot' # "dead"
  <2>1. CASE Configure /\ setting.pinned # {}
    <3>1. Base = setting.pinned \cup AlwaysInclude
      BY <2>1 DEF Base
    <3>2. Enter("warm", Base)
          /\ UNCHANGED <<setting, listing, volumes, scored, task, warmups, regimes, liquid, heard>>
      BY <1>7, <2>1, <3>1 DEF Configure
    <3> QED BY <1>6, <2>1, <3>2
  <2>2. CASE LoadUniverse
    <3>1. setting.pinned = {} /\ Base = Derived
      BY <2>2 DEF LoadUniverse, ColdStartInv, PhaseInv, Base
    <3>2. PICK p : p = Onward("load", Derived)
      OBVIOUS
    <3>3. Enter(p, Base)
          /\ UNCHANGED <<setting, listing, volumes, scored, task, warmups, regimes, liquid, heard>>
      BY <1>7, <2>2, <3>1, <3>2 DEF LoadUniverse
    <3>4. /\ p \in {"volumes", "screen", "warm"}
          /\ p = "screen" => setting.capacity > 0
          /\ p = "warm" => setting.capacity = 0
      BY <3>2, OnwardIs DEF ColdStartInv, StartTypes
    <3> QED BY <1>6, <3>1, <3>3, <3>4
  <2>3. CASE Configure /\ setting.pinned = {}
    <3>1. Enter("load", {}) \/ boot' = "dead"
      BY <2>3 DEF Configure
    <3>2. /\ boot' = "load" /\ universe' = {}
          /\ UNCHANGED <<setting, listing, volumes, scored, task, warmups, regimes, liquid, heard>>
      BY <1>7, <2>3, <3>1 DEF Configure, Enter
    <3>3. toAsk' \in Seq(SymbolSet) /\ AskingInv'
      <4>1. "load" \in Boots \ {"dead"} /\ {} \in SUBSET SymbolSet
        BY DEF Boots, Early
      <4> QED BY <1>7, <3>1, <4>1, Enters
    <3>4. /\ \A s \in SymbolSet : task[s] = "none" /\ <<s, "screen">> \notin heard
          /\ regimes = {} /\ liquid = {} /\ <<"all", "names">> \notin heard
      BY <1>1 DEF ColdStartInv, TasksInv, PhaseInv, Late, Early
    <3>5. StartTypes' /\ HandInv'
      BY <1>4, <3>2, <3>3 DEF ColdStartInv, StartTypes, HandInv, Boots, Early
    <3>6. TasksInv' /\ AnswersInv'
      BY <3>2, <3>4 DEF ColdStartInv, TasksInv, AnswersInv, Late
    <3>7. PhaseInv' /\ UniverseInv'
      BY <2>3, <3>2, <3>4 DEF PhaseInv, UniverseInv, BestByVolume, BestByScore, Settled, Late, Early
    <3> QED BY <1>4, <3>3, <3>5, <3>6, <3>7 DEF ColdStartInv
  <2> QED BY <2>1, <2>2, <2>3
<1> QED BY <1>5, <1>7

-----------------------------------------------------------------------------
\* The deepest there are.
LEMMA TopNIsDeepest ==
    ASSUME NEW S \in SUBSET SymbolSet, NEW v \in [SymbolSet -> Nat], NEW n \in Nat,
           NEW s \in TopN(S, v, n) \ AlwaysInclude, NEW t \in S \ TopN(S, v, n)
    PROVE  v[s] >= v[t]
<1> DEFINE D(x) == {u \in S : Deeper(v, u, x)}
<1>1. s \in S /\ Cardinality(D(s)) < n /\ ~(Cardinality(D(t)) < n)
  BY DEF TopN
<1>2. SUFFICES ASSUME v[t] > v[s] PROVE FALSE
  BY <1>1
<1>3. D(t) \subseteq D(s)
  BY <1>1, <1>2 DEF Deeper
<1>4. IsFiniteSet(D(s)) /\ D(s) \subseteq SymbolSet
  <2>1. D(s) \in SUBSET SymbolSet
    OBVIOUS
  <2> HIDE DEF D
  <2> QED BY <2>1, FS_Subset, ColdConstants
<1> HIDE DEF D
<1>5. Cardinality(D(t)) <= Cardinality(D(s)) /\ IsFiniteSet(D(t))
  BY <1>3, <1>4, FS_Subset
<1>6. Cardinality(D(t)) \in Nat /\ Cardinality(D(s)) \in Nat
  BY <1>4, <1>5, FS_CardinalityType
<1> QED BY <1>1, <1>5, <1>6

\* The best there are by what they earned.
LEMMA SelectIsBest ==
    ASSUME NEW U \in SUBSET SymbolSet, NEW v \in [SymbolSet -> Int \cup {None}],
           NEW n \in Nat \ {0}, NEW best, best = SelectViable(v, Sorted(U), n, AlwaysInclude)
    PROVE  /\ best \subseteq U \cup AlwaysInclude /\ AlwaysInclude \subseteq best
           /\ \A s \in best \ AlwaysInclude :
                  /\ v[s] # None /\ v[s] > 0
                  /\ \A t \in U \ best : v[t] # None => v[s] >= v[t]
<1>1. PICK q : q = Sorted(U)
  OBVIOUS
<1>2. q \in Seq(SymbolSet) /\ \A y : Has(y, q) <=> y \in U
  BY <1>1, SortedHas
<1> DEFINE viable == {i \in DOMAIN q : v[q[i]] # None /\ v[q[i]] > 0}
           above(i) == {j \in viable : \/ Outranks(v, q[j], q[i])
                                       \/ v[q[j]] = v[q[i]] /\ j > i}
<1>3. best = {q[i] : i \in {k \in viable : n <= 0 \/ Cardinality(above(k)) < n}} \cup AlwaysInclude
  BY <1>1 DEF SelectViable
<1>4. \A i \in DOMAIN q : q[i] \in U /\ q[i] \in SymbolSet
  BY <1>2 DEF Has
<1>5. IsFiniteSet(DOMAIN q)
  <2>1. PICK m \in Nat : DOMAIN q = 1..m
    BY <1>2
  <2> QED BY <2>1, FS_Interval
<1>6. ASSUME NEW i \in viable, NEW j \in viable, v[q[j]] > v[q[i]],
             Cardinality(above(i)) < n
      PROVE  Cardinality(above(j)) < n
  <2>1. v[q[i]] \in Int /\ v[q[j]] \in Int
    BY <1>4
  <2>2. above(j) \subseteq above(i)
    <3>1. ASSUME NEW k \in above(j) PROVE k \in above(i)
      <4>1. v[q[k]] \in Int
        BY <1>4
      <4>2. v[q[k]] >= v[q[j]]
        BY <2>1, <4>1 DEF Outranks
      <4> QED BY <1>6, <2>1, <4>1, <4>2 DEF Outranks
    <3> QED BY <3>1
  <2>3. above(i) \in SUBSET DOMAIN q
    OBVIOUS
  <2> HIDE DEF above, viable
  <2>4. IsFiniteSet(above(i))
    BY <1>5, <2>3, FS_Subset
  <2>5. Cardinality(above(j)) <= Cardinality(above(i)) /\ IsFiniteSet(above(j))
    BY <2>2, <2>4, FS_Subset
  <2>6. Cardinality(above(j)) \in Nat /\ Cardinality(above(i)) \in Nat
    BY <2>4, <2>5, FS_CardinalityType
  <2> QED BY <1>6, <2>5, <2>6
<1>7. ASSUME NEW s \in best \ AlwaysInclude
      PROVE  /\ s \in U /\ v[s] # None /\ v[s] > 0
             /\ \A t \in U \ best : v[t] # None => v[s] >= v[t]
  <2>1. PICK i \in viable : s = q[i] /\ Cardinality(above(i)) < n
    <3>1. ~(n <= 0)
      OBVIOUS
    <3> HIDE DEF viable, above
    <3> QED BY <1>3, <1>7, <3>1
  <2>2. s \in U /\ v[s] # None /\ v[s] > 0 /\ v[s] \in Int
    BY <1>4, <2>1
  <2>3. ASSUME NEW t \in U \ best, v[t] # None, v[t] > v[s] PROVE FALSE
    <3>1. PICK j \in DOMAIN q : q[j] = t
      BY <1>2 DEF Has
    <3>2. v[t] \in Int
      BY <2>3
    <3>3. j \in viable
      BY <2>2, <2>3, <3>1, <3>2
    <3>4. Cardinality(above(j)) < n
      <4> HIDE DEF viable, above
      <4> QED BY <1>6, <2>1, <2>3, <3>1, <3>3
    <3>5. t \in best
      <4> HIDE DEF viable, above
      <4> QED BY <1>3, <3>1, <3>3, <3>4
    <3> QED BY <2>3, <3>5
  <2>4. \A t \in U \ best : v[t] # None => v[t] \in Int
    OBVIOUS
  <2> QED BY <2>2, <2>3, <2>4
<1>8. best \subseteq U \cup AlwaysInclude /\ AlwaysInclude \subseteq best
  <2>1. AlwaysInclude \subseteq best
    <3> HIDE DEF viable, above
    <3> QED BY <1>3
  <2> QED BY <1>7, <2>1
<1> QED BY <1>7, <1>8

\* The answer to the bulk calls.
LEMMA StepsOfTheBulk ==
    ASSUME ColdStartInv, NEW answer, BulkAnswer(answer) PROVE ColdStartInv'
<1>1. /\ boot \in {"volumes", "names"} /\ boot \in Early /\ boot \notin {"warm", "dead"}
      /\ boot \notin {"screen", "daily", "ticker", "dead"} /\ universe = Base
      /\ setting \in Settings /\ universe \in SUBSET SymbolSet /\ AlwaysInclude \subseteq universe
      /\ volumes \in [SymbolSet -> Nat] /\ setting.pinned = {}
  BY DEF BulkAnswer, Early, ColdStartInv, UniverseInv, StartTypes, PhaseInv
<1>2. PICK call : call = <<"all", boot>>
  OBVIOUS
<1>3. /\ Hear(call, answer)
      /\ heard' = IF answer = "good" THEN heard \cup {call} ELSE heard
  BY <1>2 DEF BulkAnswer, Note
<1>4. CallsInv' /\ InHand' = {}
  <2>1. CallsInv' /\ InHand' = InHand \ {call}
    BY <1>3, HearsOne DEF ColdStartInv
  <2>2. InHand \subseteq {call}
    <3>1. \A s \in universe : task[s] = "none"
      BY <1>1 DEF ColdStartInv, TasksInv
    <3>2. Awaited = {call}
      BY <1>1, <1>2, <3>1 DEF Awaited, NextCall
    <3> QED BY <1>1, <3>2 DEF ColdStartInv, HandInv
  <2> QED BY <2>1, <2>2
<1>5. \A s \in SymbolSet, k \in Single : <<s, k>> \in heard' <=> <<s, k>> \in heard
  <2>1. \A s \in SymbolSet, k \in Single : <<s, k>> # call
    BY <1>1, <1>2 DEF Single
  <2> QED BY <1>3, <2>1
<1>6. <<"all", "names">> \notin heard
  BY <1>1 DEF ColdStartInv, PhaseInv
<1>7. UNCHANGED <<setting, listing, scored, task, warmups, regimes, liquid>>
  BY DEF BulkAnswer
<1>8. CASE boot = "volumes"
  <2>1. boot' = "names" /\ universe' = universe /\ toAsk' = toAsk /\ volumes' \in [SymbolSet -> Nat]
    BY <1>8, ColdConstants DEF BulkAnswer, Unknown
  <2>2. toAsk' \in Seq(SymbolSet) /\ AskingInv'
    BY <1>8, <2>1 DEF ColdStartInv, StartTypes, AskingInv
  <2>3. <<"all", "names">> \notin heard'
    BY <1>2, <1>3, <1>6, <1>8
  <2> QED BY <1>1, <1>4, <1>5, <1>7, <2>1, <2>2, <2>3, ScreensGoOn
<1>9. CASE boot = "names"
  <2>1. PICK v : v = IF answer = "good" THEN volumes ELSE Unknown
    OBVIOUS
  <2>2. PICK S : S = TopN(universe, v, setting.topN)
    OBVIOUS
  <2>3. volumes' = v /\ Enter(Onward("names", S), S)
    BY <1>9, <2>1, <2>2 DEF BulkAnswer
  <2>4. v \in [SymbolSet -> Nat]
    BY <1>1, <2>1 DEF Unknown
  <2>5. S \in SUBSET Base /\ S \in SUBSET SymbolSet /\ AlwaysInclude \subseteq S
    BY <1>1, <2>2 DEF TopN
  <2>6. PICK p : p = Onward("names", S)
    OBVIOUS
  <2>7. /\ p \in {"screen", "warm"}
        /\ p = "screen" => setting.capacity > 0
        /\ p = "warm" => setting.capacity = 0
    BY <1>1, <2>6, OnwardIs
  <2>8. boot' = p /\ universe' = S /\ toAsk' \in Seq(SymbolSet) /\ AskingInv'
    <3>1. p \in Boots \ {"dead"}
      BY <2>7 DEF Boots, Early
    <3> QED BY <2>3, <2>5, <2>6, <3>1, Enters
  <2>9. \A s \in S \ AlwaysInclude, t \in Base \ S : volumes'[s] >= volumes'[t]
    <3>1. setting.topN \in Nat
      BY <1>1, ColdConstants
    <3> QED BY <1>1, <2>2, <2>3, <2>4, <3>1, TopNIsDeepest
  <2> QED BY <1>1, <1>4, <1>5, <1>7, <2>3, <2>4, <2>5, <2>7, <2>8, <2>9, ScreensGoOn
<1> QED BY <1>1, <1>8, <1>9

-----------------------------------------------------------------------------
\* The answer to a phase that asks for one symbol after the other.
LEMMA StepsOfTheSymbols ==
    ASSUME ColdStartInv, NEW answer, SymbolAnswer(answer) PROVE ColdStartInv'
<1>1. PICK s : s = Head(toAsk)
  OBVIOUS
<1>2. PICK call : call = <<s, boot>>
  OBVIOUS
<1>3. /\ boot \in {"screen", "daily", "ticker"} /\ boot \notin {"warm", "dead", "volumes", "names"}
      /\ toAsk # <<>> /\ toAsk' = Tail(toAsk)
      /\ UNCHANGED <<setting, listing, boot, universe, volumes, task, warmups>>
  BY DEF SymbolAnswer
<1>4. /\ Hear(call, answer)
      /\ heard' = IF answer = "good" THEN heard \cup {call} ELSE heard
  BY <1>1, <1>2 DEF SymbolAnswer, Note
<1>5. /\ scored' = IF boot = "screen" /\ answer = "good" THEN [scored EXCEPT ![s] = Scores[s]] ELSE scored
      /\ regimes' = IF boot = "daily" /\ answer = "good" THEN regimes \cup {s} ELSE regimes
      /\ liquid' = IF boot = "ticker" /\ answer = "good" THEN liquid \cup {s} ELSE liquid
  BY <1>1 DEF SymbolAnswer
<1>6. /\ s \in SymbolSet /\ s \in universe /\ toAsk' \in Seq(SymbolSet)
      /\ \A y : Has(y, toAsk') => Has(y, toAsk)
  <2>1. toAsk \in Seq(SymbolSet) /\ \A y : Has(y, toAsk) => y \in universe
    BY DEF ColdStartInv, StartTypes, AskingInv
  <2>2. /\ Head(toAsk) \in SymbolSet /\ Tail(toAsk) \in Seq(SymbolSet)
        /\ \A y : Has(y, toAsk) <=> Has(y, Tail(toAsk)) \/ y = Head(toAsk)
    BY <1>3, <2>1, TailHas
  <2> QED BY <1>1, <1>3, <2>1, <2>2
<1>7. CallsInv' /\ InHand' = {}
  <2>1. CallsInv' /\ InHand' = InHand \ {call}
    BY <1>4, HearsOne DEF ColdStartInv
  <2>2. InHand \subseteq {call}
    <3>1. \A t \in universe : task[t] \notin {"5m", "60m"}
      BY <1>3 DEF ColdStartInv, TasksInv, StartTypes, Late
    <3>2. Awaited \subseteq {call}
      BY <1>1, <1>2, <1>3, <3>1 DEF Awaited, NextCall
    <3> QED BY <1>3, <3>2 DEF ColdStartInv, HandInv
  <2> QED BY <2>1, <2>2
<1>8. StartTypes'
  <2>1. scored' \in [SymbolSet -> Int \cup {None}]
    <3>1. scored \in [SymbolSet -> Int \cup {None}] /\ Scores[s] \in Int \cup {None}
      BY <1>6, ColdConstants DEF ColdStartInv, StartTypes
    <3> QED BY <1>5, <3>1
  <2> QED BY <1>3, <1>6, <2>1 DEF ColdStartInv, StartTypes
<1>9. AskingInv' /\ HandInv'
  BY <1>3, <1>6, <1>7 DEF ColdStartInv, AskingInv, HandInv
<1>10. TasksInv'
  BY <1>3 DEF ColdStartInv, TasksInv
<1>11. /\ \A t \in SymbolSet : <<t, "daily">> \in heard' <=>
              <<t, "daily">> \in heard \/ (boot = "daily" /\ answer = "good" /\ t = s)
       /\ \A t \in SymbolSet : <<t, "ticker">> \in heard' <=>
              <<t, "ticker">> \in heard \/ (boot = "ticker" /\ answer = "good" /\ t = s)
       /\ \A t \in SymbolSet : <<t, "screen">> \in heard' <=>
              <<t, "screen">> \in heard \/ (boot = "screen" /\ answer = "good" /\ t = s)
       /\ \A t \in SymbolSet : <<t, "5m">> \in heard' <=> <<t, "5m">> \in heard
       /\ \A t \in SymbolSet : <<t, "60m">> \in heard' <=> <<t, "60m">> \in heard
       /\ <<"all", "names">> \in heard' <=> <<"all", "names">> \in heard
  BY <1>2, <1>3, <1>4
<1>12. AnswersInv'
  <2>1. scored \in [SymbolSet -> Int \cup {None}]
    BY DEF ColdStartInv, StartTypes
  <2>2. ASSUME NEW t \in SymbolSet
        PROVE  scored'[t] = IF <<t, "screen">> \in heard' THEN Scores[t] ELSE None
    BY <1>5, <1>11, <2>1 DEF ColdStartInv, AnswersInv
  <2> QED BY <1>3, <1>5, <1>11, <2>2 DEF ColdStartInv, AnswersInv
<1>13. PhaseInv'
  BY <1>3, <1>5, <1>6, <1>11 DEF ColdStartInv, PhaseInv, Early, Late
<1>14. UniverseInv'
  <2>1. Base' = Base
    BY <1>3 DEF Base, Derived
  <2>2. boot = "screen" \/ (scored' = scored /\ \A t \in SymbolSet :
                                <<t, "screen">> \in heard' <=> <<t, "screen">> \in heard)
    BY <1>5, <1>11
  <2>3. BestByVolume'
    BY <1>3, <1>11, <2>1 DEF ColdStartInv, UniverseInv, BestByVolume
  <2>4. BestByScore'
    BY <1>3, <2>2 DEF ColdStartInv, UniverseInv, BestByScore, Settled, Late
  <2> QED BY <1>3, <2>1, <2>3, <2>4 DEF ColdStartInv, UniverseInv
<1> QED BY <1>7, <1>8, <1>9, <1>10, <1>12, <1>13, <1>14 DEF ColdStartInv

\* A warm-up that is answered, and one that asks for the second time, change one task.
LEMMA WarmStep ==
    ASSUME ColdStartInv, boot = "warm", CallsInv', NEW s \in universe, NEW st \in TaskStates,
           task[s] # "none", st # "none", task' = [task EXCEPT ![s] = st],
           InHand' = (InHand \ {<<s, task[s]>>}) \cup
                         (IF st \in {"5m", "60m"} THEN {<<s, st>>} ELSE {}),
           heard' = heard \/ heard' = heard \cup {<<s, task[s]>>},
           task[s] \in {"5m", "pause", "60m"},
           <<s, "5m">> \in heard' => st # "5m",
           <<s, "60m">> \in heard' => st = "warm",
           st \in {"pause", "60m", "warm"} => <<s, "5m">> \in heard',
           st = "warm" => <<s, "60m">> \in heard',
           UNCHANGED <<setting, listing, boot, universe, volumes, toAsk, scored, warmups,
                       regimes, liquid>>
    PROVE  ColdStartInv'
<1>1. /\ s \in SymbolSet /\ task \in [SymbolSet -> TaskStates] /\ task' \in [SymbolSet -> TaskStates]
      /\ task'[s] = st /\ \A t \in SymbolSet : t # s => task'[t] = task[t]
      /\ universe \subseteq SymbolSet
  BY DEF ColdStartInv, StartTypes
<1>2. /\ \A t \in SymbolSet, k \in {"screen", "daily", "ticker"} :
              <<t, k>> \in heard' <=> <<t, k>> \in heard
      /\ <<"all", "names">> \in heard' <=> <<"all", "names">> \in heard
      /\ \A t \in SymbolSet, k \in {"5m", "60m"} :
              t # s => (<<t, k>> \in heard' <=> <<t, k>> \in heard)
  OBVIOUS
<1>3. StartTypes' /\ AskingInv'
  BY <1>1 DEF ColdStartInv, StartTypes, AskingInv
<1>4. TasksInv'
  <2>1. ASSUME NEW t \in SymbolSet, task'[t] \in {"5m", "60m"}
        PROVE  <<t, task'[t]>> \in InHand'
    <3>1. CASE t = s
      BY <1>1, <2>1, <3>1
    <3>2. CASE t # s
      <4>1. <<t, task[t]>> \in InHand
        BY <1>1, <2>1, <3>2 DEF ColdStartInv, TasksInv
      <4>2. <<t, task[t]>> # <<s, task[s]>>
        BY <3>2
      <4> QED BY <1>1, <3>2, <4>1, <4>2
    <3> QED BY <3>1, <3>2
  <2>2. \A t \in universe : task'[t] # "none"
    BY <1>1 DEF ColdStartInv, TasksInv
  <2>3. \A t \in SymbolSet : task'[t] # "none" => t \in universe
    BY <1>1 DEF ColdStartInv, TasksInv
  <2> QED BY <2>1, <2>2, <2>3 DEF TasksInv, Early, Late
<1>5. HandInv'
  <2>1. NextCall = {} /\ NextCall' = {}
    BY DEF NextCall, ColdStartInv, AskingInv
  <2>2. ASSUME NEW call \in InHand' PROVE call \in Awaited'
    <3>1. CASE call \in InHand /\ call # <<s, task[s]>>
      <4>1. PICK t \in universe : call = <<t, task[t]>> /\ task[t] \in {"5m", "60m"}
        BY <2>1, <3>1 DEF ColdStartInv, HandInv, Awaited
      <4>2. t # s
        BY <3>1, <4>1
      <4>3. task'[t] = task[t]
        BY <1>1, <4>2
      <4> QED BY <4>1, <4>3 DEF Awaited
    <3>2. CASE call = <<s, st>> /\ st \in {"5m", "60m"}
      BY <1>1, <3>2 DEF Awaited
    <3> QED BY <2>2, <3>1, <3>2
  <2> QED BY <2>2 DEF HandInv
<1>6. AnswersInv'
  <2>1. ASSUME NEW t \in SymbolSet
        PROVE  /\ <<t, "5m">> \in heard' => task'[t] \notin {"none", "5m"}
               /\ <<t, "60m">> \in heard' => task'[t] = "warm"
               /\ task'[t] \in {"pause", "60m", "warm"} => <<t, "5m">> \in heard'
               /\ task'[t] = "warm" => <<t, "60m">> \in heard'
    <3>1. CASE t = s
      BY <1>1, <3>1
    <3>2. CASE t # s
      BY <1>1, <1>2, <3>2 DEF ColdStartInv, AnswersInv
    <3> QED BY <3>1, <3>2
  <2>2. ASSUME NEW t \in SymbolSet
        PROVE  /\ t \in regimes' <=> <<t, "daily">> \in heard'
               /\ t \in liquid' <=> <<t, "ticker">> \in heard'
               /\ scored'[t] = IF <<t, "screen">> \in heard' THEN Scores[t] ELSE None
    BY <1>2 DEF ColdStartInv, AnswersInv
  <2> QED BY <2>1, <2>2 DEF AnswersInv
<1>7. PhaseInv'
  BY <1>2 DEF ColdStartInv, PhaseInv, Early, Late
<1>8. UniverseInv'
  BY <1>2 DEF ColdStartInv, UniverseInv, BestByVolume, BestByScore, Base, Derived
<1> QED BY <1>3, <1>4, <1>5, <1>6, <1>7, <1>8 DEF ColdStartInv

\* The second call of a warm-up, and the answer to either.
LEMMA StepsOfTheWarmUps ==
    ASSUME ColdStartInv, NEW s \in SymbolSet,
           AskSecond(s) \/ \E answer \in Answers : WarmAnswer(s, answer)
    PROVE  ColdStartInv'
<1>1. CASE AskSecond(s)
  <2>1. /\ boot = "warm" /\ task[s] = "pause" /\ task' = [task EXCEPT ![s] = "60m"]
        /\ Ask(<< <<s, "60m">> >>)
        /\ UNCHANGED <<setting, listing, boot, universe, volumes, toAsk, scored, warmups,
                       regimes, liquid, heard>>
    BY <1>1 DEF AskSecond
  <2>2. s \in universe
    BY <2>1 DEF ColdStartInv, TasksInv
  <2>3. <<s, "60m">> \notin InHand /\ <<s, task[s]>> \notin InHand
    <3>1. NextCall = {}
      BY <2>1 DEF NextCall, ColdStartInv, AskingInv
    <3>2. \A k \in {"60m", "pause"} : <<s, k>> \notin Awaited
      BY <2>1, <3>1 DEF Awaited
    <3> QED BY <2>1, <3>2 DEF ColdStartInv, HandInv
  <2>4. <<s, "60m">> \in Callings
    BY DEF Callings, Kinds
  <2>5. CallsInv' /\ InHand' = InHand \cup {<<s, "60m">>}
    BY <2>1, <2>3, <2>4, AskOne, OutstandingIsInHand DEF ColdStartInv
  <2>6. InHand' = (InHand \ {<<s, task[s]>>}) \cup {<<s, "60m">>}
    BY <2>3, <2>5
  <2>7. <<s, "5m">> \in heard /\ <<s, "60m">> \notin heard
    BY <2>1 DEF ColdStartInv, AnswersInv
  <2>8. "60m" \in TaskStates
    BY DEF TaskStates
  <2> QED BY <2>1, <2>2, <2>5, <2>6, <2>7, <2>8, WarmStep
<1>2. ASSUME NEW answer, WarmAnswer(s, answer) PROVE ColdStartInv'
  <2>1. PICK call : call = <<s, task[s]>>
    OBVIOUS
  <2>2. PICK st : st = IF answer # "good" THEN "failed"
                       ELSE IF task[s] = "5m" THEN "pause" ELSE "warm"
    OBVIOUS
  <2>3. /\ boot = "warm" /\ task[s] \in {"5m", "60m"} /\ task' = [task EXCEPT ![s] = st]
        /\ Hear(call, answer)
        /\ heard' = IF answer = "good" THEN heard \cup {call} ELSE heard
        /\ UNCHANGED <<setting, listing, boot, universe, volumes, toAsk, scored, warmups,
                       regimes, liquid>>
    BY <1>2, <2>1, <2>2 DEF WarmAnswer, Note, ColdStartInv, StartTypes
  <2>4. s \in universe /\ st \in TaskStates /\ st \notin {"none", "5m", "60m"}
    BY <2>2, <2>3 DEF ColdStartInv, TasksInv, TaskStates
  <2>5. CallsInv' /\ InHand' = InHand \ {call}
    BY <2>3, HearsOne DEF ColdStartInv
  <2>6. /\ task[s] = "60m" => <<s, "5m">> \in heard
        /\ <<s, "60m">> \notin heard
        /\ <<s, "5m">> \in heard => task[s] # "5m"
    BY <2>3 DEF ColdStartInv, AnswersInv
  <2>7. /\ <<s, "60m">> \in heard' => st = "warm"
        /\ st \in {"pause", "60m", "warm"} => <<s, "5m">> \in heard'
        /\ st = "warm" => <<s, "60m">> \in heard'
    <3>1. CASE answer # "good"
      BY <2>2, <2>3, <2>6, <3>1
    <3>2. CASE answer = "good" /\ task[s] = "5m"
      BY <2>1, <2>2, <2>3, <2>6, <3>2
    <3>3. CASE answer = "good" /\ task[s] = "60m"
      BY <2>1, <2>2, <2>3, <2>6, <3>3
    <3> QED BY <2>3, <3>1, <3>2, <3>3
  <2>8. heard' = heard \/ heard' = heard \cup {<<s, task[s]>>}
    BY <2>1, <2>3
  <2>9. InHand' = (InHand \ {<<s, task[s]>>}) \cup (IF st \in {"5m", "60m"} THEN {<<s, st>>} ELSE {})
    BY <2>1, <2>4, <2>5
  <2> QED BY <2>3, <2>4, <2>5, <2>7, <2>8, <2>9, WarmStep
<1> QED BY <1>1, <1>2

\* All the pairs ask for their first series at once.
LEMMA StepOfTheFirstCalls == ASSUME ColdStartInv, AskFirst PROVE ColdStartInv'
<1>1. PICK q : q = Sorted(universe)
  OBVIOUS
<1>2. PICK calls : calls = [i \in DOMAIN q |-> <<q[i], "5m">>]
  OBVIOUS
<1>3. /\ boot = "warm" /\ \A s \in universe : task[s] = "none"
      /\ task' = [s \in SymbolSet |-> IF s \in universe THEN "5m" ELSE "none"]
      /\ Ask(calls)
      /\ UNCHANGED <<setting, listing, boot, universe, volumes, toAsk, scored, warmups,
                     regimes, liquid, heard>>
  BY <1>1, <1>2 DEF AskFirst
<1>4. universe \in SUBSET SymbolSet
  BY DEF ColdStartInv, StartTypes
<1>5. q \in Seq(SymbolSet) /\ EachOnce(q) /\ \A y : Has(y, q) <=> y \in universe
  BY <1>1, <1>4, SortedHas
<1>6. calls \in Seq(Callings) /\ EachOnce(calls) /\ Range(calls) = {<<s, "5m">> : s \in universe}
  <2>1. PICK n \in Nat : DOMAIN q = 1..n /\ \A i \in 1..n : q[i] \in SymbolSet
    BY <1>5
  <2>2. calls = [i \in 1..n |-> <<q[i], "5m">>]
    BY <1>2, <2>1
  <2>3. \A i \in 1..n : <<q[i], "5m">> \in Callings
    BY <2>1 DEF Callings, Kinds
  <2>4. calls \in Seq(Callings) /\ DOMAIN calls = 1..n /\ \A i \in 1..n : calls[i] = <<q[i], "5m">>
    BY <2>2, <2>3
  <2>5. EachOnce(calls)
    BY <1>5, <2>1, <2>4 DEF EachOnce
  <2>6. ASSUME NEW y PROVE y \in Range(calls) <=> \E s \in universe : y = <<s, "5m">>
    <3>1. y \in Range(calls) <=> \E i \in 1..n : <<q[i], "5m">> = y
      BY <2>4 DEF Range
    <3>2. \A s : s \in universe <=> \E i \in 1..n : q[i] = s
      BY <1>5, <2>1 DEF Has
    <3> QED BY <3>1, <3>2
  <2>7. Range(calls) = {<<s, "5m">> : s \in universe}
    BY <2>6
  <2> QED BY <2>4, <2>5, <2>7
<1>7. NextCall = {} /\ NextCall' = {}
  BY <1>3 DEF NextCall, ColdStartInv, AskingInv
<1>8. InHand = {}
  <2>1. Awaited = {}
    BY <1>3, <1>7 DEF Awaited
  <2> QED BY <1>3, <2>1 DEF ColdStartInv, HandInv
<1>9. CallsInv' /\ InHand' = {<<s, "5m">> : s \in universe}
  <2>1. CallsInv' /\ InHand' = Range(calls)
    BY <1>3, <1>6, <1>8, AskAll DEF ColdStartInv
  <2> QED BY <1>6, <2>1
<1>10. /\ task' \in [SymbolSet -> TaskStates]
       /\ \A s \in SymbolSet : task'[s] = IF s \in universe THEN "5m" ELSE "none"
  BY <1>3 DEF TaskStates
<1>11. StartTypes' /\ AskingInv'
  BY <1>3, <1>10 DEF ColdStartInv, StartTypes, AskingInv
<1>12. TasksInv'
  BY <1>3, <1>4, <1>9, <1>10 DEF TasksInv, Early, Late
<1>13. HandInv'
  BY <1>3, <1>4, <1>9, <1>10 DEF HandInv, Awaited
<1>14. AnswersInv'
  <2>1. \A s \in SymbolSet : <<s, "5m">> \notin heard /\ <<s, "60m">> \notin heard
    BY <1>3 DEF ColdStartInv, AnswersInv, TasksInv
  <2> QED BY <1>3, <1>10, <2>1 DEF ColdStartInv, AnswersInv
<1>15. PhaseInv' /\ UniverseInv'
  BY <1>3 DEF ColdStartInv, PhaseInv, UniverseInv, BestByVolume, BestByScore, Base, Derived
<1> QED BY <1>9, <1>11, <1>12, <1>13, <1>14, <1>15 DEF ColdStartInv

\* The end of the process.
LEMMA StepOfTheEnd ==
    ASSUME ColdStartInv, NEW call, NEW answer, Dies(call, answer) PROVE ColdStartInv'
<1>1. CallsInv'
  BY HearsOne DEF Dies, Note, ColdStartInv
<1>2. heard' = heard
  BY DEF Dies, Note, Kills
<1> QED BY <1>1, <1>2, DiesAsItIs DEF Dies

\* The best of what the screens left.
LEMMA StepOfTheSelection == ASSUME ColdStartInv, ScreenEnds PROVE ColdStartInv'
<1>1. PICK S : S = SelectViable(scored, Sorted(universe), setting.capacity, AlwaysInclude)
  OBVIOUS
<1>2. /\ boot = "screen" /\ toAsk = <<>> /\ Enter("warm", S) /\ UNCHANGED restVars
      /\ UNCHANGED <<setting, listing, volumes, scored, task, warmups, regimes, liquid, heard>>
  BY <1>1 DEF ScreenEnds
<1>3. /\ universe \in SUBSET SymbolSet /\ scored \in [SymbolSet -> Int \cup {None}]
      /\ setting.capacity \in Nat \ {0} /\ AlwaysInclude \subseteq universe /\ universe \subseteq Base
      /\ setting \in Settings /\ Base \in SUBSET SymbolSet /\ setting.pinned = {}
  BY <1>2, ColdConstants, BaseIsOfSymbols DEF ColdStartInv, StartTypes, PhaseInv, UniverseInv
<1>4. /\ S \subseteq universe /\ AlwaysInclude \subseteq S
      /\ \A s \in S \ AlwaysInclude :
             /\ scored[s] # None /\ scored[s] > 0
             /\ \A t \in universe \ S : scored[t] # None => scored[s] >= scored[t]
  <2>1. /\ S \subseteq universe \cup AlwaysInclude /\ AlwaysInclude \subseteq S
        /\ \A s \in S \ AlwaysInclude :
               /\ scored[s] # None /\ scored[s] > 0
               /\ \A t \in universe \ S : scored[t] # None => scored[s] >= scored[t]
    BY <1>1, <1>3, SelectIsBest
  <2> QED BY <1>3, <2>1
<1>5. InHand = {} /\ CallsInv' /\ InHand' = {}
  <2>1. NextCall = {} /\ boot \notin {"warm", "dead"}
    BY <1>2 DEF NextCall
  <2>2. InHand = {}
    BY <2>1, NothingInHand
  <2> QED BY <1>2, <2>2 DEF restVars, ColdStartInv, CallsInv, InHand
<1>6. boot' = "warm" /\ universe' = S /\ toAsk' \in Seq(SymbolSet) /\ AskingInv'
  <2>1. "warm" \in Boots \ {"dead"} /\ S \in SUBSET SymbolSet
    BY <1>3, <1>4 DEF Boots
  <2> QED BY <1>2, <2>1, Enters
<1>7. \A s \in SymbolSet : task[s] = "none"
  BY <1>2 DEF ColdStartInv, TasksInv
<1>8. StartTypes' /\ HandInv'
  BY <1>2, <1>3, <1>4, <1>5, <1>6 DEF ColdStartInv, StartTypes, HandInv, Boots
<1>9. TasksInv' /\ AnswersInv'
  BY <1>2, <1>3, <1>4, <1>6, <1>7 DEF ColdStartInv, TasksInv, AnswersInv, Early, Late
<1>10. PhaseInv'
  BY <1>2, <1>6 DEF ColdStartInv, PhaseInv, Early, Late
<1>11. UniverseInv'
  <2>1. Base' = Base
    BY <1>2 DEF Base, Derived
  <2>2. ASSUME NEW s \in S \ AlwaysInclude, NEW t \in SymbolSet \ S,
               <<t, "screen">> \in heard, Scores[t] # None
        PROVE  Scores[s] >= Scores[t]
    <3>1. s \in SymbolSet /\ t \in universe \ S
      BY <1>2, <1>3, <1>4, <2>2 DEF ColdStartInv, PhaseInv
    <3>2. scored[t] = Scores[t] /\ scored[s] = Scores[s]
      BY <1>4, <2>2, <3>1 DEF ColdStartInv, AnswersInv
    <3> QED BY <1>4, <2>2, <3>1, <3>2
  <2>3. BestByScore'
    BY <1>2, <1>4, <1>6, <2>2 DEF BestByScore
  <2>4. BestByVolume'
    BY <1>2, <1>3 DEF BestByVolume
  <2>5. setting'.pinned = {}
    BY <1>2, <1>3
  <2> QED BY <1>3, <1>4, <1>6, <2>1, <2>3, <2>4, <2>5 DEF UniverseInv
<1> QED BY <1>5, <1>6, <1>8, <1>9, <1>10, <1>11 DEF ColdStartInv

\* From the warm-ups on the universe stays.
LEMMA LateGoesOn ==
    ASSUME ColdStartInv, boot \in Settled, InHand = {}, UNCHANGED restVars, NEW p \in Late, Enter(p, universe),
           p = "daily" => liquid = {},
           \A s \in universe : /\ task[s] \in {"warm", "failed"}
                               /\ warmups'[s] = IF task[s] = "warm" THEN s ELSE None,
           warmups' \in [SymbolSet -> SymbolSet \cup {None}],
           UNCHANGED <<setting, listing, volumes, scored, task, regimes, liquid, heard>>
    PROVE  ColdStartInv'
<1>1. CallsInv' /\ InHand' = {}
  BY DEF restVars, ColdStartInv, CallsInv, InHand
<1>2. universe \in SUBSET SymbolSet
  BY DEF ColdStartInv, StartTypes
<1>3. boot' = p /\ universe' = universe /\ toAsk' \in Seq(SymbolSet) /\ AskingInv'
  <2>1. p \in Boots \ {"dead"}
    BY DEF Boots, Late
  <2> QED BY <1>2, <2>1, Enters
<1>4. StartTypes' /\ HandInv'
  BY <1>1, <1>3 DEF ColdStartInv, StartTypes, HandInv, Boots, Late
<1>5. TasksInv' /\ AnswersInv'
  BY <1>3 DEF ColdStartInv, TasksInv, AnswersInv, Early, Late
<1>6. PhaseInv'
  BY <1>3 DEF ColdStartInv, PhaseInv, Early, Late
<1>7. UniverseInv'
  BY <1>3 DEF ColdStartInv, UniverseInv, BestByVolume, BestByScore, Base, Derived, Settled, Late
<1> QED BY <1>1, <1>3, <1>4, <1>5, <1>6, <1>7 DEF ColdStartInv

\* What was gathered is laid beside the pair it is of.
LEMMA StepOfTheGather == ASSUME ColdStartInv, WarmEnds PROVE ColdStartInv'
<1>1. PICK q : q = Sorted(universe)
  OBVIOUS
<1>2. PICK results : results = [i \in DOMAIN q |-> IF task[q[i]] = "warm" THEN q[i] ELSE None]
  OBVIOUS
<1>3. /\ boot = "warm" /\ \A s \in universe : task[s] \in {"warm", "failed"}
      /\ warmups' = [s \in SymbolSet |-> IF s \in universe
                                         THEN results[CHOOSE i \in DOMAIN q : q[i] = s] ELSE None]
      /\ Enter("daily", universe) /\ UNCHANGED restVars
      /\ UNCHANGED <<setting, listing, volumes, scored, task, regimes, liquid, heard>>
  BY <1>1, <1>2 DEF WarmEnds, Gathered, Returned
<1>4. universe \in SUBSET SymbolSet
  BY DEF ColdStartInv, StartTypes
<1>5. \A y : Has(y, q) <=> y \in universe
  BY <1>1, <1>4, SortedHas
<1>6. ASSUME NEW s \in universe PROVE warmups'[s] = IF task[s] = "warm" THEN s ELSE None
  <2>1. PICK j : j = CHOOSE i \in DOMAIN q : q[i] = s
    OBVIOUS
  <2>2. j \in DOMAIN q /\ q[j] = s
    BY <1>5, <2>1 DEF Has
  <2>3. results[j] = IF task[s] = "warm" THEN s ELSE None
    BY <1>2, <2>2
  <2> QED BY <1>3, <1>4, <2>1, <2>3
<1>7. warmups' \in [SymbolSet -> SymbolSet \cup {None}]
  BY <1>3, <1>4, <1>6
<1>8. InHand = {} /\ liquid = {}
  <2>1. NextCall = {}
    BY <1>3 DEF NextCall, ColdStartInv, AskingInv
  <2>2. Awaited = {}
    BY <1>3, <2>1 DEF Awaited
  <2> QED BY <1>3, <2>2 DEF ColdStartInv, HandInv, PhaseInv, Late
<1>9. boot \in Settled /\ "daily" \in Late
  BY <1>3 DEF Settled, Late
<1> QED BY <1>3, <1>6, <1>7, <1>8, <1>9, LateGoesOn

\* The end of the daily regimes and of the probe.
LEMMA StepsOfTheEnds == ASSUME ColdStartInv, DailyEnds \/ Assembled PROVE ColdStartInv'
<1>1. PICK p : p = IF boot = "daily" THEN "ticker" ELSE "up"
  OBVIOUS
<1>2. /\ boot \in {"daily", "ticker"} /\ toAsk = <<>> /\ Enter(p, universe) /\ UNCHANGED restVars
      /\ UNCHANGED <<setting, listing, volumes, scored, task, warmups, regimes, liquid, heard>>
  BY <1>1 DEF DailyEnds, Assembled
<1>3. InHand = {}
  <2>1. NextCall = {} /\ boot \notin {"warm", "dead"}
    BY <1>2 DEF NextCall
  <2> QED BY <2>1, NothingInHand
<1>4. boot \in Settled /\ boot \in Late /\ p \in Late /\ p # "daily"
  BY <1>1, <1>2 DEF Settled, Late
<1>5. \A s \in universe : /\ task[s] \in {"warm", "failed"}
                          /\ warmups'[s] = IF task[s] = "warm" THEN s ELSE None
  BY <1>2, <1>4 DEF ColdStartInv, TasksInv
<1>6. warmups' \in [SymbolSet -> SymbolSet \cup {None}]
  BY <1>2 DEF ColdStartInv, StartTypes
<1> QED BY <1>2, <1>3, <1>4, <1>5, <1>6, LateGoesOn

-----------------------------------------------------------------------------
\* Every step keeps the invariant.
LEMMA StartStepInv == ColdStartInv /\ [StartNext]_<<restVars, startVars>> => ColdStartInv'
<1> SUFFICES ASSUME ColdStartInv, [StartNext]_<<restVars, startVars>> PROVE ColdStartInv'
  OBVIOUS
<1>1. CASE UNCHANGED <<restVars, startVars>>
  <2>1. CallsInv' /\ InHand' = InHand
    BY <1>1 DEF restVars, ColdStartInv, CallsInv, InHand
  <2> QED BY <1>1, <2>1, QuietStep DEF startVars
<1>2. CASE StartNext
  <2>1. ~Over
    BY <1>2 DEF StartNext
  <2>2. CASE Configure \/ LoadUniverse
    BY <2>2, StepsOfTheLoad
  <2>3. CASE AskNext \/ ((TakeSlot \/ Send) /\ UNCHANGED startVars) \/ Wait
    BY <2>1, <2>3, StepsOfTheClient
  <2>4. CASE AskFirst
    BY <2>4, StepOfTheFirstCalls
  <2>5. ASSUME NEW s \in SymbolSet, AskSecond(s) \/ \E answer \in Answers : WarmAnswer(s, answer)
        PROVE  ColdStartInv'
    BY <2>5, StepsOfTheWarmUps
  <2>6. ASSUME NEW answer \in Answers, BulkAnswer(answer) PROVE ColdStartInv'
    BY <2>6, StepsOfTheBulk
  <2>7. ASSUME NEW answer \in Answers, SymbolAnswer(answer) PROVE ColdStartInv'
    BY <2>7, StepsOfTheSymbols
  <2>8. ASSUME NEW call \in DOMAIN inFlight, NEW answer \in Answers, Dies(call, answer)
        PROVE  ColdStartInv'
    BY <2>8, StepOfTheEnd
  <2>9. CASE ScreenEnds
    BY <2>9, StepOfTheSelection
  <2>10. CASE WarmEnds
    BY <2>10, StepOfTheGather
  <2>11. CASE DailyEnds \/ Assembled
    BY <2>11, StepsOfTheEnds
  <2> QED
    BY <1>2, <2>2, <2>3, <2>4, <2>5, <2>6, <2>7, <2>8, <2>9, <2>10, <2>11 DEF StartNext
<1> QED BY <1>1, <1>2

\* The cold start keeps its invariant, whatever the environment asks for, the exchange
\* lists and the calls answer.
THEOREM ColdStartInvariant == StartSpec => []ColdStartInv
<1>1. StartInit => ColdStartInv
  BY BeginsCold
<1>2. ColdStartInv /\ [StartNext]_<<restVars, startVars>> => ColdStartInv'
  BY StartStepInv
<1> QED BY <1>1, <1>2, PTL DEF StartSpec

\* While nobody sleeps no slot is kept.
LEMMA NoSlotAwake ==
    RestInv /\ (~asleep => slot = 0) /\ [RestNext]_restVars => (~asleep => slot = 0)'
<1> SUFFICES ASSUME RestInv, ~asleep => slot = 0, [RestNext]_restVars PROVE (~asleep => slot = 0)'
  OBVIOUS
<1>1. ASSUME NEW calls, Ask(calls) PROVE (~asleep => slot = 0)'
  BY <1>1 DEF Ask
<1>2. CASE TakeSlot \/ Send \/ RestTick
  BY <1>2 DEF TakeSlot, Send, RestTick
<1>3. ASSUME NEW call, NEW answer, Hear(call, answer) PROVE (~asleep => slot = 0)'
  BY <1>3 DEF Hear
<1>4. CASE UNCHANGED restVars
  BY <1>4 DEF restVars
<1> QED BY <1>1, <1>2, <1>3, <1>4 DEF RestNext

\* What the cold start's invariant says of the process that is up, of the universe
\* and of who waits.
LEMMA SoundByInvariant ==
    ASSUME ColdStartInv, RestInv, ~asleep => slot = 0 PROVE StartIsSound
<1>1. StartTypeOK
  <2>1. slot >= -WakeDelay
    BY RestConstants DEF RestInv, RestTypeOK, SlotKeepsThePace
  <2>2. DOMAIN inFlight \cap Range(callers) = {}
    BY RangeIn DEF ColdStartInv, CallsInv
  <2>3. \A s \in SymbolSet : warmups[s] \in SymbolSet \cup {None}
    BY DEF ColdStartInv, StartTypes
  <2> QED BY <2>1, <2>2, <2>3 DEF StartTypeOK, ColdStartInv, StartTypes, PhaseInv
<1>2. FailureIsItsOwn
  <2> SUFFICES ASSUME boot = "up", NEW s \in universe
               PROVE  /\ Ready(s) <=> {<<s, "5m">>, <<s, "60m">>, <<s, "daily">>} \subseteq heard
                      /\ warmups[s] \in {s, None}
                      /\ s \in liquid <=> <<s, "ticker">> \in heard
    BY DEF FailureIsItsOwn
  <2>1. s \in SymbolSet /\ s # None
    BY ColdConstants DEF ColdStartInv, StartTypes
  <2>2. task[s] \in {"warm", "failed"} /\ warmups[s] = IF task[s] = "warm" THEN s ELSE None
    BY DEF ColdStartInv, TasksInv, Late
  <2>3. /\ s \in regimes <=> <<s, "daily">> \in heard
        /\ s \in liquid <=> <<s, "ticker">> \in heard
        /\ <<s, "60m">> \in heard => task[s] = "warm"
        /\ task[s] = "warm" => <<s, "5m">> \in heard
        /\ task[s] = "warm" => <<s, "60m">> \in heard
    BY <2>1 DEF ColdStartInv, AnswersInv
  <2>4. warmups[s] # None <=> task[s] = "warm"
    BY <2>1, <2>2
  <2> QED BY <2>2, <2>3, <2>4 DEF Ready
<1>3. UniverseIsTheBest
  <2> SUFFICES ASSUME boot \in {"warm", "daily", "ticker", "up"}
               PROVE  /\ AlwaysInclude \subseteq universe
                      /\ setting.pinned # {} => universe = setting.pinned \cup AlwaysInclude
                      /\ setting.pinned = {} => \A s \in universe \ AlwaysInclude : BestOfTheRest(s)
    BY DEF UniverseIsTheBest
  <2>1. AlwaysInclude \subseteq universe /\ universe \subseteq Base /\ boot \in Settled
    BY DEF ColdStartInv, UniverseInv, Settled, Late
  <2>2. ASSUME setting.pinned # {} PROVE universe = setting.pinned \cup AlwaysInclude
    BY <2>1, <2>2 DEF ColdStartInv, UniverseInv, Base
  <2>3. ASSUME setting.pinned = {}, NEW s \in universe \ AlwaysInclude PROVE BestOfTheRest(s)
    <3>1. Base = Derived /\ listing[s] = "online"
      BY <2>1, <2>3 DEF Base, Derived
    <3>2. ASSUME NEW t \in SymbolSet \ universe, <<t, "screen">> \in heard, Scores[t] # None
          PROVE  Scores[s] >= Scores[t]
      <4>1. setting.capacity > 0
        BY <3>2 DEF ColdStartInv, PhaseInv
      <4> QED BY <2>1, <2>3, <3>2, <4>1 DEF ColdStartInv, UniverseInv, BestByScore
    <3>3. ASSUME NEW t \in Derived \ universe, setting.capacity = 0, <<"all", "names">> \in heard
          PROVE  volumes[s] >= volumes[t]
      BY <2>1, <2>3, <3>1, <3>3 DEF ColdStartInv, UniverseInv, BestByVolume
    <3>4. ASSUME setting.capacity > 0 PROVE scored[s] # None /\ scored[s] > 0
      BY <2>1, <2>3, <3>4 DEF ColdStartInv, UniverseInv, BestByScore
    <3> QED BY <3>1, <3>2, <3>3, <3>4 DEF BestOfTheRest
  <2> QED BY <2>1, <2>2, <2>3
<1>4. StartNeverHangs
  <2> SUFFICES ASSUME ~Over
               PROVE  /\ Range(callers) \cup DOMAIN inFlight \subseteq Awaited
                      /\ boot = "warm" =>
                             \/ \A s \in universe : task[s] = "none"
                             \/ \A s \in universe : task[s] \in Returned
                             \/ \E s \in universe : task[s] = "pause" \/ Outstanding(<<s, task[s]>>)
    BY DEF StartNeverHangs
  <2>1. InHand \subseteq Awaited
    BY DEF Over, ColdStartInv, HandInv
  <2>2. ASSUME boot = "warm", NEW s \in universe, task[s] # "none", task[s] \notin Returned
        PROVE  task[s] = "pause" \/ Outstanding(<<s, task[s]>>)
    <3>1. s \in SymbolSet /\ task[s] \in {"5m", "pause", "60m"}
      BY <2>2 DEF ColdStartInv, StartTypes, TaskStates, Returned
    <3> QED BY <2>2, <3>1, OutstandingIsInHand DEF ColdStartInv, TasksInv
  <2>3. boot = "warm" => \/ \A s \in universe : task[s] = "none"
                         \/ \A s \in universe : task[s] # "none"
    BY DEF ColdStartInv, TasksInv
  <2> QED BY <2>1, <2>2, <2>3 DEF InHand
<1> QED BY <1>1, <1>2, <1>3, <1>4 DEF StartIsSound

\* Whatever fails, and in whatever order the answers come, a process that is up
\* trades the pairs whose own answers were good, the universe is what was pinned or
\* the best of what there was, and nobody waits for what does not come.
THEOREM StartsSoundly == StartSpec => []StartIsSound
<1>1. StartInit => (~asleep => slot = 0)
  BY DEF StartInit, RestInit
<1>2. RestInv /\ (~asleep => slot = 0) /\ [StartNext]_<<restVars, startVars>> => (~asleep => slot = 0)'
  BY NoSlotAwake, StartUsesTheClient
<1>3. ColdStartInv /\ RestInv /\ (~asleep => slot = 0) => StartIsSound
  BY SoundByInvariant
<1> QED BY <1>1, <1>2, <1>3, StartInvariant, ColdStartInvariant, PTL DEF StartSpec

------------------------------------------------------------------------------
(* The equity of the short wallet. *)

FillFrame(e) == [kind |-> "fill", entry |-> e]
BalanceFrame(cash) == [kind |-> "balance", cash |-> cash]

EquityTypes ==
    /\ account \in [cash : Int, entry : Int, blocks : 0 .. MaxBlocks]
    /\ short \in [entry : Int, blocks : 0 .. MaxBlocks, stamped : BOOLEAN]
    /\ ask \in Int /\ wallet \in Int /\ offset \in Int /\ poll \in Int /\ carried \in Int
    /\ account.entry = 0 => account.blocks = 0
    /\ short.entry = 0 => short.blocks = 0

\* With no frame under way wallet and mirror are the account's; a frame under way
\* brings one of them there.
InStep ==
    \/ frames = <<>> /\ wallet = account.cash /\ short.entry = account.entry
    \/ frames = <<FillFrame(account.entry)>> /\ wallet = account.cash
    \/ frames = <<BalanceFrame(account.cash)>> /\ short.entry = account.entry
    \/ /\ frames \in {<<FillFrame(0), BalanceFrame(account.cash)>>,
                      <<BalanceFrame(account.cash), FillFrame(0)>>}
       /\ account.entry = 0

\* What was polled is still the equity if nothing has happened since.
PollIsCurrent == fresh => frames = <<>> /\ (poll # -1 => poll = Equity)

\* An offset taken without a race is the rollover misjudged by then.
OffsetIsTheRollover == clean => offset = carried

EquityInv == EquityTypes /\ InStep /\ PollIsCurrent /\ OffsetIsTheRollover

\* What is worth what stays a whole number.
LEMMA WorthIsInt ==
    ASSUME EquityInv
    PROVE  /\ Unrealised(account, Fee) \in Int /\ Equity \in Int
           /\ Unrealised(short, Estimate) \in Int /\ Reconstructed \in Int
           /\ Misjudged \in Int
<1>1. /\ account.cash \in Int /\ account.entry \in Int /\ account.blocks \in Int
      /\ short.entry \in Int /\ short.blocks \in Int /\ ask \in Int /\ wallet \in Int
  BY DEF EquityInv, EquityTypes
<1>2. Fee * account.blocks \in Int /\ Estimate * short.blocks \in Int
  BY <1>1, EquityAssumption
<1> QED BY <1>1, <1>2 DEF Equity, Reconstructed, Unrealised, Misjudged

\* In step, the account is worth what is reconstructed but for the rollover.
LEMMA InStepGap ==
    ASSUME EquityInv, frames = <<>>
    PROVE  Equity - Reconstructed = Misjudged
<1>1. wallet = account.cash /\ short.entry = account.entry
  BY DEF EquityInv, InStep
<1>2. /\ account.cash \in Int /\ account.entry \in Int /\ ask \in Int
      /\ account.entry = 0 => account.blocks = 0 /\ short.blocks = 0
  BY <1>1 DEF EquityInv, EquityTypes
<1> DEFINE charged == Fee * account.blocks
           estimated == Estimate * short.blocks
<1>3. charged \in Int /\ estimated \in Int
  BY EquityAssumption DEF EquityInv, EquityTypes
<1>4. account.entry = 0 => charged = 0 /\ estimated = 0
  BY <1>2, EquityAssumption
<1>5. /\ Equity = account.cash + (IF account.entry = 0 THEN 0 ELSE account.entry - ask - charged)
      /\ Reconstructed = account.cash + (IF account.entry = 0 THEN 0
                                         ELSE account.entry - ask - estimated)
      /\ Misjudged = estimated - charged
  BY <1>1 DEF Equity, Reconstructed, Unrealised, Misjudged
<1> HIDE DEF charged, estimated
<1> QED BY <1>2, <1>3, <1>4, <1>5

LEMMA InitEquity == EquityInit => EquityInv
<1> SUFFICES ASSUME EquityInit PROVE EquityInv
  OBVIOUS
<1> USE EquityAssumption
<1>1. EquityTypes
  BY DEF EquityInit, EquityTypes, NoShort
<1>2. InStep
  BY DEF EquityInit, InStep, NoShort, BalanceFrame
<1>3. PollIsCurrent /\ OffsetIsTheRollover
  BY DEF EquityInit, PollIsCurrent, OffsetIsTheRollover
<1> QED BY <1>1, <1>2, <1>3 DEF EquityInv

LEMMA StepEquity == EquityInv /\ [EquityNext]_equityVars => EquityInv'
<1> SUFFICES ASSUME EquityInv, [EquityNext]_equityVars PROVE EquityInv'
  OBVIOUS
<1> USE EquityAssumption DEF EquityInv
<1>1. CASE UNCHANGED equityVars
  BY <1>1 DEF equityVars, EquityTypes, InStep, PollIsCurrent, OffsetIsTheRollover,
              Equity, Unrealised
<1>2. ASSUME NEW a \in Asks, AskMoves(a) PROVE EquityInv'
  BY <1>2 DEF AskMoves, EquityTypes, InStep, PollIsCurrent, OffsetIsTheRollover
<1>3. CASE BlockCharged
  <2>1. EquityTypes' /\ account'.entry = account.entry /\ account'.cash = account.cash
    BY <1>3 DEF BlockCharged, EquityTypes
  <2>2. InStep'
    BY <1>3, <2>1 DEF BlockCharged, InStep
  <2>3. PollIsCurrent' /\ OffsetIsTheRollover'
    BY <1>3 DEF BlockCharged, PollIsCurrent, OffsetIsTheRollover
  <2> QED BY <2>1, <2>2, <2>3
<1>4. CASE BlockCounted
  <2>1. EquityTypes' /\ short'.entry = short.entry
    BY <1>4 DEF BlockCounted, EquityTypes
  <2>2. InStep'
    BY <1>4, <2>1 DEF BlockCounted, InStep
  <2>3. PollIsCurrent' /\ OffsetIsTheRollover'
    BY <1>4 DEF BlockCounted, PollIsCurrent, OffsetIsTheRollover
  <2> QED BY <2>1, <2>2, <2>3
<1>5. CASE ShortOpens
  <2>1. EquityTypes'
    BY <1>5 DEF ShortOpens, EquityTypes
  <2>2. account'.entry = ask /\ account'.cash = account.cash
    BY <1>5 DEF ShortOpens, EquityTypes
  <2>3. wallet = account.cash
    BY <1>5 DEF ShortOpens, InStep
  <2>4. InStep'
    BY <1>5, <2>2, <2>3 DEF ShortOpens, InStep, FillFrame
  <2>5. PollIsCurrent' /\ OffsetIsTheRollover'
    BY <1>5 DEF ShortOpens, PollIsCurrent, OffsetIsTheRollover
  <2> QED BY <2>1, <2>4, <2>5
<1>6. CASE ShortCloses
  <2>1. EquityTypes'
    BY <1>6, WorthIsInt DEF ShortCloses, EquityTypes
  <2>2. InStep'
    BY <1>6 DEF ShortCloses, InStep, FillFrame, BalanceFrame
  <2>3. PollIsCurrent' /\ OffsetIsTheRollover'
    BY <1>6 DEF ShortCloses, PollIsCurrent, OffsetIsTheRollover
  <2> QED BY <2>1, <2>2, <2>3
<1>7. CASE Deliver
  <2>1. UNCHANGED account
    BY <1>7 DEF Deliver
  <2>2. CASE frames = <<FillFrame(account.entry)>> /\ wallet = account.cash
    <3>1. Head(frames) = FillFrame(account.entry) /\ frames' = <<>> /\ wallet' = wallet
      BY <1>7, <2>2 DEF Deliver, FillFrame
    <3>2. IF account.entry = 0 THEN short' = NoShort
          ELSE \E stamped \in BOOLEAN :
                   short' = [entry |-> account.entry, blocks |-> 0, stamped |-> stamped]
      BY <1>7, <3>1 DEF Deliver, FillFrame
    <3>3. /\ short'.entry = account.entry /\ short'.blocks = 0
          /\ short' \in [entry : Int, blocks : 0 .. MaxBlocks, stamped : BOOLEAN]
      <4>1. account.entry \in Int /\ 0 \in 0 .. MaxBlocks
        BY DEF EquityTypes
      <4>2. CASE account.entry = 0
        <5>1. short' = [entry |-> 0, blocks |-> 0, stamped |-> FALSE]
          BY <3>2, <4>2 DEF NoShort
        <5>2. /\ short'.entry = 0 /\ short'.blocks = 0
              /\ short' \in [entry : Int, blocks : 0 .. MaxBlocks, stamped : BOOLEAN]
          BY <4>1, <5>1
        <5> QED BY <4>2, <5>2
      <4>3. CASE account.entry # 0
        BY <3>2, <4>1, <4>3
      <4> QED BY <4>2, <4>3
    <3>4. EquityTypes'
      BY <1>7, <2>1, <3>1, <3>3 DEF Deliver, EquityTypes
    <3>5. InStep'
      BY <2>1, <2>2, <3>1, <3>3 DEF InStep
    <3>6. PollIsCurrent' /\ OffsetIsTheRollover'
      BY <1>7 DEF Deliver, PollIsCurrent, OffsetIsTheRollover
    <3> QED BY <3>4, <3>5, <3>6
  <2>3. CASE frames = <<BalanceFrame(account.cash)>> /\ short.entry = account.entry
    <3>1. frames' = <<>> /\ wallet' = account.cash /\ short' = short
      BY <1>7, <2>3 DEF Deliver, BalanceFrame
    <3>2. EquityTypes'
      BY <1>7, <2>1, <3>1 DEF Deliver, EquityTypes
    <3> QED
      BY <1>7, <2>1, <2>3, <3>1, <3>2 DEF Deliver, InStep, PollIsCurrent, OffsetIsTheRollover
  <2>4. CASE frames = <<FillFrame(0), BalanceFrame(account.cash)>> /\ account.entry = 0
    <3>1. Head(frames) = FillFrame(0) /\ frames' = <<BalanceFrame(account.cash)>>
          /\ wallet' = wallet
      BY <1>7, <2>4 DEF Deliver, FillFrame, BalanceFrame
    <3>2. short' = NoShort
      BY <1>7, <3>1 DEF Deliver, FillFrame
    <3>3. short'.entry = 0 /\ EquityTypes'
      BY <1>7, <2>1, <3>1, <3>2 DEF Deliver, EquityTypes, NoShort
    <3> QED
      BY <1>7, <2>1, <2>4, <3>1, <3>3 DEF Deliver, InStep, PollIsCurrent, OffsetIsTheRollover
  <2>5. CASE frames = <<BalanceFrame(account.cash), FillFrame(0)>> /\ account.entry = 0
    <3>1. frames' = <<FillFrame(account.entry)>> /\ wallet' = account.cash /\ short' = short
      BY <1>7, <2>5 DEF Deliver, FillFrame, BalanceFrame
    <3>2. EquityTypes'
      BY <1>7, <2>1, <3>1 DEF Deliver, EquityTypes
    <3> QED
      BY <1>7, <2>1, <3>1, <3>2 DEF Deliver, InStep, PollIsCurrent, OffsetIsTheRollover
  <2> QED BY <1>7, <2>2, <2>3, <2>4, <2>5 DEF Deliver, InStep
<1>8. CASE PollStarts
  BY <1>8, WorthIsInt DEF PollStarts, EquityTypes, InStep, PollIsCurrent,
                          OffsetIsTheRollover, Equity, Unrealised
<1>9. CASE PollSkipped
  BY <1>9 DEF PollSkipped, EquityTypes, InStep, PollIsCurrent, OffsetIsTheRollover
<1>10. CASE PollAnswered
  <2>1. EquityTypes' /\ InStep' /\ PollIsCurrent'
    BY <1>10, WorthIsInt DEF PollAnswered, EquityTypes, InStep, PollIsCurrent,
                             RawReconstruction
  <2>2. OffsetIsTheRollover'
    <3>1. SUFFICES ASSUME fresh PROVE offset' = Misjudged
      BY <1>10 DEF PollAnswered, OffsetIsTheRollover
    <3>2. frames = <<>> /\ poll = Equity
      BY <1>10, <3>1 DEF PollAnswered, PollIsCurrent
    <3>3. offset' = Equity - Reconstructed
      BY <1>10, <3>2 DEF PollAnswered, RawReconstruction
    <3> QED BY <3>2, <3>3, InStepGap
  <2> QED BY <2>1, <2>2
<1> QED
  BY <1>1, <1>2, <1>3, <1>4, <1>5, <1>6, <1>7, <1>8, <1>9, <1>10 DEF EquityNext

\* The hourly poll lands the short portfolio on Kraken's equity when nothing came
\* between, and then only the rollover misjudged since takes it off, for all prices,
\* fees and estimates, two clocks, and any number of trades and polls.
THEOREM OnlyRacesMisjudge ==
    EquityInit /\ [][EquityNext]_equityVars => EquityIsReconciled
<1>1. EquityInv /\ [EquityNext]_equityVars =>
          [PollAnswered /\ fresh
             => wallet' + Unrealised(short, Estimate) + offset' = Equity]_equityVars
  <2> SUFFICES ASSUME EquityInv, PollAnswered, fresh
               PROVE  wallet' + Unrealised(short, Estimate) + offset' = Equity
    OBVIOUS
  <2>1. wallet' = wallet /\ offset' = poll - Reconstructed /\ poll = Equity
    BY DEF EquityInv, PollIsCurrent, PollAnswered, RawReconstruction
  <2>2. wallet \in Int /\ Unrealised(short, Estimate) \in Int /\ Equity \in Int
    BY WorthIsInt DEF EquityInv, EquityTypes
  <2> QED BY <2>1, <2>2 DEF Reconstructed
<1>2. EquityInv => WrongOnlyByTheRollover
  <2> SUFFICES ASSUME EquityInv, frames = <<>>, clean
               PROVE  ShortPortfolio - Equity = carried - Misjudged
    BY DEF WrongOnlyByTheRollover
  <2>1. Equity - Reconstructed = Misjudged /\ offset = carried
    BY InStepGap DEF EquityInv, OffsetIsTheRollover
  <2>2. /\ Equity \in Int /\ Reconstructed \in Int /\ Misjudged \in Int /\ carried \in Int
    BY WorthIsInt DEF EquityInv, EquityTypes
  <2> QED BY <2>1, <2>2 DEF ShortPortfolio
<1> QED
  BY <1>1, <1>2, InitEquity, StepEquity, PTL DEF EquityIsReconciled, LandsOnTheEquity

===============================================================================
