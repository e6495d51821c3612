------------------------------- MODULE ShardPlan -------------------------------
(***************************************************************************)
(* How the universe is spread over public connections (exchange/           *)
(* sharding.py), what each connection subscribes to (exchange/assembler.py)*)
(* and the order of the steps that restore a connection (exchange/         *)
(* reconnect.py).  Pure definitions, used by Connections.                  *)
(***************************************************************************)
EXTENDS Integers, Sequences

CONSTANTS
    Universe,            \* the pairs, each once, in the order of the universe
    SYMBOLS_PER_CONN,    \* pairs one connection carries
    Backoff,             \* the delays of the first attempts of Scenario A
    BackoffCap,          \* the delay of every later one
    MinDelayB            \* the delay of every attempt of Scenario B

ASSUME PlanAssumption ==
    /\ Universe \in Seq(STRING) /\ Len(Universe) > 0
    /\ \A i, j \in DOMAIN Universe : Universe[i] = Universe[j] => i = j
    /\ SYMBOLS_PER_CONN \in Nat \ {0}
    /\ Backoff \in Seq(Nat)
    /\ BackoffCap \in Nat /\ MinDelayB \in Nat

Pairs == {Universe[i] : i \in DOMAIN Universe}

\* n_conns: the ceiling of the division, at least one connection.
NConns ==
    LET n == (Len(Universe) + SYMBOLS_PER_CONN - 1) \div SYMBOLS_PER_CONN
    IN  IF n > 1 THEN n ELSE 1

Shards == 0 .. NConns - 1

\* Round robin: pair i of the universe (from 0) is on connection i mod n.
ShardIndexFor(i) == i % NConns
PairsOf ==
    [k \in Shards |-> {Universe[i] : i \in {j \in DOMAIN Universe : ShardIndexFor(j - 1) = k}}]

\* The pairs of a connection in the order they were appended to its bucket.
BucketSize(k) == ((Len(Universe) - 1 - k) \div NConns) + 1
Bucket(k) == [i \in 1 .. BucketSize(k) |-> Universe[NConns * (i - 1) + k + 1]]

\* The clock shard carries the global channel; every pair has two channels.
GlobalChannels(k) == IF k = 0 THEN <<"instrument">> ELSE <<>>
PerPairChannels == <<"ohlc_5m", "ticker">>

\* subscribe_requests: the global ones, then pair by pair.
SubscribeRequests ==
    [k \in Shards |->
        [i \in DOMAIN GlobalChannels(k) |->
            [channel |-> GlobalChannels(k)[i], symbol |-> "none"]]
        \o [i \in 1 .. 2 * BucketSize(k) |->
               [channel |-> PerPairChannels[((i - 1) % 2) + 1],
                symbol |-> Bucket(k)[((i - 1) \div 2) + 1]]]]

PrivateRequests ==
    << [channel |-> "executions", symbol |-> "none"],
       [channel |-> "balances", symbol |-> "none"] >>

----------------------------------------------------------------------------
(* RESTORE_SEQUENCE, less the steps of the other side.                     *)

\* Mutants: each forgets a step.
WithoutResubscribe ==
    << "RECONNECT_SOCKET", "RESUME_KEEPALIVE", "RESTORE_TICKER_TRIGGER" >>
WithoutReset ==
    << "ACQUIRE_WS_TOKEN", "RECONNECT_SOCKET", "RESUBSCRIBE_PRIVATE", "RESUME_KEEPALIVE",
       "RESTORE_POSITION_MIRROR" >>

\* build_restore_sequence, which the public driver always asks for in its paper form.
PublicRestoreSequence ==
    << "RECONNECT_SOCKET", "RESUBSCRIBE_PUBLIC", "RESUME_KEEPALIVE", "RESTORE_TICKER_TRIGGER" >>

\* build_private_restore_sequence.
PrivateRestoreSequence ==
    << "ACQUIRE_WS_TOKEN", "RECONNECT_SOCKET", "RESUBSCRIBE_PRIVATE", "RESET_RATE_CEILING",
       "RESUME_KEEPALIVE", "RESTORE_POSITION_MIRROR" >>

SelectScenario(reason) ==
    IF reason = "maintenance" THEN "scenario_b" ELSE "scenario_a"

ReconnectDelay(scenario, attempt) ==
    CASE scenario = "scenario_b"  -> MinDelayB
      [] scenario = "scenario_a" /\ attempt <= Len(Backoff) -> Backoff[attempt]
      [] OTHER -> BackoffCap
================================================================================
