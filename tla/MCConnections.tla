----------------------------- MODULE MCConnections -----------------------------
(***************************************************************************)
(* What the bot asks of the exchange, in three parts that share nothing in *)
(* their models: the connections, with two shards that share the bucket    *)
(* and the coordinator, one that may lose its line, and the private        *)
(* connection; the cold start over one paced REST client; the hourly       *)
(* reconcile of the equity of the short wallet.                            *)
(***************************************************************************)
EXTENDS Connections, StartUp, EquityReconcile

UniverseTwo == <<"A/USD", "B/USD">>

Deployment(conns, n, what) == [active |-> conns, drops |-> n, faults |-> what]
AllDeployments ==
    { Deployment({0, 1}, 0, {}),
      Deployment({0}, 2, {"stalled", "mute", "reject", "maintenance",
                            "connect"}),
      Deployment({Private}, 2, {"stalled", "mute", "skip"}) }
BackoffSeed == <<0, 1>>

MCNames == <<"BTC", "ETH", "SOL">>
Listing(eth, sol) == [BTC |-> "online", ETH |-> eth, SOL |-> sol]
MCListings == {Listing("online", "online"), Listing("foreign", "online")}
Setting(inLive, pinned, n, capacity) ==
    [live |-> inLive, pinned |-> pinned, topN |-> n, capacity |-> capacity]
MCSettings == {Setting(TRUE, {}, 0, 0), Setting(FALSE, {"ETH"}, 1, 1), Setting(FALSE, {}, 0, 0),
               Setting(FALSE, {}, 2, 0), Setting(FALSE, {}, 0, 1), Setting(FALSE, {}, 2, 1)}
MCVolumes == [BTC |-> 4, ETH |-> 3, SOL |-> 5]
MCRsiBounds == [long |-> {30, 70}, short |-> {80, 40}]
MCScores == [BTC |-> -1, ETH |-> 2, SOL |-> 1]

VARIABLE part

exchangeVars == <<part, vars, restVars, startVars, equityVars>>

\* A part that does not run stands in one of its initial states.
ExchangeInit ==
    /\ part \in {"connections", "startup", "equity"}
    /\ Init /\ (part # "connections" => active = {Private})
    /\ StartInit /\ (part # "startup" => setting.live /\ listing.ETH = "online")
    /\ EquityInit /\ (part # "equity" => ask = Deposit \div 2)

Within(p) == part = p /\ UNCHANGED part

ExchangeNext ==
    \/ Within("connections") /\ Next /\ UNCHANGED <<restVars, startVars, equityVars>>
    \/ Within("startup") /\ StartNext /\ UNCHANGED <<vars, equityVars>>
    \/ Within("equity") /\ EquityNext /\ UNCHANGED <<vars, restVars, startVars>>
    \* The start alone must end or go on; an exception ends the connections, the bounds
    \* end the equity.
    \/ (part = "startup" => Over) /\ UNCHANGED exchangeVars

\* Fairness is of the tasks of the connections: no behaviour of another part is fair, and
\* what must come to pass is claimed of the connections alone.
ExchangeSpec == ExchangeInit /\ [][ExchangeNext]_exchangeVars /\ Fairness
================================================================================
