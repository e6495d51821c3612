-------------------------- MODULE MCEntryDecision --------------------------
(***************************************************************************)
(* Two symbols of the long wallet and one of the short.  A good feed of    *)
(* each side, the ways a gate refuses it, and quotes that close with a     *)
(* win, a small loss, a loss at the L2 stop and a gap through both stops.  *)
(***************************************************************************)
EXTENDS EntryDecision

CONSTANTS s1, s2, s3

LongAndShort == {<<"long", s1>>, <<"long", s2>>, <<"short", s3>>}

SeedRegistry ==
    [min_volume_usd_daily |-> 500, sc_body_threshold |-> 3000, sc_cooldown_seconds |-> 1,
     sc_consecutive_limit |-> 2, full_halt_drawdown_pct |-> 1000,
     session_pause_drawdown_pct |-> 500, concentration_limit_per_module |-> Bp,
     exposure_limit_pct |-> Bp, mae_mult |-> 15, emergency_sl_mult |-> 30]

Up == [direction |-> "positive", volatility |-> "normal"]
Flat == [direction |-> "none", volatility |-> "normal"]
Down == [direction |-> "negative", volatility |-> "elevated"]
Wild == [direction |-> "none", volatility |-> "elevated"]

Good ==
    [pair |-> [status |-> "online", marginable |-> TRUE, costMin |-> 5, qtyMin |-> 10000],
     volume |-> 900, quote |-> [bid |-> 9990, ask |-> 10000], reward |-> 1700, mpp |-> 300,
     wsState |-> "Subscribed", regime |-> Up, dailyUp |-> 1, hourlyUp |-> 1,
     bodyBp |-> 5000, close |-> 10000, atr |-> 400, signal |-> TRUE]

Short == [Good EXCEPT !.regime = Down, !.dailyUp = -1, !.hourlyUp = -1]

\* Accepted ones: with slippage to spare, in half size, after a jump of the ask,
\* below the decided close, at the floor's edge, and too large for the wallet.
Accepted ==
    {Good, Short,
     [Good EXCEPT !.regime = Flat, !.dailyUp = -1],
     [Good EXCEPT !.quote = [bid |-> 10300, ask |-> 10400]],
     [Good EXCEPT !.quote = [bid |-> 9300, ask |-> 9400], !.reward = 2500]}

Refused ==
    {[Good EXCEPT !.pair.status = "cancel_only"], [Short EXCEPT !.pair.marginable = FALSE],
     [Good EXCEPT !.wsState = "DataPending"], [Good EXCEPT !.volume = 100],
     [Good EXCEPT !.regime = Wild], [Good EXCEPT !.hourlyUp = -1],
     [Good EXCEPT !.signal = FALSE], [Good EXCEPT !.bodyBp = 100],
     [Good EXCEPT !.reward = 1577], [Good EXCEPT !.pair.qtyMin = 30000],
     [Good EXCEPT !.pair = None], [Good EXCEPT !.mpp = None]}

AllFeeds == Accepted \cup Refused

TheQuotes == {[bid |-> 11500, ask |-> 11500], [bid |-> 9900, ask |-> 9900],
              [bid |-> 9000, ask |-> 9000], [bid |-> 7800, ask |-> 7800]}

TheTunings == {<<"long", "mae_mult", 13>>, <<"short", "mae_mult", 40>>}
TheDisallowances == {<<"long", {Up}>>, <<"long", {}>>}
=============================================================================
