---------------------------- MODULE MCCandleFold ----------------------------
(***************************************************************************)
(* The market as the bot sees it, in three parts that share nothing in     *)
(* their models: the clocks that fold candles into hours and days, the     *)
(* indicators computed of a series of candles, and the regimes computed of *)
(* a series of days.                                                       *)
(***************************************************************************)
EXTENDS CandleFold, MarketView

VARIABLE part

viewVars == <<part, vars, marketVars>>

Bar(l, h, c, v) == [open |-> c, low |-> l, high |-> h, close |-> c, volume |-> v]
Flat == Bar(1000, 1000, 1000, 10)
Up == Bar(1000, 1030, 1020, 30)
Higher == [Bar(1060, 1090, 1080, 40) EXCEPT !.open = 1070]
Down == [Bar(950, 990, 960, 20) EXCEPT !.open = 985]

MCCandles == {Flat, Up, Higher, Down}
MCSeedSeries == {<<Flat>>, <<Flat, Flat, Flat>>, <<Flat, Up, Down>>, <<Down, Higher, Up, Down>>}
MCDailySeries == {<<Up, Down>>, <<Flat, Flat, Flat, Flat>>, <<Up, Higher, Up, Down, Up>>,
                  <<Up, Higher, Flat, Flat, Up>>, <<Higher, Higher, Down, Flat, Up, Higher>>,
                  <<Down, Up, Higher, Higher, Flat, Flat, Up>>}
MCRsiBounds == [long |-> {30, 70}, short |-> {80, 40}]

\* A part that does not run stands in one of its initial states.
ViewInit ==
    /\ part \in {"clocks", "candles", "regimes"}
    /\ Init /\ MarketInit
    /\ part # "clocks" =>
           /\ \A w \in Warmed : warmed <= w
           /\ clock = warmed + 1 /\ decision = NoCache
           /\ \A d \in DOMAIN trend : ~trend[d]

ViewNext ==
    /\ UNCHANGED part
    /\ \/ part = "clocks" /\ Next /\ UNCHANGED marketVars
       \/ part = "candles" /\ CandlesNext /\ UNCHANGED vars
       \/ part = "regimes" /\ RegimesNext /\ UNCHANGED vars

ViewSpec == ViewInit /\ [][ViewNext]_viewVars
=============================================================================
