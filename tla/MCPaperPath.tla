---------------------------- MODULE MCPaperPath ----------------------------
(***************************************************************************)
(* Two parts that share nothing.  The paper path: two symbols of the long  *)
(* wallet and one of the short, as the tests drive them, with fees of a    *)
(* tenth and prices at which each exit layer fires.  The perp pools: two   *)
(* bases.  Trades of the one win, are gapped past their stop, or fall      *)
(* without a stop past the liquidation level; trades of the other are      *)
(* stopped, crash past their margin, or bleed: fall without being          *)
(* liquidated, and pay so much funding that they cost more than their      *)
(* margin.                                                                 *)
(***************************************************************************)
EXTENDS PaperPath, PerpWallet

CONSTANTS s1, s2, s3, b1, b2

LongAndShort == {<<"long", s1>>, <<"long", s2>>, <<"short", s3>>}

TheHalt == [long_perp |-> 2500, short_perp |-> 2000]
ThePause == [long_perp |-> 1500, short_perp |-> 1000]
TheBaseline == [long_perp |-> "frozen", short_perp |-> "rolling"]

Win == [gross |-> 2730, adverse |-> 0, stop |-> 2670, gap |-> 0, premium |-> -5]
Stop == [Win EXCEPT !.gross = -2670, !.adverse = 2670]
Gap == [Win EXCEPT !.gap = 5370, !.premium = 20]
Crash == [Win EXCEPT !.gap = 15000]
Fall == [Win EXCEPT !.adverse = 10500, !.stop = Absent, !.premium = -20]
Bleed == [Fall EXCEPT !.gross = -9420, !.adverse = 9420, !.premium = 630]

Kinds == {<<b1, 1, Win>>, <<b1, 1, Gap>>, <<b1, 1, Fall>>,
          <<b2, 1, Stop>>, <<b2, 1, Crash>>, <<b2, 2, Bleed>>}

TheTrades ==
    { [base |-> k[1], hold |-> k[2], gross |-> k[3].gross, adverse |-> k[3].adverse,
       stop |-> k[3].stop, gap |-> k[3].gap, premium |-> k[3].premium] : k \in Kinds }

VARIABLE part

walletVars == <<part, vars, poolVars>>

WalletsInit == part \in {"paper", "perp"} /\ Init /\ PoolsInit

InPerp == part = "perp" /\ UNCHANGED <<part, vars>>

WalletsNext ==
    \/ part = "paper" /\ Next /\ UNCHANGED <<part, poolVars>>
    \/ InPerp /\ PoolsNext

WalletsSpec ==
    WalletsInit /\ [][WalletsNext]_walletVars /\ WF_walletVars(InPerp /\ Clock)
=============================================================================
