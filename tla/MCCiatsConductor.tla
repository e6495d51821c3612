------------------------- MODULE MCCiatsConductor -------------------------
(***************************************************************************)
(* CIATS over a handful of closes, in two parts that share nothing in      *)
(* their models: the loop from a close to the operator's answers, whose    *)
(* floor, cadence and interval are a few trades long, so that each gate    *)
(* opens, closes and opens again within a behaviour; and what is learnt    *)
(* from five closes in every order.                                        *)
(***************************************************************************)
EXTENDS CiatsConductor, Learning

VARIABLE part

ciatsVars == <<part, vars, learningVars>>

Trade(net, heat, rsi, ema, ratio, regime) ==
    [net |-> net, heat |-> heat, rsi_14 |-> rsi, ema_9 |-> ema, ema_21 |-> ema,
     volume_ratio |-> ratio, regime |-> regime]
MCTrades == {Trade(3, 1, 55, 10, 20, "trend"), Trade(1, 2, 40, 30, Absent, "trend"),
             Trade(0, Absent, Absent, Absent, Absent, Absent),
             Trade(-2, 5, 35, 20, 12, "range"), Trade(-1, 4, 45, 40, 15, "trend"),
             Trade(2, 6, 30, 40, 8, "range")}

CiatsInit == part \in {"loop", "learning"} /\ Init /\ LearningInit

CiatsNext ==
    /\ UNCHANGED part
    /\ \/ part = "loop" /\ Next /\ UNCHANGED learningVars
       \/ part = "learning" /\ LearningNext /\ UNCHANGED vars

CiatsSpec == CiatsInit /\ [][CiatsNext]_ciatsVars
=============================================================================
