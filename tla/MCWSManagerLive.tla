--------------------------- MODULE MCWSManagerLive --------------------------
(***************************************************************************)
(* Small instances of WSManagerLive for TLC.                               *)
(***************************************************************************)
EXTENDS WSManagerLive, TLC

\* An entry fills in one report, or in one of a part and then one of the whole,
\* of which a drop may lose the second or both.
OneReport == {<<1>>}
PartThenWhole == {<<1, 2>>}

Symmetry == Permutations(Symbols)
=============================================================================
