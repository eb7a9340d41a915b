------------------------------ MODULE MCBooks ------------------------------
(* BacktestBooks with two candidates.  A fall of A by a tenth is a HALT at full *)
(* weight and a CAUTIOUS at half of it; either symbol may have no bar.          *)
EXTENDS BacktestBooks

MCSymbols == <<"A", "B">>
MCRankings == {{}, {"A"}, {"A", "B"}}
MCOpens == {[s \in ToSet(MCSymbols) |-> IF s = "A" THEN a ELSE b] : a \in {0, 900, 1000}, b \in {0, 1000}}
=============================================================================
