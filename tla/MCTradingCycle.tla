--------------------------- MODULE MCTradingCycle ---------------------------
EXTENDS TradingCycle, TLC
CONSTANTS m1, m2
Symmetry == Permutations(Market)
=============================================================================
