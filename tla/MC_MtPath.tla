----------------------------- MODULE MC_MtPath -----------------------------
EXTENDS MtPath, TLC
CONSTANTS m1, m2, m3
CostOne == [m \in Msg |-> 1]
Sym == Permutations(Msg) \cup Permutations(Box)
=============================================================================
