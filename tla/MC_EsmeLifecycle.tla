-------------------------- MODULE MC_EsmeLifecycle --------------------------
EXTENDS EsmeLifecycle, TLC
Sym == Permutations(Esme) \cup Permutations(InThread)
=============================================================================
