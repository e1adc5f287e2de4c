---------------------------- MODULE MC_CseRoutes ----------------------------
EXTENDS CseRoutes, TLC

CONSTANTS d1, d2, r1, r2

MC_Deks == {d1, d2}
MC_Resources == {r1, r2}
MC_Symmetry == Permutations(MC_Deks) \cup Permutations(MC_Resources)
=============================================================================
