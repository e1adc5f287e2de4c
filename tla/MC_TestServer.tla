---------------------------- MODULE MC_TestServer ----------------------------
EXTENDS TestServer, TLC

CONSTANTS t1, t2, t3

MC_Tests == {t1, t2, t3}
MC_TwoTests == {t1, t2}
MC_Symmetry == Permutations(MC_Tests)
=============================================================================
