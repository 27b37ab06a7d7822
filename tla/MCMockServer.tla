---------------------------- MODULE MCMockServer ----------------------------
EXTENDS MockServer, TLC

CONSTANTS c1, c2, t1, a

TwoClients == {c1, c2}
OneTester == {t1}
OneChannel == {a}
Symmetry == Permutations(TwoClients)
=============================================================================
