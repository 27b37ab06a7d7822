------------------------ MODULE MCConnectionManager ------------------------
EXTENDS ConnectionManager, TLC

CONSTANTS t1, t2

OneThread == {t1}
TwoThreads == {t1, t2}
NoEnvelopes == {}
Events == {"event"}

CallsOf(c, d, x) == [connect |-> c, disconnect |-> d, close |-> x]

AllCalls == CallsOf(2, 1, 1)
ConnectClose == CallsOf(1, 0, 1)
OneConnect == CallsOf(1, 0, 0)
ConnectDisconnect == CallsOf(1, 1, 0)
Symmetry == Permutations(TwoThreads)
=============================================================================
