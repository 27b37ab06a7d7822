----------------------------- MODULE MCSendPath -----------------------------
EXTENDS SendPath

CONSTANTS t1, s1, j1

NoEnvelopes == {}
NoThreads == {}
OneThread == {t1}
OneSender == {s1}
NoJoiners == {}
OneJoiner == {j1}
=============================================================================
