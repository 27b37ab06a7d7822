------------------------ MODULE MCWebSocketStrategy ------------------------
EXTENDS WebSocketStrategy

CONSTANTS t1, t2

AllEnvelopes == {"ignored", "event"}
TwoThreads == {t1, t2}
=============================================================================
