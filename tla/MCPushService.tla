------------------------------ MODULE MCPushService ------------------------------
EXTENDS PushService, TLC

CONSTANTS d1, d2, i1, i2

NoSubs == {}
OneSub == {[device |-> d1, keys |-> 1, level |-> "session"]}
=============================================================================
