------------------------------ MODULE MCAskAlerts ------------------------------
EXTENDS AskAlerts, TLC

CONSTANTS d1, i1, i2

OneSub == {[device |-> d1, keys |-> 1, level |-> "session"]}
=============================================================================
