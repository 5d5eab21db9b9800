------------------------- MODULE MCLocalCheckpoint --------------------------
EXTENDS LocalCheckpointProperties

SyncPairs  == [async |-> FALSE, replicated |-> TRUE, jump |-> 1, factor |-> 2]
AsyncPairs == [async |-> TRUE, replicated |-> TRUE, jump |-> 1, factor |-> 2]
AsyncAlone == [async |-> TRUE, replicated |-> FALSE, jump |-> 1, factor |-> 1]
SyncAlone  == [async |-> FALSE, replicated |-> FALSE, jump |-> 1, factor |-> 1]

MCSetups == {SyncPairs, AsyncPairs, AsyncAlone}
OnlySync == {SyncPairs}
=============================================================================
