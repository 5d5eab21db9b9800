------------------------- MODULE MCAsyncCheckpoint --------------------------
(* Two trainers, the second of which may have no tensors to write. *)
EXTENDS AsyncCheckpointProperties, TLC

CONSTANTS r1, r2

MCRanks == {r1, r2}
Both    == [shm |-> FALSE, holders |-> {r1, r2}]
OneOnly == [shm |-> FALSE, holders |-> {r1}]
BothShm == [shm |-> TRUE, holders |-> {r1, r2}]
MCSetups == {OneOnly, BothShm}
AllSetups == {Both, OneOnly, BothShm}
OneShm  == [shm |-> TRUE, holders |-> {r1}]
=============================================================================
