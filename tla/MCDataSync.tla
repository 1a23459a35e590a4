------------------------------ MODULE MCDataSync ------------------------------
EXTENDS DataSync, TLC
SyncSym == Permutations(RowCode) \cup Permutations(SyncWorker)
===============================================================================
